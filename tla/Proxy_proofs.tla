---------------------------- MODULE Proxy_proofs ----------------------------
(***************************************************************************)
(* Theorems about Proxy, for any number of client messages and source      *)
(* changes and under every fault.                                          *)
(***************************************************************************)
EXTENDS Proxy, TLAPS

-----------------------------------------------------------------------------
(***************************************************************************)
(* Type correctness                                                        *)
(***************************************************************************)

\* The processes that can be behind self.proc.
Inners == [alive : BOOLEAN, code : 0 .. edits, stdin : Seq(Traffic),
           got : Seq(Traffic), stdout : Seq(Msgs), replayed : BOOLEAN]

\* Client messages travel with the notification the proxy adds.
LEMMA MsgsAreTraffic == Msgs \subseteq Traffic /\ InitReq \in Msgs /\ Initialized \in Traffic
BY ProxyAssumption DEF Msgs, Traffic, InitReq, Initialized

\* Lines of the client can be written after other lines.
LEMMA SeqTypes ==
    /\ \A s \in Seq(Traffic), t \in Seq(Msgs) : s \o t \in Seq(Traffic)
    /\ \A s \in Seq(Traffic), m \in Traffic : Append(s, m) \in Seq(Traffic)
    /\ \A s \in Seq(Msgs), m \in Msgs : Append(s, m) \in Seq(Msgs)
    /\ \A m \in Msgs : <<m>> \in Seq(Msgs) /\ <<m>> \in Seq(Traffic)
<1>1. \A t \in Seq(Msgs) : t \in Seq(Traffic)
  BY MsgsAreTraffic
<1>2. \A s \in Seq(Traffic), t \in Seq(Msgs) : s \o t \in Seq(Traffic)
  BY <1>1
<1> QED BY <1>2, MsgsAreTraffic

\* A cleared buffer is a sequence of client messages.
LEMMA EmptySeq == <<>> \in Seq(Msgs)
OBVIOUS

\* A message that has been sent and read is a client message.
LEMMA ReadIsMsg == ASSUME TypeOK PROVE /\ read < sent => read + 1 \in Msgs
                                       /\ read \in Nat /\ sent \in Nat
                                       /\ read > 0 => read \in Msgs
BY ProxyAssumption DEF TypeOK, Msgs, InitReq

\* What a write leaves in the pipe is typed.
LEMMA WrittenType ==
    ASSUME TypeOK, NEW m \in Msgs
    PROVE  Written(<<m>>) \in Inners
<1>1. inner \in Inners
  BY DEF TypeOK, Inners
<1>2. inner.stdin \in Seq(Traffic) /\ inner.stdin \o <<m>> \in Seq(Traffic)
  BY <1>1, SeqTypes DEF Inners
<1> QED BY <1>1, <1>2 DEF Written, Inners

\* The end of a restart leaves a typed process and buffer, and clears the
\* flag unless it is suspended.
LEMMA FlushType ==
    ASSUME TypeOK, NEW proc \in Inners, Flush(proc), watcher # "watch"
    PROVE  /\ inner' \in Inners
           /\ pending' \in Seq(Msgs)
           /\ restarting' \in BOOLEAN
           /\ watcher' \in {"watch", "drain"}
           /\ restarting' <=> watcher' # "watch"
<1>1. pending \in Seq(Msgs) /\ restarting = TRUE
  BY DEF TypeOK
<1>2. proc.stdin \in Seq(Traffic) /\ proc.stdin \o pending \in Seq(Traffic)
  BY <1>1, SeqTypes DEF Inners
<1>3. \A x \in Seq(Traffic) : [proc EXCEPT !.stdin = x] \in Inners
  BY DEF Inners
<1>4. inner' \in Inners
  <2>1. (IF proc.alive THEN proc.stdin \o pending ELSE proc.stdin) \in Seq(Traffic)
    BY <1>2
  <2>2. [proc EXCEPT !.stdin = IF proc.alive THEN proc.stdin \o pending ELSE proc.stdin] \in Inners
    BY <1>3, <2>1
  <2>3. [proc EXCEPT !.stdin = proc.stdin \o pending] \in Inners
    BY <1>2, <1>3
  <2> QED BY <2>2, <2>3 DEF Flush
<1>5. pending' = <<>> \/ pending' = pending
  BY DEF Flush
<1>6. \/ restarting' = FALSE /\ watcher' = "watch"
      \/ restarting' = TRUE /\ watcher' = "drain"
  BY <1>1 DEF Flush
<1>7. pending' \in Seq(Msgs)
  BY <1>1, <1>5, EmptySeq, Zenon
<1>8. restarting' \in BOOLEAN /\ watcher' \in {"watch", "drain"} /\ (restarting' <=> watcher' # "watch")
  BY <1>6
<1> QED BY <1>4, <1>7, <1>8

\* Proxy.tla's TypeOK: in particular the flag is up exactly while a restart is
\* under way, and no other task is inside an await on a pipe then.
THEOREM ProxyTypeCorrect == Spec => []TypeOK
<1>1. Init => TypeOK
  <2> SUFFICES ASSUME Init PROVE TypeOK
    OBVIOUS
  <2>1. inner \in [alive : BOOLEAN, code : 0 .. edits, stdin : Seq(Traffic),
                  got : Seq(Traffic), stdout : Seq(Msgs), replayed : BOOLEAN]
    BY DEF Init, Spawned
  <2>2. sent \in 0 .. MaxMsgs /\ read \in 0 .. sent /\ edits \in 0 .. MaxEdits
    BY ProxyAssumption DEF Init
  <2>3. pending \in Seq(Msgs) /\ answers \in [Msgs -> Nat]
    BY DEF Init
  <2> QED BY <2>1, <2>2, <2>3 DEF Init, TypeOK
<1>2. TypeOK /\ [Next]_vars => TypeOK'
  <2> SUFFICES ASSUME TypeOK, [Next]_vars PROVE TypeOK'
    OBVIOUS
  <2>0. inner \in Inners /\ inner.stdin \in Seq(Traffic) /\ inner.got \in Seq(Traffic)
        /\ inner.stdout \in Seq(Msgs) /\ inner.alive \in BOOLEAN
    BY DEF TypeOK, Inners
  <2>1. CASE ClientSend
    BY <2>1, ProxyAssumption DEF ClientSend, TypeOK, source, forward
  <2>2. CASE FileChange
    <3>1. edits' \in 0 .. MaxEdits /\ bad' \subseteq 1 .. edits' /\ 0 .. edits \subseteq 0 .. edits'
      BY <2>2, ProxyAssumption DEF FileChange, TypeOK
    <3>2. inner' \in [alive : BOOLEAN, code : 0 .. edits', stdin : Seq(Traffic),
                     got : Seq(Traffic), stdout : Seq(Msgs), replayed : BOOLEAN]
      BY <2>0, <2>2, <3>1 DEF FileChange, Inners
    <3> QED BY <2>2, <3>1, <3>2 DEF FileChange, TypeOK, client, forward
  <2>3. CASE InnerServe
    <3> DEFINE m == Head(inner.stdin)
    <3>1. m \in Traffic /\ Tail(inner.stdin) \in Seq(Traffic)
      BY <2>0, <2>3 DEF InnerServe
    <3>2. m # Initialized => m \in Msgs
      BY <3>1, ProxyAssumption DEF Traffic, Msgs, Initialized, InitReq
    <3>3. Append(inner.got, m) \in Seq(Traffic)
      BY <2>0, <3>1, SeqTypes
    <3>4. (IF m = Initialized THEN inner.stdout ELSE Append(inner.stdout, m)) \in Seq(Msgs)
      BY <2>0, <3>2, SeqTypes
    <3>5. inner' = [inner EXCEPT
             !.stdin = Tail(inner.stdin), !.got = Append(inner.got, m),
             !.stdout = IF m = Initialized THEN inner.stdout ELSE Append(inner.stdout, m)]
      BY <2>3 DEF InnerServe
    <3> HIDE DEF m
    <3>6. inner' \in Inners
      BY <2>0, <3>1, <3>3, <3>4, <3>5 DEF Inners
    <3> QED BY <2>3, <3>6 DEF InnerServe, Inners, TypeOK, client, source, forward
  <2>4. CASE InnerExit
    <3>1. inner' \in Inners
      BY <2>0, <2>4 DEF InnerExit, Inners
    <3> QED BY <2>4, <3>1 DEF InnerExit, Inners, TypeOK, client, source, forward
  <2>5. CASE StdinRead
    <3>1. read + 1 \in Msgs /\ read' = read + 1 /\ read' \in 0 .. sent
      BY <2>5, ReadIsMsg DEF StdinRead, TypeOK
    <3>2. inner' \in Inners
      BY <2>0, <2>5, <3>1, WrittenType DEF StdinRead
    <3>3. pending' \in Seq(Msgs)
      <4>1. pending \in Seq(Msgs) /\ Buffered(read + 1) \in Seq(Msgs)
        BY <3>1, SeqTypes DEF Buffered, TypeOK
      <4> QED BY <2>5, <4>1 DEF StdinRead
    <3>4. /\ reader' \in {"read", "drain"} /\ loop' \in {"runs", "spins", "exited"}
          /\ restarting => reader' = reader
      BY <2>5 DEF StdinRead, TypeOK
    <3>5. UNCHANGED <<client, source, restarting, writer, watcher, faulted>>
      BY <2>5 DEF StdinRead
    <3>6. reader' = "drain" => read' > 0
      BY <3>1, ReadIsMsg
    <3> QED BY <3>1, <3>2, <3>3, <3>4, <3>5, <3>6, <2>0 DEF Inners, TypeOK, client, source
  <2>6. CASE StdinDrained
    <3>1. read \in Msgs
      BY <2>6, ReadIsMsg DEF StdinDrained, TypeOK
    <3>2. inner' \in Inners
      BY <2>0, <2>6, <3>1, WrittenType DEF StdinDrained
    <3>3. pending' \in Seq(Msgs)
      <4>1. pending \in Seq(Msgs) /\ Buffered(read) \in Seq(Msgs)
        BY <3>1, SeqTypes DEF Buffered, TypeOK
      <4> QED BY <2>6, <4>1 DEF StdinDrained
    <3> QED BY <2>6, <3>2, <3>3 DEF StdinDrained, Inners, TypeOK, client, source
  <2>7. CASE WriterWakes
    BY <2>7 DEF WriterWakes, TypeOK, client, source, forward
  <2>8. CASE ForwardLine
    <3>1. Head(inner.stdout) \in Msgs /\ Tail(inner.stdout) \in Seq(Msgs)
      BY <2>0, <2>8 DEF ForwardLine
    <3>2. inner' = [inner EXCEPT !.stdout = Tail(inner.stdout)]
      BY <2>8 DEF ForwardLine
    <3>3. inner' \in Inners
      BY <2>0, <3>1, <3>2 DEF Inners
    <3>4. answers' \in [Msgs -> Nat]
      <4>1. PICK h \in Msgs : h = Head(inner.stdout)
        BY <3>1
      <4>2. answers' = [answers EXCEPT ![h] = @ + 1]
        BY <2>8, <4>1 DEF ForwardLine
      <4> QED BY <4>2 DEF TypeOK
    <3> QED BY <2>8, <3>3, <3>4 DEF ForwardLine, Inners, TypeOK, source, forward
  <2>9. CASE ForwardEof
    BY <2>9 DEF ForwardEof, TypeOK, client, source, forward
  <2>10. CASE RestartBegins
    <3>1. inner' \in Inners
      BY <2>0, <2>10 DEF RestartBegins, Inners
    <3> QED BY <2>10, <3>1 DEF RestartBegins, Inners, TypeOK, client, forward
  <2>11. CASE Waited
    BY <2>11 DEF Waited, TypeOK, client, source, forward
  <2>12. CASE Spawn \/ ReplayAnswered \/ ReplayFails
    <3>1. /\ UNCHANGED <<client, source, read, reader, writer, loop>>
          /\ faulted' \in BOOLEAN /\ watcher \in {"spawn", "replay"}
      BY <2>12 DEF Spawn, ReplayAnswered, ReplayFails, TypeOK
    <3>2. \/ \E proc \in Inners : Flush(proc)
          \/ /\ inner' = Spawned(<<InitReq>>, TRUE) /\ watcher' = "replay"
             /\ UNCHANGED <<pending, restarting>>
      <4>1. CASE Spawn
        <5>1. Spawned(<<>>, FALSE) \in Inners
          BY DEF Spawned, Inners, TypeOK
        <5> QED BY <4>1, <5>1 DEF Spawn
      <4>2. CASE ReplayFails
        BY <2>0, <4>2 DEF ReplayFails
      <4>3. CASE ReplayAnswered
        <5> DEFINE stdin == IF inner.alive THEN Append(inner.stdin, Initialized) ELSE inner.stdin
        <5>1. stdin \in Seq(Traffic) /\ Tail(inner.stdout) \in Seq(Msgs)
          BY <2>0, <4>3, MsgsAreTraffic, SeqTypes DEF ReplayAnswered
        <5>2. Flush([inner EXCEPT !.stdout = Tail(inner.stdout), !.stdin = stdin])
          BY <4>3 DEF ReplayAnswered
        <5> HIDE DEF stdin
        <5>3. [inner EXCEPT !.stdout = Tail(inner.stdout), !.stdin = stdin] \in Inners
          BY <2>0, <5>1 DEF Inners
        <5> QED BY <5>2, <5>3
      <4> QED BY <2>12, <4>1, <4>2, <4>3
    <3>3. /\ inner' \in Inners /\ pending' \in Seq(Msgs) /\ restarting' \in BOOLEAN
          /\ watcher' \in {"watch", "drain", "replay"} /\ (restarting' <=> watcher' # "watch")
      <4>1. CASE \E proc \in Inners : Flush(proc)
        BY <3>1, <4>1, FlushType
      <4>2. CASE /\ inner' = Spawned(<<InitReq>>, TRUE) /\ watcher' = "replay"
                 /\ UNCHANGED <<pending, restarting>>
        <5>1. Spawned(<<InitReq>>, TRUE) \in Inners
          BY MsgsAreTraffic DEF Spawned, Inners, TypeOK
        <5> QED BY <3>1, <4>2, <5>1 DEF TypeOK
      <4> QED BY <3>2, <4>1, <4>2
    <3> QED BY <3>1, <3>3 DEF Inners, TypeOK, client, source
  <2>13. CASE SpawnFails
    BY <2>13 DEF SpawnFails, TypeOK, client, source, forward
  <2>14. CASE FlushDrained
    <3>1. pending' \in Seq(Msgs)
      <4>1. pending' = <<>> \/ pending' = pending
        BY <2>14 DEF FlushDrained
      <4>2. pending \in Seq(Msgs)
        BY DEF TypeOK
      <4> QED BY <4>1, <4>2, EmptySeq, Zenon
    <3> QED BY <2>14, <3>1 DEF FlushDrained, TypeOK, client, source
  <2>15. CASE UNCHANGED vars
    BY <2>15 DEF vars, TypeOK, client, source, forward
  <2> QED
    BY <2>1, <2>2, <2>3, <2>4, <2>5, <2>6, <2>7, <2>8, <2>9, <2>10, <2>11, <2>12, <2>13,
       <2>14, <2>15
    DEF Next, Serving, Reading, Writing, Watching
<1> QED BY <1>1, <1>2, PTL DEF Spec

-----------------------------------------------------------------------------
(***************************************************************************)
(* Sequences of lines                                                      *)
(***************************************************************************)

\* Requests after initialize come in the order the client sent them.
Rising(s) ==
    \A i, j \in DOMAIN s : i < j /\ s[i] > InitReq /\ s[j] > InitReq => s[i] < s[j]

\* Those of s come before those of t.
Before(s, t) ==
    \A i \in DOMAIN s : \A j \in DOMAIN t : s[i] > InitReq /\ t[j] > InitReq => s[i] < t[j]

Below(s, n) == \A i \in DOMAIN s : s[i] <= n

Has(s, x) == \E i \in DOMAIN s : s[i] = x

\* No request comes before the first x.
Opened(s, x) == \A i \in DOMAIN s : s[i] > InitReq => \E j \in 1 .. i - 1 : s[j] = x

\* What is at each place of a concatenation.
LEMMA ConcatAt ==
    ASSUME NEW s \in Seq(Traffic), NEW t \in Seq(Traffic)
    PROVE  /\ s \o t \in Seq(Traffic)
           /\ Len(s) \in Nat /\ Len(t) \in Nat
           /\ DOMAIN s = 1 .. Len(s) /\ DOMAIN t = 1 .. Len(t)
           /\ DOMAIN (s \o t) = 1 .. Len(s) + Len(t)
           /\ \A i \in 1 .. Len(s) : (s \o t)[i] = s[i]
           /\ \A i \in 1 .. Len(t) : (s \o t)[Len(s) + i] = t[i]
OBVIOUS

\* A place of a concatenation is a place of one of the two.
LEMMA ConcatPlace ==
    ASSUME NEW s \in Seq(Traffic), NEW t \in Seq(Traffic), NEW i \in DOMAIN (s \o t)
    PROVE  \/ i \in DOMAIN s /\ (s \o t)[i] = s[i]
           \/ \E k \in DOMAIN t : i = Len(s) + k /\ (s \o t)[i] = t[k]
<1>1. CASE i <= Len(s)
  BY <1>1, ConcatAt
<1>2. CASE i > Len(s)
  <2>1. i - Len(s) \in 1 .. Len(t) /\ i = Len(s) + (i - Len(s))
    BY <1>2, ConcatAt
  <2> QED BY <2>1, ConcatAt
<1> QED BY <1>1, <1>2, ConcatAt

\* Lines are numbers.
LEMMA LineIsNat ==
    ASSUME NEW s \in Seq(Traffic), NEW i \in DOMAIN s
    PROVE  s[i] \in Nat
BY ProxyAssumption DEF Traffic, Initialized

LEMMA ConcatRising ==
    ASSUME NEW s \in Seq(Traffic), NEW t \in Seq(Traffic), Rising(s), Rising(t), Before(s, t)
    PROVE  Rising(s \o t)
<1> SUFFICES ASSUME NEW i \in DOMAIN (s \o t), NEW j \in DOMAIN (s \o t), i < j,
                    (s \o t)[i] > InitReq, (s \o t)[j] > InitReq
             PROVE  (s \o t)[i] < (s \o t)[j]
  BY DEF Rising
<1>1. CASE i \in DOMAIN s /\ j \in DOMAIN s
  BY <1>1, ConcatAt DEF Rising
<1>2. CASE i \in DOMAIN s /\ j \notin DOMAIN s
  BY <1>2, ConcatPlace, ConcatAt DEF Before
<1>3. CASE i \notin DOMAIN s
  <2>1. PICK k \in DOMAIN t : i = Len(s) + k /\ (s \o t)[i] = t[k]
    BY <1>3, ConcatPlace
  <2>2. j \notin DOMAIN s
    BY <2>1, ConcatAt
  <2>3. PICK l \in DOMAIN t : j = Len(s) + l /\ (s \o t)[j] = t[l]
    BY <2>2, ConcatPlace
  <2>4. k < l
    BY <2>1, <2>3, ConcatAt
  <2> QED BY <2>1, <2>3, <2>4 DEF Rising
<1> QED BY <1>1, <1>2, <1>3

LEMMA ConcatBefore ==
    ASSUME NEW g \in Seq(Traffic), NEW s \in Seq(Traffic), NEW t \in Seq(Traffic),
           Before(g, s), Before(g, t)
    PROVE  Before(g, s \o t)
BY ConcatPlace DEF Before

LEMMA ConcatBelow ==
    ASSUME NEW s \in Seq(Traffic), NEW t \in Seq(Traffic), NEW n, Below(s, n), Below(t, n)
    PROVE  Below(s \o t, n)
BY ConcatPlace DEF Below

LEMMA ConcatHas ==
    ASSUME NEW s \in Seq(Traffic), NEW t \in Seq(Traffic), NEW x, Has(s, x) \/ Has(t, x)
    PROVE  Has(s \o t, x)
<1>1. CASE Has(s, x)
  <2>1. PICK i \in DOMAIN s : s[i] = x
    BY <1>1 DEF Has
  <2>2. i \in DOMAIN (s \o t) /\ (s \o t)[i] = x
    BY <2>1, ConcatAt
  <2> QED BY <2>2 DEF Has
<1>2. CASE Has(t, x)
  <2>1. PICK i \in DOMAIN t : t[i] = x
    BY <1>2 DEF Has
  <2>2. Len(s) + i \in DOMAIN (s \o t) /\ (s \o t)[Len(s) + i] = x
    BY <2>1, ConcatAt
  <2> QED BY <2>2 DEF Has
<1> QED BY <1>1, <1>2

LEMMA ConcatOpened ==
    ASSUME NEW s \in Seq(Traffic), NEW t \in Seq(Traffic), NEW x,
           Opened(s, x), Has(s, x) \/ Below(t, InitReq)
    PROVE  Opened(s \o t, x)
<1> SUFFICES ASSUME NEW i \in DOMAIN (s \o t), (s \o t)[i] > InitReq
             PROVE  \E j \in 1 .. i - 1 : (s \o t)[j] = x
  BY DEF Opened
<1>1. CASE i \in DOMAIN s
  <2>1. PICK j \in 1 .. i - 1 : s[j] = x
    BY <1>1, ConcatAt DEF Opened
  <2>2. (s \o t)[j] = x
    BY <1>1, <2>1, ConcatAt
  <2> QED BY <2>2
<1>2. CASE i \notin DOMAIN s
  <2>1. PICK k \in DOMAIN t : i = Len(s) + k /\ (s \o t)[i] = t[k]
    BY <1>2, ConcatPlace
  <2>2. Has(s, x)
    BY <2>1, LineIsNat DEF Below, InitReq
  <2>3. PICK j \in DOMAIN s : s[j] = x
    BY <2>2 DEF Has
  <2>4. j \in 1 .. i - 1 /\ (s \o t)[j] = x
    BY <2>1, <2>3, ConcatAt
  <2> QED BY <2>4
<1> QED BY <1>1, <1>2

\* One line after others.
LEMMA AppendIsConcat ==
    ASSUME NEW s \in Seq(Traffic), NEW m \in Traffic
    PROVE  Append(s, m) = s \o <<m>>
OBVIOUS

\* What is left after the first line.
LEMMA TailAt ==
    ASSUME NEW s \in Seq(Traffic), s # <<>>
    PROVE  /\ Head(s) = s[1] /\ 1 \in DOMAIN s /\ Head(s) \in Traffic
           /\ Tail(s) \in Seq(Traffic)
           /\ DOMAIN s = 1 .. Len(s) /\ DOMAIN Tail(s) = 1 .. Len(s) - 1 /\ Len(s) \in Nat
           /\ \A i \in DOMAIN Tail(s) : i + 1 \in DOMAIN s /\ Tail(s)[i] = s[i + 1]
OBVIOUS

\* A sequence of one line, and of none.
LEMMA OneLine ==
    ASSUME NEW m \in Traffic
    PROVE  /\ <<m>> \in Seq(Traffic) /\ Rising(<<m>>)
           /\ \A n : m <= n => Below(<<m>>, n)
           /\ \A s \in Seq(Traffic) : Before(s, <<m>>) <=>
                 \A i \in DOMAIN s : s[i] > InitReq /\ m > InitReq => s[i] < m
BY LineIsNat DEF Rising, Below, Before

LEMMA NoLine ==
    /\ <<>> \in Seq(Traffic) /\ Rising(<<>>) /\ \A n : Below(<<>>, n)
    /\ \A s : Before(<<>>, s) /\ Before(s, <<>>)
    /\ \A x : ~Has(<<>>, x) /\ Opened(<<>>, x)
BY DEF Rising, Below, Before, Has, Opened

-----------------------------------------------------------------------------
(***************************************************************************)
(* What an inner server has read and what waits in its pipe                *)
(***************************************************************************)

\* Read and waiting lines together are in order, and none is later than n.
Order(g, s, n) ==
    Rising(g) /\ Rising(s) /\ Before(g, s) /\ Below(g, n) /\ Below(s, n)

\* No request comes before the first x, in the lines read and waiting.
Opens(g, s, x) == Opened(g, x) /\ (Has(g, x) \/ Opened(s, x))

\* Reading the first line keeps both.
LEMMA ServeKeeps ==
    ASSUME NEW g \in Seq(Traffic), NEW s \in Seq(Traffic), s # <<>>
    PROVE  /\ \A n : Below(g, n) /\ Below(s, n)
                    => Below(Append(g, Head(s)), n) /\ Below(Tail(s), n)
           /\ \A n : Order(g, s, n) => Order(Append(g, Head(s)), Tail(s), n)
           /\ \A x : Opens(g, s, x) => Opens(Append(g, Head(s)), Tail(s), x)
           /\ \A x : Has(g, x) => Has(Append(g, Head(s)), x)
           /\ \A x : Has(s, x) => Has(Append(g, Head(s)), x) \/ Has(Tail(s), x)
<1>1. PICK h \in Traffic : h = Head(s) /\ h = s[1]
  BY TailAt
<1>2. PICK t \in Seq(Traffic) : t = Tail(s)
  BY TailAt
<1>3. /\ DOMAIN s = 1 .. Len(s) /\ DOMAIN t = 1 .. Len(s) - 1 /\ Len(s) \in Nat
      /\ \A i \in DOMAIN t : i + 1 \in DOMAIN s /\ t[i] = s[i + 1]
      /\ 1 \in DOMAIN s
  BY <1>2, TailAt
<1>5. <<h>> \in Seq(Traffic)
  BY OneLine
<1>4. PICK k \in Seq(Traffic) : k = g \o <<h>> /\ k = Append(g, Head(s))
  <2>1. g \o <<h>> \in Seq(Traffic)
    BY <1>5, ConcatAt
  <2>2. Append(g, Head(s)) = g \o <<h>>
    BY <1>1, AppendIsConcat
  <2> QED BY <2>1, <2>2
<1>6. \A i \in DOMAIN s : i = 1 \/ \E j \in DOMAIN t : i = j + 1 /\ s[i] = t[j]
  <2> SUFFICES ASSUME NEW i \in DOMAIN s, i # 1
               PROVE  \E j \in DOMAIN t : i = j + 1 /\ s[i] = t[j]
    OBVIOUS
  <2>1. i - 1 \in DOMAIN t /\ i = (i - 1) + 1
    BY <1>3
  <2> QED BY <1>3, <2>1
<1>7. ASSUME NEW n, Below(g, n), Below(s, n) PROVE Below(k, n) /\ Below(t, n)
  <2>1. h <= n
    BY <1>1, <1>3, <1>7 DEF Below
  <2>2. Below(k, n)
    BY <1>4, <1>5, <1>7, <2>1, OneLine, ConcatBelow
  <2> QED BY <1>3, <1>7, <2>2 DEF Below
<1>8. ASSUME NEW n, Order(g, s, n) PROVE Order(k, t, n)
  <2>1. Below(k, n) /\ Below(t, n)
    BY <1>7, <1>8 DEF Order
  <2>2. Before(g, <<h>>)
    <3>1. \A i \in DOMAIN g : g[i] > InitReq /\ h > InitReq => g[i] < h
      BY <1>1, <1>3, <1>8 DEF Order, Before
    <3> QED BY <3>1, OneLine
  <2>3. Rising(k)
    BY <1>4, <1>5, <1>8, <2>2, OneLine, ConcatRising DEF Order
  <2>4. Rising(t)
    BY <1>3, <1>8 DEF Order, Rising
  <2>5. Before(k, t)
    <3> SUFFICES ASSUME NEW i \in DOMAIN k, NEW j \in DOMAIN t, k[i] > InitReq, t[j] > InitReq
                 PROVE  k[i] < t[j]
      BY DEF Before
    <3>1. CASE i \in DOMAIN g /\ k[i] = g[i]
      BY <1>3, <1>8, <3>1 DEF Order, Before
    <3>2. CASE k[i] = h
      <4>1. h = s[1] /\ 1 \in DOMAIN s /\ j + 1 \in DOMAIN s /\ t[j] = s[j + 1] /\ 1 < j + 1
        BY <1>1, <1>3
      <4>2. Rising(s)
        BY <1>8 DEF Order
      <4>3. s[1] > InitReq /\ s[j + 1] > InitReq => s[1] < s[j + 1]
        BY <4>1, <4>2 DEF Rising
      <4> QED BY <3>2, <4>1, <4>3
    <3>3. (i \in DOMAIN g /\ k[i] = g[i]) \/ \E l \in DOMAIN <<h>> : k[i] = <<h>>[l]
      BY <1>4, <1>5, ConcatPlace
    <3>4. \A l \in DOMAIN <<h>> : <<h>>[l] = h
      OBVIOUS
    <3>5. (i \in DOMAIN g /\ k[i] = g[i]) \/ k[i] = h
      BY <3>3, <3>4
    <3> QED BY ONLY <3>1, <3>2, <3>5
  <2> QED BY <2>1, <2>3, <2>4, <2>5 DEF Order
<1>9. ASSUME NEW x, Has(g, x) PROVE Has(k, x)
  BY <1>4, <1>5, <1>9, ConcatHas
<1>10. ASSUME NEW x, Has(s, x) PROVE Has(k, x) \/ Has(t, x)
  <2>1. PICK i \in DOMAIN s : s[i] = x
    BY <1>10 DEF Has
  <2>2. CASE i = 1
    <3>1. Has(<<h>>, x)
      BY <1>1, <2>1, <2>2 DEF Has
    <3> QED BY <1>4, <1>5, <3>1, ConcatHas
  <2>3. CASE i # 1
    BY <1>6, <2>1, <2>3 DEF Has
  <2> QED BY <2>2, <2>3
<1>11. ASSUME NEW x, Opens(g, s, x) PROVE Opens(k, t, x)
  <2>1. CASE Has(g, x)
    BY <1>4, <1>5, <1>9, <1>11, <2>1, ConcatOpened DEF Opens
  <2>2. CASE ~Has(g, x)
    <3>1. Opened(s, x) /\ Opened(g, x)
      BY <1>11, <2>2 DEF Opens
    <3>2. ~(h > InitReq)
      BY <1>1, <1>3, <3>1 DEF Opened
    <3>3. Below(<<h>>, InitReq)
      BY <3>2, OneLine, ProxyAssumption DEF Traffic, Initialized, InitReq
    <3>4. Opened(k, x)
      BY <1>4, <1>5, <3>1, <3>3, ConcatOpened
    <3>5. CASE h = x
      <4>1. Has(<<h>>, x)
        BY <3>5 DEF Has
      <4> QED BY <1>4, <1>5, <3>4, <4>1, ConcatHas DEF Opens
    <3>6. CASE h # x
      <4>1. Opened(t, x)
        <5> SUFFICES ASSUME NEW i \in DOMAIN t, t[i] > InitReq
                     PROVE  \E j \in 1 .. i - 1 : t[j] = x
          BY DEF Opened
        <5>1. PICK l \in 1 .. (i + 1) - 1 : s[l] = x
          BY <1>3, <3>1 DEF Opened
        <5>2. l # 1 /\ l - 1 \in 1 .. i - 1 /\ l - 1 \in DOMAIN t /\ (l - 1) + 1 = l
          BY <1>1, <1>3, <3>6, <5>1
        <5> QED BY <1>3, <5>1, <5>2
      <4> QED BY <3>4, <4>1 DEF Opens
    <3> QED BY <3>5, <3>6
  <2> QED BY <2>1, <2>2
<1> QED BY <1>2, <1>4, <1>7, <1>8, <1>9, <1>10, <1>11

\* Writing lines that come later keeps the order.
LEMMA WriteKeeps ==
    ASSUME NEW g \in Seq(Traffic), NEW s \in Seq(Traffic), NEW t \in Seq(Traffic),
           NEW n \in Nat, Order(g, s, n), Rising(t), Before(g, t), Before(s, t), Below(t, n)
    PROVE  Order(g, s \o t, n)
BY ConcatRising, ConcatBefore, ConcatBelow DEF Order

\* Lines not later than n stay so when n grows.
LEMMA OrderGrows ==
    ASSUME NEW g \in Seq(Traffic), NEW s \in Seq(Traffic), NEW n \in Nat, Order(g, s, n)
    PROVE  Order(g, s, n + 1)
BY LineIsNat DEF Order, Below

\* Writing keeps requests behind the first x, when x is there before them.
LEMMA WriteOpens ==
    ASSUME NEW g \in Seq(Traffic), NEW s \in Seq(Traffic), NEW t \in Seq(Traffic), NEW x,
           Opens(g, s, x), Has(g, x) \/ Has(s, x) \/ Below(t, InitReq)
    PROVE  Opens(g, s \o t, x)
BY ConcatOpened DEF Opens

-----------------------------------------------------------------------------
(***************************************************************************)
(* Order                                                                   *)
(***************************************************************************)

\* The lines of the current server and of the buffer are in order; the line
\* of a suspended drain comes after them all; a server whose handshake is
\* under way has been sent nothing else.
LineInv ==
    /\ Order(inner.got, inner.stdin, read)
    /\ Rising(pending) /\ Below(pending, read)
    /\ reader = "drain" =>
          /\ Before(inner.got, <<read>>) /\ Before(inner.stdin, <<read>>)
          /\ Before(pending, <<read>>)
    /\ watcher = "replay" => Below(inner.got, InitReq) /\ Below(inner.stdin, InitReq)

\* The fields of the process as sequences of lines.
LEMMA InnerSeqs ==
    ASSUME TypeOK
    PROVE  /\ inner \in Inners /\ inner.got \in Seq(Traffic) /\ inner.stdin \in Seq(Traffic)
           /\ inner.stdout \in Seq(Msgs) /\ inner.stdout \in Seq(Traffic)
           /\ pending \in Seq(Msgs) /\ pending \in Seq(Traffic) /\ read \in Nat
BY MsgsAreTraffic, ReadIsMsg DEF TypeOK, Inners

\* Steps that touch none of those lines, or drop the buffer.
LEMMA LineKept ==
    ASSUME LineInv, inner'.got = inner.got, inner'.stdin = inner.stdin, read' = read,
           pending' = pending \/ pending' = <<>>, reader' = reader,
           watcher' = watcher \/ watcher' # "replay"
    PROVE  LineInv'
<1>1. CASE pending' = pending
  BY <1>1 DEF LineInv
<1>2. CASE pending' = <<>>
  BY <1>2, NoLine DEF LineInv
<1> QED BY <1>1, <1>2

\* What the end of a restart makes of a process.
LEMMA FlushFields ==
    ASSUME TypeOK, NEW proc \in Inners, Flush(proc)
    PROVE  /\ inner'.got = proc.got /\ inner'.alive = proc.alive
           /\ inner'.stdout = proc.stdout /\ inner'.replayed = proc.replayed
           /\ \/ inner'.stdin = proc.stdin \o pending
              \/ inner'.stdin = proc.stdin /\ (~proc.alive \/ pending = <<>>)
           /\ pending' = pending \/ pending' = <<>>
           /\ watcher' # "replay"
BY DEF Flush, Inners

\* Everything no later than initialize comes before any request.
LEMMA BelowBefore ==
    ASSUME NEW s \in Seq(Traffic), NEW t \in Seq(Traffic), Below(s, InitReq)
    PROVE  Before(s, t)
BY LineIsNat DEF Below, Before, InitReq

\* A flush comes after the handshake and nothing else.
LEMMA FlushKeepsLines ==
    ASSUME TypeOK, LineInv, NEW proc \in Inners, Flush(proc),
           reader = "read", reader' = reader, read' = read,
           Order(proc.got, proc.stdin, read),
           Below(proc.got, InitReq), Below(proc.stdin, InitReq)
    PROVE  LineInv'
<1>1. proc.got \in Seq(Traffic) /\ proc.stdin \in Seq(Traffic)
  BY DEF Inners
<1>2. pending \in Seq(Traffic) /\ read \in Nat
  BY InnerSeqs
<1>3. Order(proc.got, proc.stdin \o pending, read)
  BY <1>1, <1>2, BelowBefore, WriteKeeps DEF LineInv
<1>4. Order(inner'.got, inner'.stdin, read)
  BY <1>3, FlushFields
<1>5. Rising(pending') /\ Below(pending', read)
  <2>1. CASE pending' = pending
    BY <2>1 DEF LineInv
  <2>2. CASE pending' = <<>>
    BY <2>2, NoLine
  <2> QED BY <2>1, <2>2, FlushFields
<1> QED BY <1>4, <1>5, FlushFields DEF LineInv

\* A line the reader writes or buffers comes after all others.
LEMMA ReadKeepsLines ==
    ASSUME TypeOK, LineInv, StdinRead
    PROVE  LineInv'
<1>1. /\ read + 1 \in Msgs /\ read + 1 \in Traffic /\ read \in Nat /\ read' = read + 1
      /\ reader = "read" /\ watcher' = watcher
  BY ReadIsMsg, MsgsAreTraffic DEF StdinRead
<1>2. \A s \in Seq(Traffic) : Below(s, read) => Before(s, <<read + 1>>) /\ Below(s, read + 1)
  BY <1>1, OneLine, LineIsNat DEF Below
<1>3. <<read + 1>> \in Seq(Traffic) /\ Rising(<<read + 1>>) /\ Below(<<read + 1>>, read + 1)
  BY <1>1, OneLine
<1>4. Order(inner.got, inner.stdin, read + 1)
  BY <1>1, InnerSeqs, OrderGrows DEF LineInv
<1>5. /\ Before(inner.got, <<read + 1>>) /\ Before(inner.stdin, <<read + 1>>)
      /\ Before(pending, <<read + 1>>) /\ Below(pending, read + 1)
  BY <1>2, InnerSeqs DEF LineInv, Order
<1>6. CASE restarting
  <2>1. pending' = pending \o <<read + 1>> /\ inner' = inner /\ reader' = reader
    BY <1>1, <1>6, InnerSeqs, AppendIsConcat DEF StdinRead, Buffered
  <2>2. Rising(pending') /\ Below(pending', read + 1)
    BY <1>3, <1>5, <2>1, InnerSeqs, ConcatRising, ConcatBelow DEF LineInv
  <2> QED BY <1>1, <1>4, <2>1, <2>2 DEF LineInv
<1>7. CASE ~restarting
  <2>1. pending' = pending /\ watcher = "watch"
    BY <1>7 DEF StdinRead, TypeOK
  <2>2. CASE inner' = Written(<<read + 1>>) /\ reader' = reader
    <3>1. /\ inner'.got = inner.got
          /\ inner'.stdin = inner.stdin \/ inner'.stdin = inner.stdin \o <<read + 1>>
      BY <2>2, InnerSeqs DEF Written, Inners
    <3>2. Order(inner.got, inner.stdin \o <<read + 1>>, read + 1)
      <4>1. read + 1 \in Nat
        BY <1>1
      <4> QED BY <4>1, <1>3, <1>4, <1>5, InnerSeqs, WriteKeeps
    <3> QED BY <1>1, <1>4, <1>5, <2>1, <2>2, <3>1, <3>2 DEF LineInv
  <2>3. CASE inner' = inner
    BY <1>1, <1>4, <1>5, <2>1, <2>3 DEF LineInv
  <2> QED BY <1>7, <2>2, <2>3 DEF StdinRead
<1> QED BY <1>6, <1>7

\* The line of a suspended drain too.
LEMMA DrainKeepsLines ==
    ASSUME TypeOK, LineInv, StdinDrained
    PROVE  LineInv'
<1>1. /\ read \in Msgs /\ read \in Traffic /\ read \in Nat /\ read' = read /\ watcher' = watcher
      /\ reader = "drain" /\ reader' = "read" /\ watcher # "replay"
  BY ReadIsMsg, MsgsAreTraffic DEF StdinDrained, TypeOK
<1>2. <<read>> \in Seq(Traffic) /\ Rising(<<read>>) /\ Below(<<read>>, read)
  BY <1>1, OneLine
<1>3. CASE inner.alive
  <2>1. inner'.got = inner.got /\ inner'.stdin = inner.stdin \o <<read>> /\ pending' = pending
    BY <1>3, InnerSeqs DEF StdinDrained, Written, Inners
  <2>2. Order(inner.got, inner.stdin \o <<read>>, read)
    BY <1>1, <1>2, InnerSeqs, WriteKeeps DEF LineInv
  <2> QED BY <1>1, <2>1, <2>2 DEF LineInv
<1>4. CASE ~inner.alive
  <2>1. inner' = inner /\ pending' = pending \o <<read>>
    BY <1>1, <1>4, InnerSeqs, AppendIsConcat DEF StdinDrained, Buffered
  <2>2. Rising(pending') /\ Below(pending', read)
    BY <1>1, <1>2, <2>1, InnerSeqs, ConcatRising, ConcatBelow DEF LineInv
  <2> QED BY <1>1, <2>1, <2>2 DEF LineInv
<1> QED BY <1>3, <1>4

\* Every step keeps the lines in order.
LEMMA LineStep ==
    ASSUME TypeOK, LineInv, [Next]_vars
    PROVE  LineInv'
<1>1. CASE ClientSend \/ FileChange \/ WriterWakes \/ ForwardEof \/ Waited \/ SpawnFails \/ UNCHANGED vars
  BY <1>1, LineKept
  DEF ClientSend, FileChange, WriterWakes, ForwardEof, Waited, SpawnFails, vars, forward
<1>2. CASE InnerServe
  <2>1. /\ inner'.got = Append(inner.got, Head(inner.stdin)) /\ inner'.stdin = Tail(inner.stdin)
        /\ inner.stdin # <<>> /\ UNCHANGED <<read, pending, reader, watcher>>
    BY <1>2, InnerSeqs DEF InnerServe, Inners, forward
  <2>2. /\ Order(inner'.got, inner'.stdin, read)
        /\ watcher = "replay" => Below(inner'.got, InitReq) /\ Below(inner'.stdin, InitReq)
    BY <2>1, InnerSeqs, ServeKeeps DEF LineInv
  <2>3. reader = "drain" => Before(inner'.got, <<read>>) /\ Before(inner'.stdin, <<read>>)
    <3> SUFFICES ASSUME reader = "drain"
                 PROVE  Before(inner'.got, <<read>>) /\ Before(inner'.stdin, <<read>>)
      OBVIOUS
    <3>0. PICK h \in Traffic : h = Head(inner.stdin) /\ h = inner.stdin[1] /\ 1 \in DOMAIN inner.stdin
      BY <2>1, InnerSeqs, TailAt
    <3>1. Before(inner.got, <<read>>) /\ Before(inner.stdin, <<read>>)
      BY DEF LineInv
    <3>2. read \in Traffic
      BY ReadIsMsg, MsgsAreTraffic DEF TypeOK
    <3>3. \A i \in DOMAIN inner'.got : inner'.got[i] > InitReq /\ read > InitReq => inner'.got[i] < read
      <4>1. inner'.got = inner.got \o <<h>> /\ <<h>> \in Seq(Traffic) /\ DOMAIN <<h>> = {1} /\ <<h>>[1] = h
        <5>1. inner'.got = inner.got \o <<h>>
          BY <2>1, <3>0, InnerSeqs, AppendIsConcat
        <5>2. <<h>> \in Seq(Traffic)
          BY OneLine
        <5> QED BY <5>1, <5>2
      <4>2. \A i \in DOMAIN inner.got : inner.got[i] > InitReq /\ read > InitReq => inner.got[i] < read
        BY <3>1, <3>2, InnerSeqs, OneLine
      <4>3. h > InitReq /\ read > InitReq => h < read
        BY <3>0, <3>1, <3>2, InnerSeqs, OneLine
      <4> QED BY <4>1, <4>2, <4>3, InnerSeqs, ConcatPlace
    <3>4. \A i \in DOMAIN inner'.stdin : inner'.stdin[i] > InitReq /\ read > InitReq => inner'.stdin[i] < read
      BY <2>1, <3>1, <3>2, InnerSeqs, OneLine, TailAt
    <3>5. inner'.got \in Seq(Traffic) /\ inner'.stdin \in Seq(Traffic)
      BY <2>1, <3>0, InnerSeqs, TailAt, SeqTypes
    <3> QED BY <3>2, <3>3, <3>4, <3>5, OneLine
  <2> QED BY <2>1, <2>2, <2>3 DEF LineInv
<1>3. CASE InnerExit \/ ForwardLine \/ RestartBegins \/ FlushDrained
  <2>1. inner'.got = inner.got /\ inner'.stdin = inner.stdin
    BY <1>3, InnerSeqs DEF InnerExit, ForwardLine, RestartBegins, FlushDrained, Inners
  <2>2. pending' = pending \/ pending' = <<>>
    BY <1>3 DEF InnerExit, ForwardLine, RestartBegins, FlushDrained, forward
  <2>3. read' = read /\ reader' = reader /\ (watcher' = watcher \/ watcher' # "replay")
    BY <1>3 DEF InnerExit, ForwardLine, RestartBegins, FlushDrained, forward
  <2> QED BY <2>1, <2>2, <2>3, LineKept
<1>4. CASE StdinRead
  BY <1>4, ReadKeepsLines
<1>5. CASE StdinDrained
  BY <1>5, DrainKeepsLines
<1>6. CASE Spawn
  <2>1. reader = "read" /\ reader' = reader /\ read' = read /\ read \in Nat
    BY <1>6, InnerSeqs DEF Spawn, TypeOK
  <2>2. ASSUME NEW m \in {<<>>, <<InitReq>>}
        PROVE  m \in Seq(Traffic) /\ (m = <<>> \/ read > 0 => Order(<<>>, m, read)) /\ Below(m, InitReq)
    <3>1. CASE m = <<>>
      BY <3>1, NoLine DEF Order
    <3>2. CASE m = <<InitReq>>
      <4>1. InitReq \in Traffic /\ (read > 0 => InitReq <= read) /\ InitReq <= InitReq /\ m # <<>>
        BY <2>1, <3>2, MsgsAreTraffic DEF InitReq
      <4> QED BY <3>2, <4>1, NoLine, OneLine DEF Order
    <3> QED BY <3>1, <3>2
  <2>3. CASE Flush(Spawned(<<>>, FALSE))
    <3>1. /\ Spawned(<<>>, FALSE) \in Inners
          /\ Spawned(<<>>, FALSE).got = <<>> /\ Spawned(<<>>, FALSE).stdin = <<>>
      BY DEF Spawned, Inners, TypeOK
    <3> QED BY <2>1, <2>2, <2>3, <3>1, NoLine, FlushKeepsLines
  <2>4. CASE read > 0 /\ inner' = Spawned(<<InitReq>>, TRUE) /\ UNCHANGED pending
    <3>1. inner'.got = <<>> /\ inner'.stdin = <<InitReq>>
      BY <2>4 DEF Spawned
    <3> QED BY <2>1, <2>2, <2>4, <3>1, NoLine DEF LineInv
  <2> QED BY <1>6, <2>3, <2>4 DEF Spawn
<1>7. CASE ReplayAnswered
  <2>1. /\ reader = "read" /\ reader' = reader /\ read' = read /\ watcher = "replay"
        /\ Initialized \in Traffic
    BY <1>7, MsgsAreTraffic DEF ReplayAnswered, TypeOK
  <2> DEFINE stdin == IF inner.alive THEN Append(inner.stdin, Initialized) ELSE inner.stdin
             proc == [inner EXCEPT !.stdout = Tail(inner.stdout), !.stdin = stdin]
  <2>2. /\ stdin \in Seq(Traffic) /\ Below(stdin, InitReq)
        /\ Order(inner.got, stdin, read)
    <3>1. CASE ~inner.alive
      BY <2>1, <3>1, InnerSeqs DEF LineInv
    <3>2. CASE inner.alive
      <4>1. stdin = inner.stdin \o <<Initialized>> /\ <<Initialized>> \in Seq(Traffic)
        BY <2>1, <3>2, InnerSeqs, AppendIsConcat, OneLine
      <4>2. Rising(<<Initialized>>) /\ Below(<<Initialized>>, InitReq) /\ Below(<<Initialized>>, read)
        <5>1. Initialized <= InitReq /\ Initialized <= read
          BY InnerSeqs DEF Initialized, InitReq
        <5> QED BY <2>1, <5>1, OneLine
      <4> HIDE DEF stdin
      <4>3. Below(stdin, InitReq) /\ stdin \in Seq(Traffic)
        BY <2>1, <4>1, <4>2, InnerSeqs, ConcatBelow, ConcatAt DEF LineInv
      <4>4. Order(inner.got, stdin, read)
        BY <2>1, <4>1, <4>2, InnerSeqs, BelowBefore, WriteKeeps DEF LineInv
      <4> QED BY <4>3, <4>4
    <3> QED BY <3>1, <3>2
  <2>3. Flush(proc)
    BY <1>7 DEF ReplayAnswered
  <2> HIDE DEF stdin
  <2>4. proc \in Inners /\ proc.got = inner.got /\ proc.stdin = stdin
    <3>1. Tail(inner.stdout) \in Seq(Msgs)
      BY <1>7, InnerSeqs DEF ReplayAnswered
    <3> QED BY <2>2, <3>1, InnerSeqs DEF Inners
  <2> HIDE DEF proc
  <2> QED BY <2>1, <2>2, <2>3, <2>4, FlushKeepsLines DEF LineInv
<1>8. CASE ReplayFails
  <2>1. /\ reader = "read" /\ reader' = reader /\ read' = read /\ watcher = "replay"
        /\ Flush(inner)
    BY <1>8 DEF ReplayFails, TypeOK
  <2> QED BY <2>1, InnerSeqs, FlushKeepsLines DEF LineInv
<1> QED
  BY <1>1, <1>2, <1>3, <1>4, <1>5, <1>6, <1>7, <1>8
  DEF Next, Serving, Reading, Writing, Watching

\* OrderKept: whatever is buffered, re-sent, lost with a killed server or
\* suspended on a full pipe, an inner server reads the client's requests in
\* the order they were sent.
THEOREM OrderKeptAlways == Spec => []OrderKept
<1>1. Init => LineInv
  <2> SUFFICES ASSUME Init PROVE LineInv
    OBVIOUS
  <2>1. inner.got = <<>> /\ inner.stdin = <<>>
    BY DEF Init, Spawned
  <2> QED BY <2>1, NoLine DEF Init, LineInv, Order
<1>2. TypeOK /\ LineInv /\ [Next]_vars => LineInv'
  BY LineStep
<1>3. LineInv => OrderKept
  BY DEF LineInv, Order, Rising, OrderKept
<1> QED BY <1>1, <1>2, <1>3, ProxyTypeCorrect, PTL DEF Spec

-----------------------------------------------------------------------------
(***************************************************************************)
(* The handshake                                                           *)
(***************************************************************************)

\* x is among the lines the current server has read or will read.
InnerHas(x) == Has(inner.got, x) \/ Has(inner.stdin, x)

\* Requests stay behind initialize, and behind the notification of a replay
\* that was answered; a server that was not replayed to and has answered
\* initialize has read it; the client sends on only then.
HandInv ==
    /\ Opens(inner.got, inner.stdin, InitReq)
    /\ inner.replayed /\ ~faulted => Opens(inner.got, inner.stdin, Initialized)
    /\ inner.replayed => InnerHas(InitReq)
    /\ inner.replayed /\ ~faulted /\ watcher # "replay" => InnerHas(Initialized)
    /\ watcher = "replay" => inner.replayed /\ (~faulted => inner.alive)
    /\ ~inner.replayed /\ (answers[InitReq] > 0 \/ Has(inner.stdout, InitReq))
          => Has(inner.got, InitReq)
    /\ read = 0 => answers[InitReq] = 0 /\ ~Has(inner.stdout, InitReq)
    /\ sent > 1 => answers[InitReq] > 0

\* Steps that leave what the server reads and says alone.
LEMMA HandKept ==
    ASSUME HandInv,
           inner'.got = inner.got, inner'.stdin = inner.stdin, inner'.stdout = inner.stdout,
           inner'.replayed = inner.replayed,
           UNCHANGED answers, sent' > 1 => sent > 1 \/ answers[InitReq] > 0,
           read' = 0 => read = 0, faulted => faulted',
           watcher = "replay" => watcher' = "replay" \/ faulted',
           watcher' = "replay" => watcher = "replay" /\ (~faulted' => inner'.alive = inner.alive)
    PROVE  HandInv'
BY DEF HandInv, InnerHas

\* Steps that write lines to a server that has had what they need.
LEMMA HandWrites ==
    ASSUME TypeOK, HandInv, NEW t \in Seq(Traffic),
           inner'.got = inner.got, inner'.stdin = inner.stdin \o t,
           inner'.stdout = inner.stdout, inner'.replayed = inner.replayed,
           UNCHANGED <<sent, answers, faulted, watcher>>, watcher # "replay",
           read' = 0 => read = 0,
           ~inner.replayed => Has(inner.got, InitReq) \/ Below(t, InitReq)
    PROVE  HandInv'
<1>1. InnerHas(InitReq) \/ Below(t, InitReq)
  BY DEF HandInv, InnerHas
<1>2. Opens(inner.got, inner.stdin \o t, InitReq)
  BY <1>1, InnerSeqs, WriteOpens DEF HandInv, InnerHas
<1>3. inner.replayed /\ ~faulted => Opens(inner.got, inner.stdin \o t, Initialized)
  BY InnerSeqs, WriteOpens DEF HandInv, InnerHas
<1>4. \A x : InnerHas(x) => Has(inner.got, x) \/ Has(inner.stdin \o t, x)
  BY InnerSeqs, ConcatHas DEF InnerHas
<1> QED BY <1>2, <1>3, <1>4 DEF HandInv, InnerHas

\* The client's second message is written only to a server that was
\* replayed to or has read initialize from the client.
LEMMA SecondAfterFirst ==
    ASSUME TypeOK, HandInv, NEW m \in Msgs, m <= sent
    PROVE  ~inner.replayed => Has(inner.got, InitReq) \/ Below(<<m>>, InitReq)
<1>1. CASE m = InitReq
  <2>1. InitReq <= InitReq /\ InitReq \in Traffic
    BY MsgsAreTraffic DEF InitReq
  <2> QED BY <1>1, <2>1, OneLine
<1>2. CASE m # InitReq
  <2>1. sent > 1
    BY <1>2, ReadIsMsg, ProxyAssumption DEF Msgs, InitReq
  <2> QED BY <2>1 DEF HandInv
<1> QED BY <1>1, <1>2

\* The end of a restart: the buffer goes to a server whose handshake has
\* been made, or there is no buffer because nothing was read.
LEMMA FlushKeepsHand ==
    ASSUME TypeOK, NEW proc \in Inners, Flush(proc),
           UNCHANGED <<sent, answers, read>>, NEW f \in BOOLEAN, faulted' = f,
           Opens(proc.got, proc.stdin, InitReq),
           proc.replayed /\ ~f => Opens(proc.got, proc.stdin, Initialized),
           proc.replayed => Has(proc.got, InitReq) \/ Has(proc.stdin, InitReq),
           proc.replayed /\ ~f => Has(proc.got, Initialized) \/ Has(proc.stdin, Initialized),
           ~proc.replayed => read = 0 /\ Below(pending, InitReq),
           read = 0 => answers[InitReq] = 0 /\ ~Has(proc.stdout, InitReq),
           sent > 1 => answers[InitReq] > 0
    PROVE  HandInv'
<1>1. proc.got \in Seq(Traffic) /\ proc.stdin \in Seq(Traffic) /\ pending \in Seq(Traffic)
  BY InnerSeqs DEF Inners
<1>2. /\ inner'.got = proc.got /\ inner'.stdout = proc.stdout
      /\ inner'.replayed = proc.replayed /\ watcher' # "replay"
      /\ inner'.stdin = proc.stdin \o pending \/ inner'.stdin = proc.stdin
  BY FlushFields
<1>3. /\ Opens(proc.got, inner'.stdin, InitReq)
      /\ proc.replayed /\ ~f => Opens(proc.got, inner'.stdin, Initialized)
      /\ \A x : Has(proc.stdin, x) => Has(inner'.stdin, x)
  <2>1. CASE inner'.stdin = proc.stdin \o pending
    BY <1>1, <2>1, WriteOpens, ConcatHas
  <2>2. CASE inner'.stdin = proc.stdin
    BY <2>2
  <2> QED BY <1>2, <2>1, <2>2
<1>4. \A x : Has(proc.got, x) \/ Has(proc.stdin, x) => InnerHas(x)'
  BY <1>2, <1>3 DEF InnerHas
<1>5. ~proc.replayed => ~(answers[InitReq] > 0 \/ Has(proc.stdout, InitReq))
  OBVIOUS
<1> QED BY <1>2, <1>3, <1>4, <1>5 DEF HandInv

\* Every step keeps the handshake before the requests.
LEMMA HandStep ==
    ASSUME TypeOK, LineInv, HandInv, [Next]_vars
    PROVE  HandInv'
<1>1. CASE \/ ClientSend \/ FileChange \/ WriterWakes \/ ForwardEof \/ Waited \/ SpawnFails
           \/ InnerExit \/ RestartBegins \/ FlushDrained \/ UNCHANGED vars
  <2>1. /\ inner'.got = inner.got /\ inner'.stdin = inner.stdin /\ inner'.stdout = inner.stdout
        /\ inner'.replayed = inner.replayed
    BY <1>1, InnerSeqs
    DEF ClientSend, FileChange, WriterWakes, ForwardEof, Waited, SpawnFails, InnerExit,
        RestartBegins, FlushDrained, vars, Inners
  <2>2. UNCHANGED answers /\ (sent' > 1 => sent > 1 \/ answers[InitReq] > 0) /\ UNCHANGED read
    BY <1>1, ReadIsMsg
    DEF ClientSend, FileChange, WriterWakes, ForwardEof, Waited, SpawnFails, InnerExit,
        RestartBegins, FlushDrained, vars, client, forward
  <2>3. /\ faulted => faulted'
        /\ watcher = "replay" => watcher' = "replay" \/ faulted'
        /\ watcher' = "replay" => watcher = "replay" /\ (~faulted' => inner'.alive = inner.alive)
    BY <1>1
    DEF ClientSend, FileChange, WriterWakes, ForwardEof, Waited, SpawnFails, InnerExit,
        RestartBegins, FlushDrained, vars
  <2> QED BY <2>1, <2>2, <2>3, HandKept
<1>2. CASE InnerServe
  <2>1. PICK h \in Traffic : h = Head(inner.stdin) /\ h = inner.stdin[1] /\ 1 \in DOMAIN inner.stdin
    BY <1>2, InnerSeqs, TailAt DEF InnerServe
  <2>2. /\ inner'.got = Append(inner.got, Head(inner.stdin)) /\ inner'.stdin = Tail(inner.stdin)
        /\ inner.stdin # <<>> /\ inner'.replayed = inner.replayed /\ inner'.alive = inner.alive
        /\ UNCHANGED <<sent, answers, read, watcher, faulted>>
    BY <1>2, InnerSeqs DEF InnerServe, Inners, client, forward
  <2>3. \A x : Has(inner'.stdout, x) => Has(inner.stdout, x) \/ x = h
    <3>1. inner'.stdout = inner.stdout \/ (inner'.stdout = Append(inner.stdout, h) /\ h \in Msgs)
      BY <1>2, <2>1, InnerSeqs, ProxyAssumption
      DEF InnerServe, Inners, Traffic, Msgs, Initialized, InitReq
    <3>2. CASE inner'.stdout = Append(inner.stdout, h)
      BY <3>2, InnerSeqs DEF Has
    <3> QED BY <3>1, <3>2
  <2>4. \A x : Opens(inner.got, inner.stdin, x) => Opens(inner'.got, inner'.stdin, x)
    BY <2>2, InnerSeqs, ServeKeeps
  <2>5. \A x : Has(inner.got, x) => Has(inner'.got, x)
    BY <2>2, InnerSeqs, ServeKeeps
  <2>6. \A x : InnerHas(x) => InnerHas(x)'
    BY <2>2, <2>5, InnerSeqs, ServeKeeps DEF InnerHas
  <2>7. Has(inner'.got, h)
    <3>1. inner'.got = inner.got \o <<h>> /\ <<h>> \in Seq(Traffic)
      BY <2>1, <2>2, InnerSeqs, AppendIsConcat, OneLine
    <3>2. Has(<<h>>, h)
      BY DEF Has
    <3> QED BY <3>1, <3>2, InnerSeqs, ConcatHas
  <2>8. read = 0 => h # InitReq
    BY <2>1 DEF LineInv, Order, Below, InitReq
  <2> QED BY <2>2, <2>3, <2>4, <2>5, <2>6, <2>7, <2>8 DEF HandInv
<1>3. CASE StdinRead
  <2>1. /\ read + 1 \in Msgs /\ read' = read + 1 /\ read + 1 <= sent /\ read \in Nat
        /\ UNCHANGED <<sent, answers, faulted, watcher>>
    BY <1>3, ReadIsMsg DEF StdinRead, client
  <2>2. CASE inner' = inner
    BY <2>1, <2>2, HandKept
  <2>3. CASE inner' # inner
    <3>1. inner.alive /\ inner' = [inner EXCEPT !.stdin = inner.stdin \o <<read + 1>>] /\ watcher = "watch"
      BY <1>3, <2>3, InnerSeqs DEF StdinRead, Written, TypeOK, Inners
    <3>2. /\ inner'.got = inner.got /\ inner'.stdin = inner.stdin \o <<read + 1>>
          /\ inner'.stdout = inner.stdout /\ inner'.replayed = inner.replayed
      BY <3>1, InnerSeqs DEF Inners
    <3>3. <<read + 1>> \in Seq(Traffic)
      BY <2>1, SeqTypes
    <3>4. ~inner.replayed => Has(inner.got, InitReq) \/ Below(<<read + 1>>, InitReq)
      BY <2>1, SecondAfterFirst
    <3>5. watcher # "replay" /\ read' # 0
      BY <2>1, <3>1
    <3> QED BY <2>1, <3>2, <3>3, <3>4, <3>5, HandWrites
  <2> QED BY <2>2, <2>3
<1>4. CASE StdinDrained
  <2>1. /\ read \in Msgs /\ read' = read /\ read <= sent /\ watcher # "replay"
        /\ UNCHANGED <<sent, answers, faulted, watcher>>
    BY <1>4, ReadIsMsg DEF StdinDrained, TypeOK, client
  <2>2. CASE ~inner.alive
    BY <1>4, <2>1, <2>2, HandKept DEF StdinDrained
  <2>3. CASE inner.alive
    <3>1. /\ inner'.got = inner.got /\ inner'.stdin = inner.stdin \o <<read>>
          /\ inner'.stdout = inner.stdout /\ inner'.replayed = inner.replayed
      BY <1>4, <2>3, InnerSeqs DEF StdinDrained, Written, Inners
    <3>2. <<read>> \in Seq(Traffic)
      BY <2>1, SeqTypes
    <3>3. ~inner.replayed => Has(inner.got, InitReq) \/ Below(<<read>>, InitReq)
      BY <2>1, SecondAfterFirst
    <3> QED BY <2>1, <3>1, <3>2, <3>3, HandWrites
  <2> QED BY <2>2, <2>3
<1>5. CASE ForwardLine
  <2>1. /\ inner'.got = inner.got /\ inner'.stdin = inner.stdin /\ inner'.replayed = inner.replayed
        /\ inner'.stdout = Tail(inner.stdout) /\ inner'.alive = inner.alive /\ inner.stdout # <<>>
        /\ UNCHANGED <<sent, read, faulted, watcher>>
    BY <1>5, InnerSeqs DEF ForwardLine, Inners, forward
  <2>2. \A x : Has(inner'.stdout, x) => Has(inner.stdout, x)
    BY <2>1, InnerSeqs, TailAt DEF Has
  <2>3. /\ answers'[InitReq] > 0 => answers[InitReq] > 0 \/ Has(inner.stdout, InitReq)
        /\ answers[InitReq] > 0 => answers'[InitReq] > 0
        /\ answers[InitReq] = 0 /\ ~Has(inner.stdout, InitReq) => answers'[InitReq] = 0
    <3>1. answers' = [answers EXCEPT ![Head(inner.stdout)] = @ + 1]
      BY <1>5 DEF ForwardLine
    <3>2. Head(inner.stdout) \in Msgs /\ (Head(inner.stdout) = InitReq => Has(inner.stdout, InitReq))
      BY <2>1, InnerSeqs, TailAt DEF Has
    <3>3. answers \in [Msgs -> Nat] /\ InitReq \in Msgs
      BY MsgsAreTraffic DEF TypeOK
    <3> QED BY <3>1, <3>2, <3>3
  <2> QED BY <2>1, <2>2, <2>3 DEF HandInv, InnerHas
<1>6. CASE Spawn
  <2>1. UNCHANGED <<sent, answers, read, faulted>> /\ faulted \in BOOLEAN
    BY <1>6 DEF Spawn, client, TypeOK
  <2>2. CASE read = 0 /\ Flush(Spawned(<<>>, FALSE))
    <3>1. /\ Spawned(<<>>, FALSE) \in Inners
          /\ Spawned(<<>>, FALSE).got = <<>> /\ Spawned(<<>>, FALSE).stdin = <<>>
          /\ Spawned(<<>>, FALSE).stdout = <<>> /\ Spawned(<<>>, FALSE).replayed = FALSE
      BY DEF Spawned, Inners, TypeOK
    <3>2. Opens(<<>>, <<>>, InitReq)
      BY NoLine DEF Opens
    <3>3. Below(pending, InitReq)
      BY <2>2, InnerSeqs, LineIsNat DEF LineInv, Below, InitReq
    <3>4. answers[InitReq] = 0 /\ (sent > 1 => answers[InitReq] > 0)
      BY <2>2 DEF HandInv
    <3> QED BY <2>1, <2>2, <3>1, <3>2, <3>3, <3>4, NoLine, FlushKeepsHand
  <2>3. CASE read > 0 /\ inner' = Spawned(<<InitReq>>, TRUE) /\ watcher' = "replay"
    <3>1. /\ inner'.got = <<>> /\ inner'.stdin = <<InitReq>> /\ inner'.stdout = <<>>
          /\ inner'.replayed = TRUE /\ inner'.alive = TRUE
      BY <2>3 DEF Spawned
    <3>2. Has(<<InitReq>>, InitReq) /\ \A x : Opened(<<InitReq>>, x)
      BY DEF Has, Opened, InitReq
    <3>3. \A x : Opens(<<>>, <<InitReq>>, x)
      BY <3>2, NoLine DEF Opens
    <3>4. read' # 0 /\ (sent' > 1 => answers'[InitReq] > 0)
      BY <2>1, <2>3, InnerSeqs DEF HandInv
    <3> QED BY <2>3, <3>1, <3>2, <3>3, <3>4 DEF HandInv, InnerHas
  <2> QED BY <1>6, <2>2, <2>3 DEF Spawn
<1>7. CASE ReplayAnswered
  <2>1. /\ UNCHANGED <<sent, answers, read, faulted>> /\ faulted \in BOOLEAN
        /\ watcher = "replay" /\ inner.replayed /\ (~faulted => inner.alive)
        /\ Initialized \in Traffic /\ inner.stdout # <<>>
    BY <1>7, MsgsAreTraffic DEF ReplayAnswered, client, TypeOK, HandInv
  <2> DEFINE stdin == IF inner.alive THEN Append(inner.stdin, Initialized) ELSE inner.stdin
             proc == [inner EXCEPT !.stdout = Tail(inner.stdout), !.stdin = stdin]
  <2>2. /\ stdin \in Seq(Traffic)
        /\ Opens(inner.got, stdin, InitReq)
        /\ ~faulted => Opens(inner.got, stdin, Initialized) /\ Has(stdin, Initialized)
        /\ Has(inner.stdin, InitReq) => Has(stdin, InitReq)
    <3>1. CASE ~inner.alive
      BY <2>1, <3>1, InnerSeqs DEF HandInv
    <3>2. CASE inner.alive
      <4>1. stdin = inner.stdin \o <<Initialized>> /\ <<Initialized>> \in Seq(Traffic)
        BY <2>1, <3>2, InnerSeqs, AppendIsConcat, OneLine
      <4>2. Below(<<Initialized>>, InitReq) /\ Has(<<Initialized>>, Initialized)
        BY DEF Below, Has, Initialized, InitReq
      <4> HIDE DEF stdin
      <4>3. stdin \in Seq(Traffic) /\ \A x : Opens(inner.got, inner.stdin, x) => Opens(inner.got, stdin, x)
        BY <4>1, <4>2, InnerSeqs, ConcatAt, WriteOpens
      <4>4. Has(stdin, Initialized) /\ (Has(inner.stdin, InitReq) => Has(stdin, InitReq))
        BY <4>1, <4>2, InnerSeqs, ConcatHas
      <4> QED BY <2>1, <4>3, <4>4 DEF HandInv
    <3> QED BY <3>1, <3>2
  <2>3. Flush(proc)
    BY <1>7 DEF ReplayAnswered
  <2> HIDE DEF stdin
  <2>4. /\ proc \in Inners /\ proc.got = inner.got /\ proc.stdin = stdin
        /\ proc.replayed = inner.replayed /\ proc.stdout = Tail(inner.stdout)
    <3>1. Tail(inner.stdout) \in Seq(Msgs)
      BY <2>1, InnerSeqs
    <3> QED BY <2>2, <3>1, InnerSeqs DEF Inners
  <2> HIDE DEF proc
  <2>5. Has(proc.got, InitReq) \/ Has(proc.stdin, InitReq)
    BY <2>1, <2>2, <2>4 DEF HandInv, InnerHas
  <2>6. /\ read = 0 => answers[InitReq] = 0 /\ ~Has(proc.stdout, InitReq)
        /\ sent > 1 => answers[InitReq] > 0
    <3>1. Has(proc.stdout, InitReq) => Has(inner.stdout, InitReq)
      BY <2>1, <2>4, InnerSeqs, TailAt DEF Has
    <3> QED BY <3>1 DEF HandInv
  <2> QED BY <2>1, <2>2, <2>3, <2>4, <2>5, <2>6, FlushKeepsHand
<1>8. CASE ReplayFails
  <2>1. /\ UNCHANGED <<sent, answers, read>> /\ faulted' = TRUE /\ TRUE \in BOOLEAN
        /\ inner.replayed /\ Flush(inner)
    BY <1>8 DEF ReplayFails, client, HandInv
  <2>2. /\ Opens(inner.got, inner.stdin, InitReq)
        /\ Has(inner.got, InitReq) \/ Has(inner.stdin, InitReq)
        /\ read = 0 => answers[InitReq] = 0 /\ ~Has(inner.stdout, InitReq)
        /\ sent > 1 => answers[InitReq] > 0
    BY <2>1 DEF HandInv, InnerHas
  <2> QED BY <2>1, <2>2, InnerSeqs, FlushKeepsHand
<1> QED
  BY <1>1, <1>2, <1>3, <1>4, <1>5, <1>6, <1>7, <1>8
  DEF Next, Serving, Reading, Writing, Watching

\* HandshakeFirst: an inner server reads no request before initialize; and
\* none before the initialized notification when the proxy made the handshake
\* in its place and nothing failed.
THEOREM HandshakeFirstAlways == Spec => []HandshakeFirst
<1>1. Init => LineInv /\ HandInv
  <2> SUFFICES ASSUME Init PROVE LineInv /\ HandInv
    OBVIOUS
  <2>1. /\ inner.got = <<>> /\ inner.stdin = <<>> /\ inner.stdout = <<>>
        /\ inner.replayed = FALSE
    BY DEF Init, Spawned
  <2>2. LineInv
    BY <2>1, NoLine DEF Init, LineInv, Order
  <2>3. answers[InitReq] = 0
    BY MsgsAreTraffic DEF Init
  <2>4. watcher = "watch" /\ ~(sent > 1) /\ ~(answers[InitReq] > 0)
    BY <2>3 DEF Init
  <2>5. HandInv
    BY <2>1, <2>3, <2>4, NoLine DEF HandInv, Opens
  <2> QED BY <2>2, <2>5
<1>2. TypeOK /\ LineInv /\ HandInv /\ [Next]_vars => LineInv' /\ HandInv'
  BY LineStep, HandStep
<1>3. HandInv => HandshakeFirst
  BY DEF HandInv, Opens, Opened, HandshakeFirst
<1> QED BY <1>1, <1>2, <1>3, ProxyTypeCorrect, PTL DEF Spec

-----------------------------------------------------------------------------
(***************************************************************************)
(* One answer each                                                         *)
(***************************************************************************)

\* No client message is in s twice, or in both s and t.
Once(s) == \A i, j \in DOMAIN s : i < j /\ s[i] = s[j] => s[i] = Initialized
Apart(s, t) == \A m \in Msgs : ~(Has(s, m) /\ Has(t, m))

Unanswered(s) == \A m \in Msgs : Has(s, m) => answers[m] = 0

\* Until something fails: a message that is waiting to be written, read or
\* forwarded is there once and unanswered, but for the initialize request of
\* a replay, which is alone in the new server.
Single ==
    /\ \A m \in Msgs : answers[m] <= 1 /\ (m > read => answers[m] = 0)
    /\ Once(inner.stdin) /\ Once(inner.stdout) /\ Once(pending)
    /\ Apart(inner.stdin, inner.stdout)
    /\ Below(inner.stdout, read)
    /\ Unanswered(pending)
    /\ watcher # "replay" => Unanswered(inner.stdin) /\ Unanswered(inner.stdout)
    /\ watcher = "replay" =>
          \A m \in Msgs : Has(inner.stdin, m) \/ Has(inner.stdout, m) => m = InitReq
    /\ watcher \in {"watch", "wait"} =>
          Apart(pending, inner.stdin) /\ Apart(pending, inner.stdout)
    /\ watcher = "watch" => pending = <<>>
    /\ watcher \in {"watch", "replay", "drain"} => inner.alive
    /\ reader = "drain" =>
          /\ ~Has(inner.stdin, read) /\ ~Has(inner.stdout, read) /\ ~Has(pending, read)
          /\ answers[read] = 0

AnswerInv == faulted \/ Single

LEMMA HasConcat ==
    ASSUME NEW s \in Seq(Traffic), NEW t \in Seq(Traffic)
    PROVE  \A x : Has(s \o t, x) <=> Has(s, x) \/ Has(t, x)
<1>1. ASSUME NEW x, Has(s \o t, x) PROVE Has(s, x) \/ Has(t, x)
  BY <1>1, ConcatPlace DEF Has
<1> QED BY <1>1, ConcatHas

LEMMA HasTail ==
    ASSUME NEW s \in Seq(Traffic), s # <<>>
    PROVE  /\ Has(s, Head(s))
           /\ \A x : Has(Tail(s), x) => Has(s, x)
           /\ \A x : Has(s, x) => x = Head(s) \/ Has(Tail(s), x)
<1>1. Has(s, Head(s)) /\ \A x : Has(Tail(s), x) => Has(s, x)
  BY TailAt DEF Has
<1>2. ASSUME NEW x, Has(s, x), x # Head(s) PROVE Has(Tail(s), x)
  <2>1. PICK i \in DOMAIN s : s[i] = x
    BY <1>2 DEF Has
  <2>2. i - 1 \in DOMAIN Tail(s) /\ (i - 1) + 1 = i
    BY <1>2, <2>1, TailAt
  <2> QED BY <2>1, <2>2, TailAt DEF Has
<1> QED BY <1>1, <1>2

LEMMA HasOne == ASSUME NEW m PROVE Once(<<m>>) /\ \A x : Has(<<m>>, x) <=> x = m
BY DEF Has, Once

LEMMA OnceConcat ==
    ASSUME NEW s \in Seq(Traffic), NEW t \in Seq(Traffic), Once(s), Once(t), Apart(s, t)
    PROVE  Once(s \o t)
<1> SUFFICES ASSUME NEW i \in DOMAIN (s \o t), NEW j \in DOMAIN (s \o t), i < j,
                    (s \o t)[i] = (s \o t)[j], (s \o t)[i] # Initialized
             PROVE  FALSE
  BY DEF Once
<1>1. CASE i \in DOMAIN s /\ j \in DOMAIN s
  BY <1>1, ConcatAt DEF Once
<1>2. CASE i \in DOMAIN s /\ j \notin DOMAIN s
  <2>1. PICK m \in Traffic : m = (s \o t)[i] /\ m = s[i]
    BY <1>2, ConcatAt
  <2>2. m \in Msgs
    BY <2>1, ProxyAssumption DEF Traffic, Msgs, Initialized, InitReq
  <2>3. Has(s, m)
    BY <1>2, <2>1 DEF Has
  <2>4. PICK l \in DOMAIN t : (s \o t)[j] = t[l]
    BY <1>2, ConcatPlace
  <2>5. Has(t, m)
    BY <2>1, <2>4 DEF Has
  <2> QED BY <2>2, <2>3, <2>5 DEF Apart
<1>3. CASE i \notin DOMAIN s
  <2>1. PICK k \in DOMAIN t : i = Len(s) + k /\ (s \o t)[i] = t[k]
    BY <1>3, ConcatPlace
  <2>2. j \notin DOMAIN s
    BY <2>1, ConcatAt
  <2>3. PICK l \in DOMAIN t : j = Len(s) + l /\ (s \o t)[j] = t[l]
    BY <2>2, ConcatPlace
  <2>4. k < l
    BY <2>1, <2>3, ConcatAt
  <2> QED BY <2>1, <2>3, <2>4 DEF Once
<1> QED BY <1>1, <1>2, <1>3

LEMMA OnceTail ==
    ASSUME NEW s \in Seq(Traffic), s # <<>>, Once(s)
    PROVE  Once(Tail(s)) /\ \A m \in Msgs : Has(Tail(s), m) => m # Head(s)
<1>1. Once(Tail(s))
  BY TailAt DEF Once
<1>2. ASSUME NEW m \in Msgs, Has(Tail(s), m) PROVE m # Head(s)
  <2>1. PICK i \in DOMAIN Tail(s) : Tail(s)[i] = m
    BY <1>2 DEF Has
  <2>2. 1 < i + 1 /\ i + 1 \in DOMAIN s /\ s[i + 1] = m /\ 1 \in DOMAIN s /\ Head(s) = s[1]
    BY <2>1, TailAt
  <2>3. m # Initialized
    BY DEF Msgs, InitReq, Initialized
  <2> QED BY <2>2, <2>3 DEF Once
<1> QED BY <1>1, <1>2

\* Nothing later than n is in s.
LEMMA HasBelow ==
    ASSUME NEW s \in Seq(Traffic), NEW n \in Nat, Below(s, n)
    PROVE  ~Has(s, n + 1)
<1> SUFFICES ASSUME Has(s, n + 1) PROVE FALSE
  OBVIOUS
<1>1. PICK i \in DOMAIN s : s[i] = n + 1
  BY DEF Has
<1>2. s[i] <= n
  BY DEF Below
<1> QED BY <1>1, <1>2

\* A line that is in neither is written after them once.
LEMMA OnceAppend ==
    ASSUME NEW s \in Seq(Traffic), NEW m \in Traffic, Once(s), ~Has(s, m) \/ m = Initialized
    PROVE  /\ s \o <<m>> \in Seq(Traffic) /\ s \o <<m>> = Append(s, m)
           /\ Once(s \o <<m>>)
           /\ \A x : Has(s \o <<m>>, x) <=> Has(s, x) \/ x = m
<1>1. <<m>> \in Seq(Traffic) /\ s \o <<m>> = Append(s, m) /\ Append(s, m) \in Seq(Traffic)
  BY AppendIsConcat, OneLine
<1>2. Apart(s, <<m>>)
  BY HasOne DEF Apart, Msgs, Initialized, InitReq
<1>3. Once(s \o <<m>>)
  BY <1>1, <1>2, HasOne, OnceConcat
<1>4. \A x : Has(s \o <<m>>, x) <=> Has(s, x) \/ x = m
  BY <1>1, HasConcat, HasOne
<1> QED BY <1>1, <1>3, <1>4

\* Lines that move on inside the process.
LEMMA MoveKeepsSingle ==
    ASSUME TypeOK, Single, UNCHANGED <<answers, read, pending, reader, watcher>>,
           inner'.alive = inner.alive,
           \A m \in Msgs : Has(inner'.stdin, m) \/ Has(inner'.stdout, m) =>
               Has(inner.stdin, m) \/ Has(inner.stdout, m),
           Once(inner'.stdin), Once(inner'.stdout), Apart(inner'.stdin, inner'.stdout),
           Below(inner'.stdout, read)
    PROVE  Single'
<1>1. reader = "drain" => read \in Msgs
  BY ReadIsMsg DEF TypeOK
<1>2. reader = "drain" => ~Has(inner'.stdin, read) /\ ~Has(inner'.stdout, read)
  BY <1>1 DEF Single
<1>3. /\ watcher # "replay" =>
          \A m \in Msgs : Has(inner'.stdin, m) \/ Has(inner'.stdout, m) => answers[m] = 0
      /\ watcher = "replay" =>
          \A m \in Msgs : Has(inner'.stdin, m) \/ Has(inner'.stdout, m) => m = InitReq
  BY DEF Single, Unanswered
<1>4. watcher \in {"watch", "wait"} => Apart(pending, inner'.stdin) /\ Apart(pending, inner'.stdout)
  BY DEF Single, Apart
<1> QED BY <1>2, <1>3, <1>4 DEF Single, Unanswered

\* The end of a restart over a live process that holds no client message.
LEMMA FlushKeepsSingle ==
    ASSUME TypeOK, Single, UNCHANGED <<answers, read, reader>>, reader = "read",
           NEW proc \in Inners, Flush(proc), proc.alive,
           Once(proc.stdin), Once(proc.stdout),
           \A m \in Msgs : ~Has(proc.stdin, m) /\ ~Has(proc.stdout, m),
           Below(proc.stdout, read)
    PROVE  Single'
<1>1. proc.stdin \in Seq(Traffic) /\ pending \in Seq(Traffic)
  BY InnerSeqs DEF Inners
<1>2. /\ inner'.stdin = proc.stdin \o pending /\ inner'.stdout = proc.stdout /\ inner'.alive
      /\ \/ pending' = <<>> /\ watcher' = "watch"
         \/ pending' = pending /\ watcher' = "drain"
  BY DEF Flush, Inners
<1>3. Once(inner'.stdin)
  BY <1>1, <1>2, OnceConcat DEF Single, Apart
<1>4. \A m \in Msgs : (Has(inner'.stdin, m) => Has(pending, m)) /\ ~Has(inner'.stdout, m)
  BY <1>1, <1>2, HasConcat
<1>5. Once(<<>>) /\ \A m : ~Has(<<>>, m)
  BY DEF Once, Has
<1>6. Once(pending') /\ (\A m \in Msgs : Has(pending', m) => answers[m] = 0)
  BY <1>2, <1>5 DEF Single, Unanswered
<1>7. Once(inner'.stdout) /\ Below(inner'.stdout, read)
  BY <1>2
<1> QED
  BY <1>2, <1>3, <1>4, <1>5, <1>6, <1>7 DEF Single, Unanswered, Apart

LEMMA AnswerStep ==
    ASSUME TypeOK, LineInv, AnswerInv, [Next]_vars
    PROVE  AnswerInv'
<1> SUFFICES ASSUME Single, ~faulted' PROVE Single'
  <2>1. faulted => faulted'
    BY DEF Next, Serving, Reading, Writing, Watching, ClientSend, FileChange, InnerServe,
           InnerExit, StdinRead, StdinDrained, WriterWakes, ForwardLine, ForwardEof,
           RestartBegins, Waited, Spawn, SpawnFails, ReplayAnswered, ReplayFails,
           FlushDrained, vars
  <2> QED BY <2>1 DEF AnswerInv
<1>0. /\ inner.stdin \in Seq(Traffic) /\ inner.stdout \in Seq(Traffic) /\ pending \in Seq(Traffic)
      /\ inner \in Inners /\ read \in Nat /\ answers \in [Msgs -> Nat]
      /\ Msgs \subseteq Traffic
  BY InnerSeqs, MsgsAreTraffic DEF TypeOK
<1>1. CASE ClientSend \/ FileChange \/ WriterWakes \/ ForwardEof \/ Waited \/ UNCHANGED vars
  <2>1. UNCHANGED <<answers, inner, read, pending, reader>>
    BY <1>1 DEF ClientSend, FileChange, WriterWakes, ForwardEof, Waited, vars, client, forward
  <2>2. watcher' = watcher \/ (watcher = "wait" /\ watcher' = "spawn")
    <3>1. CASE Waited
      BY <3>1 DEF Waited
    <3>2. CASE ClientSend \/ FileChange \/ WriterWakes \/ ForwardEof \/ UNCHANGED vars
      BY <3>2 DEF ClientSend, FileChange, WriterWakes, ForwardEof, vars
    <3> QED BY <1>1, <3>1, <3>2
  <2>3. /\ \A m \in Msgs : answers'[m] <= 1 /\ (m > read' => answers'[m] = 0)
        /\ \A m \in Msgs : Has(pending', m) => answers'[m] = 0
        /\ watcher # "replay" =>
              \A m \in Msgs : Has(inner'.stdin, m) \/ Has(inner'.stdout, m) => answers'[m] = 0
        /\ reader' = "drain" => answers'[read'] = 0
    BY <2>1 DEF Single, Unanswered
  <2>4. /\ Once(inner'.stdin) /\ Once(inner'.stdout) /\ Once(pending')
        /\ Apart(inner'.stdin, inner'.stdout) /\ Below(inner'.stdout, read')
    BY <2>1 DEF Single
  <2>5. /\ watcher \in {"watch", "wait"} => Apart(pending', inner'.stdin) /\ Apart(pending', inner'.stdout)
        /\ reader' = "drain" =>
              ~Has(inner'.stdin, read') /\ ~Has(inner'.stdout, read') /\ ~Has(pending', read')
    BY <2>1 DEF Single
  <2> QED BY <2>1, <2>2, <2>3, <2>4, <2>5 DEF Single, Unanswered
<1>2. CASE InnerServe
  <2>1. PICK h \in Traffic : h = Head(inner.stdin) /\ inner.stdin # <<>>
    BY <1>0, <1>2 DEF InnerServe
  <2>2. /\ UNCHANGED <<answers, read, pending, reader, watcher>>
        /\ inner'.alive = inner.alive /\ inner'.stdin = Tail(inner.stdin)
        /\ inner'.stdout = IF h = Initialized THEN inner.stdout ELSE Append(inner.stdout, h)
    BY <1>0, <1>2, <2>1 DEF InnerServe, client, forward, Inners
  <2>3. /\ Has(inner.stdin, h) /\ Once(inner'.stdin)
        /\ \A m \in Msgs : Has(inner'.stdin, m) => Has(inner.stdin, m) /\ m # h
    BY <1>0, <2>1, <2>2, HasTail, OnceTail DEF Single
  <2>4. h # Initialized => h \in Msgs /\ ~Has(inner.stdout, h)
    BY <2>3, ProxyAssumption DEF Single, Apart, Traffic, Msgs, Initialized, InitReq
  <2>5. h <= read
    <3>1. Below(inner.stdin, read)
      BY DEF LineInv, Order
    <3> QED BY <2>3, <3>1 DEF Has, Below
  <2>6. /\ Once(inner'.stdout) /\ Below(inner'.stdout, read)
        /\ \A m \in Msgs : Has(inner'.stdout, m) => Has(inner.stdout, m) \/ m = h
    <3>1. CASE h = Initialized
      BY <2>2, <3>1 DEF Single
    <3>2. CASE h # Initialized
      <4>0. /\ inner.stdout \o <<h>> = Append(inner.stdout, h)
            /\ Once(inner.stdout \o <<h>>)
            /\ \A m : Has(inner.stdout \o <<h>>, m) <=> Has(inner.stdout, m) \/ m = h
        <5>1. Once(inner.stdout) /\ ~Has(inner.stdout, h)
          BY <2>4, <3>2 DEF Single
        <5> QED BY <1>0, <5>1, OnceAppend
      <4>1. /\ inner'.stdout = inner.stdout \o <<h>> /\ Once(inner'.stdout)
            /\ \A m : Has(inner'.stdout, m) <=> Has(inner.stdout, m) \/ m = h
        BY <2>2, <3>2, <4>0
      <4>2. <<h>> \in Seq(Traffic) /\ Below(<<h>>, read)
        BY <2>5, OneLine
      <4>3. Below(inner'.stdout, read)
        BY <1>0, <4>1, <4>2, ConcatBelow DEF Single
      <4> QED BY <4>1, <4>3
    <3> QED BY <3>1, <3>2
  <2>7. Apart(inner'.stdin, inner'.stdout)
    BY <2>3, <2>6 DEF Single, Apart
  <2> QED BY <2>2, <2>3, <2>6, <2>7, MoveKeepsSingle
<1>3. CASE StdinRead
  <2>1. PICK n \in Msgs : n = read + 1 /\ n \in Traffic
    BY <1>0, <1>3, ReadIsMsg DEF StdinRead
  <2>2. /\ ~Has(inner.stdin, n) /\ ~Has(inner.stdout, n) /\ ~Has(pending, n)
        /\ answers[n] = 0
    BY <1>0, <2>1, HasBelow DEF Single, LineInv, Order
  <2>3. /\ read' = n /\ UNCHANGED <<answers, watcher>> /\ reader = "read"
        /\ restarting <=> watcher # "watch"
    BY <1>3, <2>1 DEF StdinRead, client, TypeOK
  <2>4. \A m \in Msgs : m > read' => m > read
    BY <1>0, <2>1, <2>3 DEF Msgs, InitReq
  <2>5. Below(inner.stdout, read')
    <3>1. ASSUME NEW i \in DOMAIN inner.stdout PROVE inner.stdout[i] <= read'
      <4>1. inner.stdout[i] <= read
        BY DEF Single, Below
      <4>2. inner.stdout[i] \in Nat
        BY <1>0, LineIsNat
      <4> QED BY <1>0, <2>1, <2>3, <4>1, <4>2
    <3> QED BY <3>1 DEF Below
  <2>6. CASE restarting
    <3>1. pending' = pending \o <<n>> /\ UNCHANGED <<inner, reader>> /\ watcher # "watch"
      BY <1>0, <1>3, <2>1, <2>3, <2>6, AppendIsConcat DEF StdinRead, Buffered
    <3>2. Once(pending') /\ \A x : Has(pending', x) <=> Has(pending, x) \/ x = n
      BY <1>0, <2>1, <2>2, <3>1, OnceAppend DEF Single
    <3> QED
      BY <2>2, <2>3, <2>4, <2>5, <3>1, <3>2 DEF Single, Unanswered, Apart
  <2>7. CASE ~restarting
    <3>1. /\ inner.alive /\ watcher = "watch" /\ pending = <<>> /\ pending' = pending
      BY <1>3, <2>3, <2>7 DEF StdinRead, Single
    <3>2. \A x : ~Has(pending, x)
      BY <3>1 DEF Has
    <3>3. CASE inner' = Written(<<n>>) /\ UNCHANGED reader
      <4>1. /\ inner'.stdin = inner.stdin \o <<n>> /\ inner'.stdout = inner.stdout
            /\ inner'.alive = inner.alive
        BY <1>0, <3>1, <3>3 DEF Written, Inners
      <4>2. Once(inner'.stdin) /\ \A x : Has(inner'.stdin, x) <=> Has(inner.stdin, x) \/ x = n
        BY <1>0, <2>1, <2>2, <4>1, OnceAppend DEF Single
      <4> QED
        BY <2>2, <2>3, <2>4, <2>5, <3>1, <3>2, <3>3, <4>1, <4>2 DEF Single, Unanswered, Apart
    <3>4. CASE reader' = "drain" /\ UNCHANGED inner
      BY <2>2, <2>3, <2>4, <2>5, <3>1, <3>4 DEF Single, Unanswered
    <3> QED BY <1>3, <2>1, <2>7, <3>1, <3>3, <3>4 DEF StdinRead
  <2> QED BY <2>6, <2>7
<1>4. CASE StdinDrained
  <2>1. PICK n \in Msgs : n = read /\ n \in Traffic
    BY <1>0, <1>4, ReadIsMsg DEF StdinDrained, TypeOK
  <2>2. /\ ~Has(inner.stdin, n) /\ ~Has(inner.stdout, n) /\ ~Has(pending, n)
        /\ answers[n] = 0
    BY <1>4, <2>1 DEF Single, StdinDrained
  <2>3. /\ UNCHANGED <<answers, watcher, read>> /\ reader' = "read"
        /\ watcher \in {"watch", "wait"}
    BY <1>4 DEF StdinDrained, client, TypeOK
  <2>4. CASE inner.alive /\ inner' = Written(<<n>>) /\ UNCHANGED pending
    <3>1. /\ inner'.stdin = inner.stdin \o <<n>> /\ inner'.stdout = inner.stdout
          /\ inner'.alive = inner.alive
      BY <1>0, <2>4 DEF Written, Inners
    <3>2. Once(inner'.stdin) /\ \A x : Has(inner'.stdin, x) <=> Has(inner.stdin, x) \/ x = n
      BY <1>0, <2>1, <2>2, <3>1, OnceAppend DEF Single
    <3> QED
      BY <2>2, <2>3, <2>4, <3>1, <3>2 DEF Single, Unanswered, Apart
  <2>5. CASE ~inner.alive /\ pending' = Buffered(n) /\ UNCHANGED inner
    <3>1. pending' = pending \o <<n>> /\ watcher = "wait"
      BY <1>0, <2>1, <2>3, <2>5, AppendIsConcat DEF Buffered, Single
    <3>2. Once(pending') /\ \A x : Has(pending', x) <=> Has(pending, x) \/ x = n
      BY <1>0, <2>1, <2>2, <3>1, OnceAppend DEF Single
    <3> QED
      BY <2>2, <2>3, <2>5, <3>1, <3>2 DEF Single, Unanswered, Apart
  <2> QED BY <1>4, <2>1, <2>4, <2>5 DEF StdinDrained
<1>5. CASE ForwardLine
  <2>1. PICK h \in Msgs : h = Head(inner.stdout) /\ inner.stdout # <<>>
    BY <1>5, InnerSeqs DEF ForwardLine
  <2>2. /\ answers' = [answers EXCEPT ![h] = @ + 1]
        /\ inner'.stdin = inner.stdin /\ inner'.stdout = Tail(inner.stdout)
        /\ inner'.alive = inner.alive
        /\ UNCHANGED <<read, pending, reader, watcher>> /\ watcher \in {"watch", "wait"}
    BY <1>0, <1>5, <2>1 DEF ForwardLine, forward, Inners, TypeOK
  <2>3. /\ Has(inner.stdout, h) /\ Once(inner'.stdout)
        /\ \A m \in Msgs : Has(inner'.stdout, m) => Has(inner.stdout, m) /\ m # h
    BY <1>0, <2>1, <2>2, HasTail, OnceTail DEF Single
  <2>4. ~Has(inner.stdin, h) /\ ~Has(pending, h)
    BY <2>2, <2>3 DEF Single, Apart
  <2>5. answers[h] = 0 /\ h <= read
    BY <1>0, <2>2, <2>3 DEF Single, Unanswered, Has, Below
  <2>6. answers'[h] = 1 /\ \A m \in Msgs : m # h => answers'[m] = answers[m]
    BY <1>0, <2>2, <2>5
  <2>7. \A m \in Msgs : answers'[m] <= 1 /\ (m > read' => answers'[m] = 0)
    <3>1. ASSUME NEW m \in Msgs PROVE answers'[m] <= 1 /\ (m > read' => answers'[m] = 0)
      <4>1. CASE m = h
        BY <1>0, <2>2, <2>5, <2>6, <4>1 DEF Msgs, InitReq
      <4>2. CASE m # h
        BY <2>2, <2>6, <4>2 DEF Single
      <4> QED BY <4>1, <4>2
    <3> QED BY <3>1
  <2>8. Below(inner'.stdout, read')
    BY <1>0, <2>1, <2>2, TailAt DEF Single, Below
  <2>9. reader = "drain" => read \in Msgs
    BY ReadIsMsg DEF TypeOK
  <2>10. \A m \in Msgs : Has(inner'.stdin, m) \/ Has(inner'.stdout, m) \/ Has(pending', m)
                          => answers'[m] = 0
    BY <2>2, <2>3, <2>4, <2>6 DEF Single, Unanswered
  <2>11. /\ Apart(inner'.stdin, inner'.stdout)
         /\ Apart(pending', inner'.stdin) /\ Apart(pending', inner'.stdout)
    BY <2>2, <2>3 DEF Single, Apart
  <2>12. reader' = "drain" =>
            /\ ~Has(inner'.stdin, read') /\ ~Has(inner'.stdout, read') /\ ~Has(pending', read')
            /\ answers'[read'] = 0
    BY <2>2, <2>3, <2>6, <2>9 DEF Single
  <2> QED
    BY <2>2, <2>3, <2>7, <2>8, <2>10, <2>11, <2>12 DEF Single, Unanswered
<1>6. CASE RestartBegins
  <2>1. /\ inner'.stdin = inner.stdin /\ inner'.stdout = inner.stdout
        /\ UNCHANGED <<answers, read, pending, reader>>
        /\ watcher = "watch" /\ watcher' = "wait"
    BY <1>0, <1>6 DEF RestartBegins, client, forward, Inners
  <2> QED BY <2>1 DEF Single, Unanswered
<1>7. CASE Spawn
  <2>0. UNCHANGED <<answers, read, reader>> /\ reader = "read"
    BY <1>7 DEF Spawn, client, TypeOK
  <2>1. Once(<<>>) /\ Below(<<>>, read) /\ \A m : ~Has(<<>>, m)
    BY DEF Once, Below, Has
  <2>2. CASE Flush(Spawned(<<>>, FALSE))
    <3>1. /\ Spawned(<<>>, FALSE) \in Inners /\ Spawned(<<>>, FALSE).alive
          /\ Spawned(<<>>, FALSE).stdin = <<>> /\ Spawned(<<>>, FALSE).stdout = <<>>
      BY DEF Spawned, Inners, TypeOK
    <3> QED BY <2>0, <2>1, <2>2, <3>1, FlushKeepsSingle
  <2>3. CASE inner' = Spawned(<<InitReq>>, TRUE) /\ watcher' = "replay" /\ UNCHANGED pending
    <3>1. inner'.stdin = <<InitReq>> /\ inner'.stdout = <<>> /\ inner'.alive
      BY <2>3 DEF Spawned
    <3>2. /\ Once(inner'.stdin) /\ Once(inner'.stdout) /\ Below(inner'.stdout, read')
          /\ \A m : (Has(inner'.stdin, m) => m = InitReq) /\ ~Has(inner'.stdout, m)
      BY <2>0, <2>1, <3>1, HasOne
    <3>3. Once(pending') /\ (\A m \in Msgs : Has(pending', m) => answers'[m] = 0)
      BY <2>0, <2>3 DEF Single, Unanswered
    <3>4. \A m \in Msgs : answers'[m] <= 1 /\ (m > read' => answers'[m] = 0)
      BY <2>0 DEF Single
    <3> QED BY <2>0, <2>3, <3>1, <3>2, <3>3, <3>4 DEF Single, Unanswered, Apart
  <2> QED BY <1>7, <2>2, <2>3 DEF Spawn
<1>8. CASE ReplayAnswered
  <2>0. /\ UNCHANGED <<answers, read, reader>> /\ reader = "read" /\ watcher = "replay"
        /\ inner.alive /\ inner.stdout # <<>> /\ Initialized \in Traffic
    BY <1>8, MsgsAreTraffic DEF ReplayAnswered, client, TypeOK, Single
  <2>1. Head(inner.stdout) = InitReq /\ Has(inner.stdout, InitReq) /\ InitReq \in Msgs
    BY <2>0, InnerSeqs, MsgsAreTraffic, HasTail DEF Single
  <2>2. /\ \A m \in Msgs : ~Has(inner.stdin, m) /\ ~Has(Tail(inner.stdout), m)
        /\ Once(Tail(inner.stdout))
    BY <1>0, <2>0, <2>1, HasTail, OnceTail DEF Single, Apart
  <2>3. Below(Tail(inner.stdout), read) /\ Tail(inner.stdout) \in Seq(Msgs)
    BY <1>0, <2>0, TailAt, InnerSeqs DEF Single, Below
  <2>4. /\ Append(inner.stdin, Initialized) \in Seq(Traffic)
        /\ Once(Append(inner.stdin, Initialized))
        /\ \A m : Has(Append(inner.stdin, Initialized), m) <=> Has(inner.stdin, m) \/ m = Initialized
    <3>1. Once(inner.stdin)
      BY DEF Single
    <3>2. PICK z \in Traffic : z = Initialized
      BY <2>0
    <3>3. PICK p \in Seq(Traffic) : p = inner.stdin
      BY <1>0
    <3>4. /\ p \o <<z>> \in Seq(Traffic) /\ p \o <<z>> = Append(p, z) /\ Once(p \o <<z>>)
          /\ \A x : Has(p \o <<z>>, x) <=> Has(p, x) \/ x = z
      BY <3>1, <3>2, <3>3, OnceAppend
    <3> QED BY <3>2, <3>3, <3>4
  <2>5. \A m \in Msgs : ~Has(Append(inner.stdin, Initialized), m)
    BY <2>2, <2>4 DEF Msgs, Initialized, InitReq
  <2>6. PICK proc : /\ Flush(proc)
                    /\ proc = [inner EXCEPT !.stdout = Tail(inner.stdout),
                                            !.stdin = Append(inner.stdin, Initialized)]
    BY <1>8, <2>0 DEF ReplayAnswered
  <2>7. /\ proc \in Inners /\ proc.alive /\ proc.stdin = Append(inner.stdin, Initialized)
        /\ proc.stdout = Tail(inner.stdout)
    BY <1>0, <2>0, <2>3, <2>4, <2>6 DEF Inners
  <2> QED BY <2>0, <2>2, <2>3, <2>4, <2>5, <2>6, <2>7, FlushKeepsSingle
<1>9. CASE FlushDrained
  <2>1. /\ UNCHANGED <<answers, inner, read, reader>> /\ pending' = <<>> /\ watcher' = "watch"
        /\ inner.alive /\ watcher = "drain" /\ reader = "read"
    BY <1>9 DEF FlushDrained, client, Single, TypeOK
  <2>2. Once(<<>>) /\ \A m : ~Has(<<>>, m)
    BY DEF Once, Has
  <2> QED BY <2>1, <2>2 DEF Single, Unanswered, Apart
<1>10. CASE InnerExit \/ SpawnFails \/ ReplayFails
  BY <1>10 DEF InnerExit, SpawnFails, ReplayFails
<1> QED
  BY <1>1, <1>2, <1>3, <1>4, <1>5, <1>6, <1>7, <1>8, <1>9, <1>10
  DEF Next, Serving, Reading, Writing, Watching

\* AtMostOneAnswer: no number of restarts makes the proxy answer a message
\* twice, while every server it finds is in order; the line a killed server
\* had left and the answer to a replayed initialize included.
THEOREM AtMostOneAnswerAlways == Spec => []AtMostOneAnswer
<1>1. Init => LineInv /\ AnswerInv
  <2> SUFFICES ASSUME Init PROVE LineInv /\ AnswerInv
    OBVIOUS
  <2>1. /\ inner.got = <<>> /\ inner.stdin = <<>> /\ inner.stdout = <<>> /\ inner.alive
        /\ pending = <<>> /\ reader = "read" /\ watcher = "watch"
        /\ \A m \in Msgs : answers[m] = 0
    BY DEF Init, Spawned
  <2>2. LineInv
    BY <2>1, NoLine DEF Init, LineInv, Order
  <2>3. Once(<<>>) /\ Below(<<>>, read) /\ \A m : ~Has(<<>>, m)
    BY DEF Once, Below, Has
  <2>4. Single
    BY <2>1, <2>3 DEF Single, Unanswered, Apart
  <2> QED BY <2>2, <2>4 DEF AnswerInv
<1>2. TypeOK /\ LineInv /\ AnswerInv /\ [Next]_vars => LineInv' /\ AnswerInv'
  BY LineStep, AnswerStep
<1>3. AnswerInv => AtMostOneAnswer
  BY DEF AnswerInv, Single, AtMostOneAnswer
<1> QED BY <1>1, <1>2, <1>3, ProxyTypeCorrect, PTL DEF Spec

=============================================================================
