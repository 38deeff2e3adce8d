------------------------- MODULE RequestPathProofs -------------------------
(***************************************************************************)
(* The streams between the clients, the proxy and tiny (RequestPath) are   *)
(* read in order, for every script, every number of clients and every size *)
(* of the buffers.                                                         *)
(*                                                                         *)
(* That is a fact about Rio only as long as nobody calls rio_readlineb on  *)
(* a stream whose reader is still in a call, and nobody writes to an end   *)
(* that is closed.  Rio does not look; the two servers see to it, by the   *)
(* order in which they do things.  ControlInv says how: what they know of  *)
(* a stream from where they are.  A connection in a queue has not been     *)
(* read, and is in no queue twice; a stream of a client that has not       *)
(* connected, or between the proxy and tiny before the proxy has, is as    *)
(* it was at the start; only the server at work on a stream has a call on  *)
(* it; an end is closed by its owner, and only at the times named.         *)
(*                                                                         *)
(* The proof has three parts: what one step does to one stream (StreamStep,*)
(* with lemmas about the copying loop), that such a step is one that       *)
(* ByteStreams allows, and that every action of the servers and the        *)
(* clients makes such steps on all streams and keeps ControlInv.           *)
(*                                                                         *)
(* ControlInv is also what it takes to show who brings a server down: the  *)
(* second half, from FirstInv on.                                          *)
(***************************************************************************)
EXTENDS RequestPath, NatInduction, SequenceTheorems

\* What streams are made of: strings.  Those that the servers write are named,
\* because no prover knows that a string is in STRING.
Byte == STRING \cup {"cr", "lf", "501", "error", "html", "ok", "length", "b1", "b2", "b3", "sum"}

\* What is known of a call of Rio in progress: the buffer is empty, and what has
\* been copied is not complete.
Unfinished(s, got) ==
    /\ Len(got) < Full(s)
    /\ s \in LineStreams => \A p \in 1..Len(got) : got[p] # NewLine

RioCall == [buf : Seq(Byte), got : Seq(Byte), calling : BOOLEAN, rc : Int]
CallOK(s, r) == r \in RioCall /\ (r.calling => r.buf = <<>> /\ Unfinished(s, r.got))

RioInv ==
    /\ kernel \in [Streams -> Seq(Byte)]
    /\ peer \in [Streams -> Peer]
    /\ rio \in [Streams -> RioCall]
    /\ \A s \in Streams : CallOK(s, rio[s]) /\ (rio[s].rc = -1 => peer[s] # "open")

TinyType == [pc : {"accept", "requestline", "headers", "write", "wait", "down"},
             s : Requests \cup {NoStream}, out : Seq(Seq(Byte)),
             then : {"none", "close", "mmap", "wait"}, first : BOOLEAN]
ProxyAddress == [host : Seq(Byte), port : Seq(Byte)]
ProxyType == [pc : {"accept", "requestline", "write", "headers", "connect", "send", "relay", "down"},
              c : Proxied \cup {"none"}, out : Seq(Seq(Byte)),
              then : {"none", "close", "headers", "relay"}, first : BOOLEAN,
              text : DOMAIN RequestLines, request : Seq(Byte), at : ProxyAddress]

TypeInv ==
    /\ sent \in [Requests -> Seq(Byte)]
    /\ over \in [Requests -> {"no", "served", "dropped"}]
    /\ tiny \in TinyType
    /\ tinyQueue \in Seq(Requests)
    /\ proxy \in ProxyType
    /\ proxyQueue \in Seq(Requests)
    /\ asked \in [Proxied -> Seq(Byte)]
    /\ script \in [Clients -> [lines : Seq(Seq(Byte)), leaves : BOOLEAN]]
    /\ phase \in [Clients -> {"new", "sent", "left"}]

TinyUp == tiny.pc # "down"
ProxyUp == proxy.pc # "down"
TinyAt(s) == tiny.pc # "accept" /\ tiny.s = s
ProxyAt(c) == proxy.pc # "accept" /\ proxy.c = c

\* The connections that the servers get.
TinysRequests == {RequestOf(c) : c \in Direct} \cup {ForwardOf(c) : c \in Proxied}
ProxysRequests == {RequestOf(c) : c \in Proxied}

Untouched(s) == rio[s] = NoCall /\ kernel[s] = <<>> /\ peer[s] = "open"

\* Nothing has come over the stream of a client that has not connected.
NewInv ==
    \A c \in Clients : phase[c] = "new" =>
        /\ RequestOf(c) \notin ToSet(tinyQueue) /\ RequestOf(c) \notin ToSet(proxyQueue)
        /\ ~TinyAt(RequestOf(c)) /\ ~ProxyAt(c)
        /\ Untouched(RequestOf(c)) /\ over[RequestOf(c)] = "no"

\* The proxy is past its connect, for the client that it serves.
PastConnect(p) == p.pc \in {"send", "relay"} \/ (p.pc = "write" /\ p.then = "relay")
Connected(c) == proxy.c = c /\ PastConnect(proxy)

\* Nor over the two streams between the proxy and tiny, before the connect.
UnconnectedInv ==
    \A c \in Proxied : over[RequestOf(c)] = "no" /\ ~Connected(c) =>
        /\ ForwardOf(c) \notin ToSet(tinyQueue) /\ ~TinyAt(ForwardOf(c))
        /\ Untouched(ForwardOf(c)) /\ Untouched(ReplyOf(c)) /\ asked[c] = <<>>

\* No connection is in a queue twice, or still there when it is accepted.
Distinct(q) == \A i, j \in DOMAIN q : q[i] = q[j] => i = j

TinyQueueInv ==
    TinyUp =>
        /\ Distinct(tinyQueue) /\ ToSet(tinyQueue) \subseteq TinysRequests
        /\ \A s \in ToSet(tinyQueue) : ~TinyAt(s) /\ rio[s] = NoCall

ProxyQueueInv ==
    ProxyUp =>
        /\ Distinct(proxyQueue) /\ ToSet(proxyQueue) \subseteq ProxysRequests
        /\ \A c \in Proxied : RequestOf(c) \in ToSet(proxyQueue) =>
               ~ProxyAt(c) /\ rio[RequestOf(c)] = NoCall /\ over[RequestOf(c)] = "no"

\* The proxy, while it is up, has not closed the connection that it serves.
ServingInv ==
    /\ tiny.pc # "accept" => tiny.s \in TinysRequests
    /\ proxy.pc # "accept" => proxy.c \in Proxied
    /\ proxy.pc \notin {"accept", "down"} => over[Here] = "no"

\* A call is in progress only where a server waits for it.
CallingInv ==
    /\ \A c \in Proxied : rio[RequestOf(c)].calling =>
           proxy.pc \in {"requestline", "headers"} /\ proxy.c = c
    /\ \A c \in Proxied : rio[ReplyOf(c)].calling => proxy.pc = "relay" /\ proxy.c = c
    /\ \A s \in TinysRequests : rio[s].calling => tiny.pc \in {"requestline", "headers"} /\ tiny.s = s

\* Who closes which end: a client that leaves, the proxy when it goes down, and
\* tiny when it has served a connection or goes down.
PeerInv ==
    /\ \A c \in Clients : peer[RequestOf(c)] = "open" <=> phase[c] # "left"
    /\ ProxyUp => \A c \in Proxied : peer[ForwardOf(c)] = "open"
    /\ TinyUp => \A c \in Proxied :
         ForwardOf(c) \in ToSet(tinyQueue) \/ TinyAt(ForwardOf(c)) => peer[ReplyOf(c)] = "open"

\* Between connect and write tiny can only wait for the request.
SendInv ==
    proxy.pc = "send" =>
        LET s == ForwardOf(proxy.c) IN
        /\ asked[proxy.c] = <<>> /\ kernel[s] = <<>>
        /\ TinyUp => \/ s \in ToSet(tinyQueue)
                     \/ TinyAt(s) /\ tiny.pc = "requestline" /\ rio[s].calling /\ rio[s].got = <<>>

ControlInv ==
    /\ RioInv /\ TypeInv /\ NewInv /\ UnconnectedInv /\ TinyQueueInv /\ ProxyQueueInv
    /\ ServingInv /\ CallingInv /\ PeerInv /\ SendInv

-----------------------------------------------------------------------------
\* Streams of different clients, or of different kinds, are different.
LEMMA Names ==
    /\ \A c \in Clients : RequestOf(c) \in Requests /\ ReplyTo(RequestOf(c)) = NoStream
    /\ \A c \in Proxied : /\ ForwardOf(c) \in Requests /\ ReplyOf(c) \in Streams \ Requests
                          /\ ReplyTo(ForwardOf(c)) = ReplyOf(c)
    /\ \A c, d \in Clients : RequestOf(c) = RequestOf(d) => c = d
    /\ \A c, d \in Proxied : ForwardOf(c) = ForwardOf(d) => c = d
    /\ \A c, d \in Proxied : ReplyOf(c) = ReplyOf(d) => c = d
    /\ \A c \in Clients, d \in Proxied : RequestOf(c) # ForwardOf(d)
    /\ \A c \in Clients, d \in Proxied : RequestOf(c) # ReplyOf(d) /\ ForwardOf(d) # ReplyOf(c)
    /\ Requests \subseteq Streams /\ NoStream \notin Streams
    /\ Proxied \subseteq Clients /\ Direct \subseteq Clients /\ Proxied \cap Direct = {}
    /\ Clients = Proxied \cup Direct
    /\ \A c \in Clients : RequestOf(c)[1] = c
<1>1. /\ \A c, d : RequestOf(c) = RequestOf(d) => c = d
      /\ \A c, d : ForwardOf(c) = ForwardOf(d) => c = d
      /\ \A c, d : ReplyOf(c) = ReplyOf(d) => c = d
  BY DEF RequestOf, ForwardOf, ReplyOf
<1>2. \A c, d : RequestOf(c) # ForwardOf(d) /\ RequestOf(c) # ReplyOf(d) /\ ForwardOf(c) # ReplyOf(d)
  BY DEF RequestOf, ForwardOf, ReplyOf
<1>3. \A c : RequestOf(c) # NoStream /\ ForwardOf(c) # NoStream /\ ReplyOf(c) # NoStream
  BY DEF RequestOf, ForwardOf, ReplyOf, NoStream
<1>4. \A c : /\ RequestOf(c)[1] = c /\ RequestOf(c)[2] # "forward"
             /\ ForwardOf(c)[1] = c /\ ForwardOf(c)[2] = "forward"
  BY DEF RequestOf, ForwardOf
<1> HIDE DEF RequestOf, ForwardOf, ReplyOf, NoStream
<1>5. /\ Requests = {RequestOf(c) : c \in Clients} \cup {ForwardOf(c) : c \in Proxied}
      /\ Streams = Requests \cup {ReplyOf(c) : c \in Proxied}
      /\ \A s \in Requests : ReplyTo(s) = IF s[2] = "forward" THEN ReplyOf(s[1]) ELSE NoStream
      /\ Proxied \cap Direct = {}
  BY RequestPathAssumption
<1> QED
  BY <1>1, <1>2, <1>3, <1>4, <1>5 DEF Clients

\* The recursion of FlattenSeq up to the n-th sequence.
Flattens(q, n, f) == f = [k \in 1..n |-> IF k = 1 THEN q[k] ELSE f[k-1] \o q[k]]

\* What is flattened is put together sequence by sequence.
LEMMA FlattenUpTo ==
    ASSUME NEW S, NEW q \in Seq(Seq(S)), Len(q) # 0
    PROVE  \E f \in [1..Len(q) -> Seq(S)] :
             /\ f[1] = q[1]
             /\ \A k \in 1..Len(q)-1 : f[k+1] = f[k] \o q[k+1]
             /\ FlattenSeq(q) = f[Len(q)]
<1> DEFINE T == {n \in Nat : n <= Len(q) => \E f \in [1..n -> Seq(S)] : Flattens(q, n, f)}
           f0 == CHOOSE f : Flattens(q, Len(q), f)
<1>0. Len(q) \in Nat
  OBVIOUS
<1>1. FlattenSeq(q) = f0[Len(q)]
  BY DEF FlattenSeq, Flattens
<1>2. 0 \in T
  <2>1. Flattens(q, 0, [k \in 1..0 |-> <<>>]) /\ [k \in 1..0 |-> <<>>] \in [1..0 -> Seq(S)]
    BY DEF Flattens
  <2> QED
    BY <2>1
<1>3. \A n \in 0..Len(q)-1 : n \in T => n + 1 \in T
  <2> SUFFICES ASSUME NEW n \in 0..Len(q)-1, n \in T PROVE n + 1 \in T
    OBVIOUS
  <2>0. n \in Nat /\ n <= Len(q) /\ n + 1 \in Nat
    BY <1>0
  <2>1. PICK f \in [1..n -> Seq(S)] : Flattens(q, n, f)
    BY <2>0
  <2> DEFINE g == [k \in 1..n+1 |-> IF k <= n THEN f[k] ELSE IF k = 1 THEN q[k] ELSE f[k-1] \o q[k]]
  <2>2. \A k \in 1..n+1 : q[k] \in Seq(S)
    OBVIOUS
  <2>3. g \in [1..n+1 -> Seq(S)]
    <3> SUFFICES ASSUME NEW k \in 1..n+1 PROVE g[k] \in Seq(S)
      OBVIOUS
    <3>1. CASE k <= n
      BY <3>1, <2>0
    <3>2. CASE k = n + 1 /\ k = 1
      BY <3>2, <2>0, <2>2
    <3>3. CASE k = n + 1 /\ k # 1
      <4>1. f[k-1] \in Seq(S) /\ q[k] \in Seq(S)
        BY <3>3, <2>0, <2>2
      <4>4. ~(k <= n)
        BY <3>3, <2>0
      <4>2. g[k] = f[k-1] \o q[k]
        BY <3>3, <4>4, Zenon
      <4>3. f[k-1] \o q[k] \in Seq(S)
        <5> HIDE DEF g
        <5> QED
          BY <4>1, ConcatProperties
      <4> HIDE DEF g
      <4> QED
        BY <4>2, <4>3
    <3> QED
      BY <3>1, <3>2, <3>3, <2>0
  <2>4. \A k \in 1..n+1 : g[k] = IF k = 1 THEN q[k] ELSE g[k-1] \o q[k]
    <3> SUFFICES ASSUME NEW k \in 1..n+1 PROVE g[k] = IF k = 1 THEN q[k] ELSE g[k-1] \o q[k]
      OBVIOUS
    <3>1. CASE k <= n
      <4>1. k \in 1..n /\ g[k] = f[k]
        BY <3>1, <2>0
      <4>2. f[k] = IF k = 1 THEN q[k] ELSE f[k-1] \o q[k]
        BY <4>1, <2>1 DEF Flattens
      <4>3. k # 1 => g[k-1] = f[k-1]
        BY <3>1, <2>0
      <4> HIDE DEF g
      <4> QED
        BY <4>1, <4>2, <4>3
    <3>2. CASE k = n + 1
      <4>1. g[k] = IF k = 1 THEN q[k] ELSE f[k-1] \o q[k]
        BY <3>2, <2>0
      <4>2. k # 1 => g[k-1] = f[k-1]
        BY <3>2, <2>0
      <4> HIDE DEF g
      <4> QED
        BY <4>1, <4>2
    <3> QED
      BY <3>1, <3>2, <2>0
  <2>5. Flattens(q, n + 1, g)
    <3>1. g = [k \in 1..n+1 |-> g[k]]
      OBVIOUS
    <3>2. [k \in 1..n+1 |-> g[k]] = [k \in 1..n+1 |-> IF k = 1 THEN q[k] ELSE g[k-1] \o q[k]]
      BY <2>4, Zenon
    <3> HIDE DEF g
    <3> QED
      BY <3>1, <3>2 DEF Flattens
  <2> HIDE DEF g
  <2> QED
    BY <2>0, <2>3, <2>5
<1>4. Len(q) \in T
  <2> HIDE DEF T
  <2>1. 0..Len(q) \subseteq T
    BY <1>0, <1>2, <1>3, UpTo
  <2> QED
    BY <2>1, <1>0
<1>5. \E f : Flattens(q, Len(q), f)
  BY <1>0, <1>4
<1>6. Flattens(q, Len(q), f0)
  BY <1>5
<1> HIDE DEF f0, T
<1> DEFINE U == {n \in Nat : n \in 1..Len(q) => f0[n] \in Seq(S)}
<1>7. 0 \in U
  OBVIOUS
<1>8. \A n \in 0..Len(q)-1 : n \in U => n + 1 \in U
  <2> SUFFICES ASSUME NEW n \in 0..Len(q)-1, n \in U PROVE n + 1 \in U
    OBVIOUS
  <2>1. q[n+1] \in Seq(S) /\ n + 1 \in 1..Len(q) /\ n \in Nat /\ (n + 1) - 1 = n
    BY <1>0
  <2>2. f0[n+1] = IF n + 1 = 1 THEN q[n+1] ELSE f0[n] \o q[n+1]
    BY <1>6, <2>1 DEF Flattens
  <2>3. n # 0 => f0[n] \in Seq(S)
    BY <2>1, <1>0
  <2>8. n = 0 <=> n + 1 = 1
    BY <2>1
  <2>4. n = 0 => f0[n+1] = q[n+1]
    BY <2>8, <2>2, Zenon
  <2>5. n # 0 => f0[n+1] = f0[n] \o q[n+1]
    BY <2>8, <2>2, Zenon
  <2>7. n # 0 => f0[n] \o q[n+1] \in Seq(S)
    BY <2>1, <2>3, ConcatProperties
  <2>6. f0[n+1] \in Seq(S)
    BY <2>1, <2>4, <2>5, <2>7, Zenon
  <2> QED
    BY <2>1, <2>6
<1>9. \A n \in 1..Len(q) : f0[n] \in Seq(S)
  <2>1. 0..Len(q) \subseteq U
    <3> HIDE DEF U
    <3> QED
      BY <1>0, <1>7, <1>8, UpTo
  <2> SUFFICES ASSUME NEW n \in 1..Len(q) PROVE f0[n] \in Seq(S)
    OBVIOUS
  <2>2. n \in 0..Len(q) /\ n \in Nat
    BY <1>0
  <2>3. n \in U
    <3> HIDE DEF U
    <3> QED
      BY <2>1, <2>2
  <2> QED
    BY <2>3, Zenon
<1>10. f0 \in [1..Len(q) -> Seq(S)]
  BY <1>6, <1>9 DEF Flattens
<1>11. f0[1] = q[1]
  BY <1>0, <1>6 DEF Flattens
<1>12. \A k \in 1..Len(q)-1 : f0[k+1] = f0[k] \o q[k+1]
  <2> SUFFICES ASSUME NEW k \in 1..Len(q)-1 PROVE f0[k+1] = f0[k] \o q[k+1]
    OBVIOUS
  <2>1. k + 1 \in 1..Len(q) /\ k + 1 # 1 /\ (k + 1) - 1 = k
    BY <1>0
  <2> QED
    BY <2>1, <1>6 DEF Flattens
<1> HIDE DEF f0
<1>13. PICK f \in [1..Len(q) -> Seq(S)] : f = f0
  BY <1>10
<1>14. f[1] = q[1] /\ FlattenSeq(q) = f[Len(q)]
  BY <1>1, <1>11, <1>13, Zenon
<1>15. \A k \in 1..Len(q)-1 : f[k+1] = f[k] \o q[k+1]
  BY <1>12, <1>13, Zenon
<1> QED
  BY <1>14, <1>15, Zenon

\* It is a sequence of their elements.
LEMMA FlattenType ==
    ASSUME NEW S, NEW q \in Seq(Seq(S))
    PROVE  FlattenSeq(q) \in Seq(S)
<1>1. CASE Len(q) = 0
  <2>1. q = <<>>
    BY <1>1
  <2> QED
    BY <1>1, <2>1 DEF FlattenSeq
<1>2. CASE Len(q) # 0
  <2>1. PICK f \in [1..Len(q) -> Seq(S)] :
             /\ f[1] = q[1]
             /\ \A k \in 1..Len(q)-1 : f[k+1] = f[k] \o q[k+1]
             /\ FlattenSeq(q) = f[Len(q)]
    BY <1>2, FlattenUpTo, Zenon
  <2>2. Len(q) \in 1..Len(q)
    BY <1>2
  <2> QED
    BY <2>1, <2>2
<1> QED
  BY <1>1, <1>2

-----------------------------------------------------------------------------
\* Queues of connections.
LEMMA QueueAppended ==
    ASSUME NEW S, NEW q \in Seq(S), NEW x \in S, x \notin ToSet(q), Distinct(q)
    PROVE  Append(q, x) \in Seq(S) /\ Distinct(Append(q, x)) /\ ToSet(Append(q, x)) = ToSet(q) \cup {x}
<1>1. \A i \in DOMAIN q : q[i] \in ToSet(q)
  BY DEF ToSet
<1>2. Append(q, x) \in Seq(S) /\ DOMAIN Append(q, x) = 1..Len(q)+1 /\ DOMAIN q = 1..Len(q)
  OBVIOUS
<1>3. \A i \in 1..Len(q) : Append(q, x)[i] = q[i]
  OBVIOUS
<1>4. Append(q, x)[Len(q)+1] = x
  OBVIOUS
<1>5. Distinct(Append(q, x))
  BY <1>1, <1>2, <1>3, <1>4 DEF Distinct
<1>6. ToSet(Append(q, x)) \subseteq ToSet(q) \cup {x}
  BY <1>2, <1>3, <1>4 DEF ToSet
<1>7. \A i \in DOMAIN q : q[i] \in ToSet(Append(q, x))
  BY <1>2, <1>3 DEF ToSet
<1>8. x \in ToSet(Append(q, x))
  BY <1>2, <1>4 DEF ToSet
<1>9. ToSet(q) \subseteq ToSet(Append(q, x))
  BY <1>7 DEF ToSet
<1> QED
  BY <1>2, <1>5, <1>6, <1>8, <1>9

\* Without its first connection a queue has the others still, and that one no more.
LEMMA QueueTaken ==
    ASSUME NEW S, NEW q \in Seq(S), q # <<>>, Distinct(q)
    PROVE  /\ Tail(q) \in Seq(S) /\ Distinct(Tail(q))
           /\ Head(q) \in S /\ Head(q) \in ToSet(q)
           /\ ToSet(Tail(q)) = ToSet(q) \ {Head(q)}
<1>1. Tail(q) \in Seq(S) /\ DOMAIN Tail(q) = 1..Len(q)-1 /\ DOMAIN q = 1..Len(q) /\ Len(q) \in Nat \ {0}
  OBVIOUS
<1>2. \A i \in 1..Len(q)-1 : Tail(q)[i] = q[i+1]
  OBVIOUS
<1>3. Head(q) = q[1] /\ Head(q) \in S
  OBVIOUS
<1>4. Distinct(Tail(q))
  <2> SUFFICES ASSUME NEW i \in DOMAIN Tail(q), NEW j \in DOMAIN Tail(q), Tail(q)[i] = Tail(q)[j]
               PROVE  i = j
    BY DEF Distinct
  <2>1. i + 1 \in DOMAIN q /\ j + 1 \in DOMAIN q /\ q[i+1] = q[j+1]
    BY <1>1, <1>2
  <2>2. i + 1 = j + 1
    BY <2>1 DEF Distinct
  <2> QED
    BY <1>1, <2>2
<1>5. Head(q) \in ToSet(q)
  BY <1>1, <1>3 DEF ToSet
<1>6. ASSUME NEW i \in DOMAIN Tail(q) PROVE Tail(q)[i] \in ToSet(q) \ {Head(q)}
  <2>1. i + 1 \in DOMAIN q /\ Tail(q)[i] = q[i+1] /\ 1 \in DOMAIN q /\ i + 1 # 1
    BY <1>1, <1>2, <1>6
  <2>2. q[i+1] # q[1]
    BY <2>1 DEF Distinct
  <2> QED
    BY <2>1, <2>2, <1>3 DEF ToSet
<1>7. ASSUME NEW k \in DOMAIN q, q[k] # Head(q) PROVE q[k] \in ToSet(Tail(q))
  <2>1. k # 1
    BY <1>3, <1>7
  <2>2. k - 1 \in DOMAIN Tail(q) /\ Tail(q)[k-1] = q[(k-1)+1] /\ (k-1)+1 = k
    BY <2>1, <1>1, <1>2
  <2> QED
    BY <2>2 DEF ToSet
<1>8. ToSet(Tail(q)) \subseteq ToSet(q) \ {Head(q)}
  BY <1>6 DEF ToSet
<1>9. ToSet(q) \ {Head(q)} \subseteq ToSet(Tail(q))
  <2> SUFFICES ASSUME NEW x \in ToSet(q), x # Head(q) PROVE x \in ToSet(Tail(q))
    OBVIOUS
  <2>1. PICK k \in DOMAIN q : x = q[k]
    BY DEF ToSet
  <2> QED
    BY <2>1, <1>7
<1> QED
  BY <1>1, <1>3, <1>4, <1>5, <1>8, <1>9

-----------------------------------------------------------------------------
\* A call that has returned has a piece: the first bytes of the stream to the
\* first newline, or as many as the caller's buffer holds.
Piece(s, got) ==
    /\ got # <<>> /\ Len(got) <= Full(s) /\ Complete(s, got)
    /\ s \in LineStreams => \A p \in 1..Len(got)-1 : got[p] # NewLine

\* A buffer holds at least one byte.
LEMMA FullIs == \A s \in Streams : Full(s) \in Nat \ {0} /\ Full(s) <= MAXLINE
  BY RioAssumption DEF Full

\* A call that has copied nothing is not complete.
LEMMA EmptyUnfinished == \A s \in Streams : Unfinished(s, <<>>)
  BY FullIs DEF Unfinished

\* What is unfinished is not complete, and the other way round.
LEMMA UnfinishedIncomplete ==
    ASSUME NEW s \in Streams, NEW got \in Seq(Byte), Unfinished(s, got)
    PROVE  ~Complete(s, got)
<1>1. Len(got) \in Nat
  OBVIOUS
<1>2. got # <<>> => Len(got) \in 1..Len(got)
  OBVIOUS
<1> QED
  BY <1>1, <1>2, FullIs DEF Unfinished, Complete, Last

\* Why the copying loop stops when n bytes of buf have been copied behind got.
StopsAt(s, got, buf, n, done) ==
    /\ \A m \in 0..Len(buf) : m < n => ~Complete(s, got \o SubSeq(buf, 1, m))
    /\ Complete(s, got \o SubSeq(buf, 1, n)) <=> done
    /\ ~done => n = Len(buf)

\* The result of the loop.
CopyOf(got, buf, n, done, rc) ==
    [buf |-> SubSeq(buf, n + 1, Len(buf)), got |-> got \o SubSeq(buf, 1, n),
     calling |-> ~done, rc |-> IF done THEN Len(got \o SubSeq(buf, 1, n)) ELSE rc]

\* The loop stops somewhere, with that result.
CopyEnds(s, r, got, buf) ==
    \E n \in 0..Len(buf), done \in BOOLEAN :
      StopsAt(s, got, buf, n, done) /\ Copied(s, r) = CopyOf(got, buf, n, done, r.rc)

\* Copied stops at such an n.
LEMMA CopiedUntil ==
    ASSUME NEW s, NEW r, NEW got \in Seq(Byte), NEW buf \in Seq(Byte),
           r.got = got, r.buf = buf
    PROVE  CopyEnds(s, r, got, buf)
<1> DEFINE taken(n) == got \o SubSeq(buf, 1, n)
           enough == {n \in 0..Len(buf) : Complete(s, taken(n))}
           n0 == IF enough = {} THEN Len(buf) ELSE Min(enough)
           d0 == enough # {}
<1>1. Len(buf) \in Nat
  OBVIOUS
<1>2. Copied(s, r) = CopyOf(got, buf, n0, d0, r.rc)
  BY DEF Copied, CopyOf
<1>3. StopsAt(s, got, buf, n0, d0) /\ n0 \in 0..Len(buf)
  <2>1. CASE enough = {}
    <3>1. n0 = Len(buf) /\ Len(buf) \in 0..Len(buf)
      BY <2>1, <1>1
    <3>2. \A m \in 0..Len(buf) : ~Complete(s, taken(m))
      BY <2>1
    <3> QED
      BY <2>1, <3>1, <3>2, Zenon DEF StopsAt
  <2>2. CASE enough # {}
    <3>1. enough \in SUBSET Nat
      BY <1>1
    <3>2. \E m \in enough : \A k \in enough : m <= k
      BY <2>2, <3>1, LeastElement
    <3>3. Min(enough) \in enough /\ \A k \in enough : Min(enough) <= k
      BY <3>2 DEF Min
    <3>4. n0 \in enough /\ \A k \in enough : n0 <= k
      BY <2>2, <3>3
    <3>5. \A m \in 0..Len(buf) : m < n0 => ~Complete(s, taken(m))
      <4> HIDE DEF n0
      <4> QED
        BY <3>4, <1>1
    <3>6. n0 \in 0..Len(buf) /\ Complete(s, taken(n0))
      BY <3>4
    <3> HIDE DEF n0
    <3> QED
      BY <2>2, <3>5, <3>6, <1>1 DEF StopsAt
  <2> QED
    BY <2>1, <2>2
<1>4. d0 \in BOOLEAN
  OBVIOUS
<1> HIDE DEF n0, d0
<1> QED
  BY <1>2, <1>3, <1>4 DEF CopyEnds

\* Up to a place where nothing was complete before, the call is unfinished.
LEMMA UnfinishedUpTo ==
    ASSUME NEW s \in Streams, NEW got \in Seq(Byte), NEW buf \in Seq(Byte), Unfinished(s, got),
           NEW b \in 0..Len(buf), \A m \in 0..b : ~Complete(s, got \o SubSeq(buf, 1, m))
    PROVE  Unfinished(s, got \o SubSeq(buf, 1, b))
<1>1. Len(got) \in Nat /\ Len(buf) \in Nat /\ b \in Nat /\ b <= Len(buf)
  OBVIOUS
<1>2. \A m \in 0..b : Len(got \o SubSeq(buf, 1, m)) = Len(got) + m
  OBVIOUS
<1>3. Len(got) + b < Full(s)
  <2> SUFFICES ASSUME ~(Len(got) + b < Full(s)) PROVE FALSE
    OBVIOUS
  <2>1. Full(s) \in Nat /\ Len(got) < Full(s)
    BY FullIs DEF Unfinished
  <2>2. Full(s) - Len(got) \in 0..b /\ Len(got) + (Full(s) - Len(got)) = Full(s)
    BY <1>1, <2>1
  <2>3. Len(got \o SubSeq(buf, 1, Full(s) - Len(got))) = Full(s)
    BY <1>2, <2>2
  <2>4. Complete(s, got \o SubSeq(buf, 1, Full(s) - Len(got)))
    BY <2>3 DEF Complete
  <2> QED
    BY <2>2, <2>4
<1>4. ASSUME s \in LineStreams, NEW p \in 1..Len(got)+b PROVE (got \o SubSeq(buf, 1, b))[p] # NewLine
  <2>1. CASE p <= Len(got)
    <3>1. (got \o SubSeq(buf, 1, b))[p] = got[p] /\ p \in 1..Len(got)
      BY <2>1, <1>1
    <3> QED
      BY <3>1, <1>4 DEF Unfinished
  <2>2. CASE p > Len(got)
    <3>1. PICK m \in 1..b : p = Len(got) + m
      <4>1. p - Len(got) \in 1..b /\ p = Len(got) + (p - Len(got))
        BY <2>2, <1>1
      <4> QED
        BY <4>1
    <3>2. m \in 0..b /\ m \in 1..Len(buf)
      BY <3>1, <1>1
    <3>3. (got \o SubSeq(buf, 1, b))[p] = buf[m]
      BY <3>1, <3>2, <1>1
    <3>4. (got \o SubSeq(buf, 1, m))[p] = buf[m] /\ Len(got \o SubSeq(buf, 1, m)) = p
      BY <3>1, <3>2, <1>1, <1>2
    <3>5. got \o SubSeq(buf, 1, m) # <<>>
      BY <3>4, <3>1, <1>1
    <3>6. ~Complete(s, got \o SubSeq(buf, 1, m))
      BY <3>2
    <3> QED
      BY <3>3, <3>4, <3>5, <3>6, <1>4 DEF Complete, Last
  <2> QED
    BY <2>1, <2>2, <1>1
<1> QED
  BY <1>1, <1>2, <1>3, <1>4 DEF Unfinished

\* A prefix of buf behind got, and the rest of buf behind that.
TakesPart(S, got, buf, n) ==
    /\ got \o SubSeq(buf, 1, n) \in Seq(S) /\ SubSeq(buf, n + 1, Len(buf)) \in Seq(S)
    /\ Len(got \o SubSeq(buf, 1, n)) = Len(got) + n
    /\ (got \o SubSeq(buf, 1, n)) \o SubSeq(buf, n + 1, Len(buf)) = got \o buf
    /\ n = Len(buf) => /\ got \o SubSeq(buf, 1, n) = got \o buf
                       /\ SubSeq(buf, n + 1, Len(buf)) = <<>>
    /\ n = 0 => got \o SubSeq(buf, 1, n) = got

\* So it is for every sequence and every place in it.
LEMMA TakePart ==
    ASSUME NEW S, NEW got \in Seq(S), NEW buf \in Seq(S), NEW n \in 0..Len(buf)
    PROVE  TakesPart(S, got, buf, n)
<1>1. /\ SubSeq(buf, 1, n) \in Seq(S) /\ Len(SubSeq(buf, 1, n)) = n
      /\ SubSeq(buf, n + 1, Len(buf)) \in Seq(S)
  OBVIOUS
<1>2. SubSeq(buf, 1, n) \o SubSeq(buf, n + 1, Len(buf)) = buf
  <2>1. 1 \in 1..Len(buf)+1 /\ n \in 1-1..Len(buf) /\ Len(buf) \in n..Len(buf)
    OBVIOUS
  <2>2. SubSeq(buf, 1, n) \o SubSeq(buf, n + 1, Len(buf)) = SubSeq(buf, 1, Len(buf))
    BY <2>1, ConcatAdjacentSubSeq
  <2> QED
    BY <2>2, SubSeqFull
<1>3. (got \o SubSeq(buf, 1, n)) \o SubSeq(buf, n + 1, Len(buf)) = got \o buf
  <2>1. (got \o SubSeq(buf, 1, n)) \o SubSeq(buf, n + 1, Len(buf))
          = got \o (SubSeq(buf, 1, n) \o SubSeq(buf, n + 1, Len(buf)))
    <3>1. \A x, y \in Seq(S) : (got \o x) \o y = got \o (x \o y)
      BY ConcatAssociative
    <3> QED
      BY <1>1, <3>1, Zenon
  <2> QED
    BY <2>1, <1>2, Zenon
<1>4. n = Len(buf) => SubSeq(buf, 1, n) = buf /\ SubSeq(buf, n + 1, Len(buf)) = <<>>
  BY SubSeqFull
<1>5. n = 0 => SubSeq(buf, 1, n) = <<>>
  OBVIOUS
<1>6. n = 0 => got \o SubSeq(buf, 1, n) = got
  BY <1>5, ConcatEmptySeq
<1>7. got \o SubSeq(buf, 1, n) \in Seq(S) /\ Len(got \o SubSeq(buf, 1, n)) = Len(got) + n
  BY <1>1, ConcatProperties
<1> QED
  BY <1>1, <1>3, <1>4, <1>6, <1>7, Zenon DEF TakesPart

\* The copying loop of rio_readlineb and rio_readnb.
LEMMA CopiedIs ==
    ASSUME NEW s \in Streams, NEW r \in RioCall, Unfinished(s, r.got)
    PROVE  LET c == Copied(s, r) IN
           /\ CallOK(s, c)
           /\ c.got \o c.buf = r.got \o r.buf
           /\ c.calling => c.rc = r.rc /\ c.got = r.got \o r.buf
           /\ ~c.calling => Piece(s, c.got) /\ c.rc = Len(c.got)
           /\ Len(c.got) >= Len(r.got)
<1>1. PICK got \in Seq(Byte), buf \in Seq(Byte) : r.got = got /\ r.buf = buf
  BY DEF RioCall
<1>2. PICK n \in 0..Len(buf), done \in BOOLEAN :
        StopsAt(s, got, buf, n, done) /\ Copied(s, r) = CopyOf(got, buf, n, done, r.rc)
  <2>1. CopyEnds(s, r, got, buf)
    BY <1>1, CopiedUntil
  <2> QED
    BY <2>1 DEF CopyEnds
<1>20. TakesPart(Byte, got, buf, n)
  BY TakePart
<1> DEFINE c == Copied(s, r)
           part == got \o SubSeq(buf, 1, n)
           rest == SubSeq(buf, n + 1, Len(buf))
<1>3. c = [buf |-> rest, got |-> part, calling |-> ~done, rc |-> IF done THEN Len(part) ELSE r.rc]
  BY <1>2 DEF CopyOf
<1>4. /\ part \in Seq(Byte) /\ rest \in Seq(Byte) /\ Len(part) = Len(got) + n
      /\ part \o rest = got \o buf
      /\ n = Len(buf) => part = got \o buf /\ rest = <<>>
      /\ n = 0 => part = got
  BY <1>20, Zenon DEF TakesPart
<1>5. /\ \A m \in 0..Len(buf) : m < n => ~Complete(s, got \o SubSeq(buf, 1, m))
      /\ Complete(s, part) <=> done
      /\ ~done => n = Len(buf)
  BY <1>2 DEF StopsAt
<1>6. Len(got) \in Nat /\ Len(buf) \in Nat /\ Unfinished(s, got) /\ r.rc \in Int /\ Len(part) \in Nat
  BY <1>1, <1>4 DEF RioCall
<1>7. ~done => Unfinished(s, part)
  <2> SUFFICES ASSUME ~done PROVE Unfinished(s, part)
    OBVIOUS
  <2>1. \A m \in 0..n : ~Complete(s, got \o SubSeq(buf, 1, m))
    BY <1>5, <1>6
  <2> QED
    BY <2>1, <1>6, UnfinishedUpTo
<1>8. done => Piece(s, part)
  <2> SUFFICES ASSUME done PROVE Piece(s, part)
    OBVIOUS
  <2>1. Complete(s, part)
    BY <1>5
  <2>2. n # 0
    BY <2>1, <1>4, <1>6, UnfinishedIncomplete
  <2>3. PICK b \in 0..Len(buf) : b + 1 = n
    <3>1. n - 1 \in 0..Len(buf) /\ (n - 1) + 1 = n
      BY <2>2, <1>6
    <3> QED
      BY <3>1
  <2>4. \A m \in 0..b : ~Complete(s, got \o SubSeq(buf, 1, m))
    <3> HIDE DEF part, rest
    <3> QED
      BY <2>3, <1>5, <1>6
  <2>5. Unfinished(s, got \o SubSeq(buf, 1, b))
    BY <2>4, <1>6, UnfinishedUpTo
  <2>6. Len(got \o SubSeq(buf, 1, b)) = Len(got) + b
    <3>1. TakesPart(Byte, got, buf, b)
      BY TakePart
    <3> QED
      BY <3>1, Zenon DEF TakesPart
  <2>7. Len(part) <= Full(s) /\ part # <<>>
    <3> HIDE DEF part, rest
    <3>3. Len(got) + b < Full(s) /\ Full(s) \in Nat
      BY <2>5, <2>6, FullIs DEF Unfinished
    <3>4. Len(part) = Len(got) + n
      BY <1>4
    <3>1. Len(part) = Len(got) + b + 1 /\ Len(got) + b < Full(s) /\ Full(s) \in Nat
      BY <2>3, <3>3, <3>4, <1>6
    <3>2. Len(part) # 0
      BY <3>1, <1>6
    <3> QED
      BY <3>1, <3>2, <1>4, <1>6, EmptySeq
  <2>8. ASSUME s \in LineStreams, NEW p \in 1..Len(part)-1 PROVE part[p] # NewLine
    <3>1. p \in 1..Len(got)+b
      BY <2>3, <1>4, <1>6
    <3>2. (got \o SubSeq(buf, 1, b))[p] = part[p]
      <4>1. CASE p <= Len(got)
        BY <4>1, <3>1, <2>3, <1>6
      <4>2. CASE p > Len(got)
        BY <4>2, <3>1, <2>3, <1>6
      <4> QED
        BY <4>1, <4>2, <3>1, <1>6
    <3>3. (got \o SubSeq(buf, 1, b))[p] # NewLine
      BY <3>1, <2>5, <2>6, <2>8 DEF Unfinished
    <3> QED
      BY <3>2, <3>3
  <2> HIDE DEF part, rest
  <2> QED
    BY <2>1, <2>7, <2>8 DEF Piece
<1> HIDE DEF part, rest, c
<1>9. c.got = part /\ c.buf = rest /\ c.calling = ~done /\ c.rc = IF done THEN Len(part) ELSE r.rc
  BY <1>3
<1>10. c \in RioCall
  <2>1. (IF done THEN Len(part) ELSE r.rc) \in Int
    BY <1>6
  <2> QED
    BY <2>1, <1>3, <1>4 DEF RioCall
<1>11. CallOK(s, c)
  BY <1>10, <1>9, <1>7, <1>5, <1>4 DEF CallOK
<1>12. Len(c.got) >= Len(r.got)
  BY <1>9, <1>4, <1>6, <1>1
<1>13. c.calling => c.rc = r.rc /\ c.got = r.got \o r.buf
  BY <1>9, <1>4, <1>5, <1>1
<1>14. ~c.calling => Piece(s, c.got) /\ c.rc = Len(c.got)
  BY <1>9, <1>8
<1>15. c.got \o c.buf = r.got \o r.buf
  BY <1>9, <1>4, <1>1
<1> QED
  BY <1>11, <1>12, <1>13, <1>14, <1>15 DEF c
-----------------------------------------------------------------------------
\* Concatenation is associative, for the bytes of streams.
LEMMA Associative == \A x, y, z \in Seq(Byte) : (x \o y) \o z = x \o (y \o z)
  BY ConcatAssociative

\* The same for three sequences: instances of a law with quantifiers multiply.
Assoc(x, y, z) == (x \o y) \o z = x \o (y \o z)

\* Cited for three sequences, it gives one equation.
LEMMA AssocIs ==
    ASSUME NEW x \in Seq(Byte), NEW y \in Seq(Byte), NEW z \in Seq(Byte)
    PROVE  Assoc(x, y, z)
  BY ConcatAssociative DEF Assoc

\* The records of calls that begin, return and fail.
LEMMA Begun ==
    ASSUME NEW r \in RioCall
    PROVE  [r EXCEPT !.got = <<>>] \in RioCall
<1>1. \A bytes \in Seq(Byte) : [r EXCEPT !.got = bytes] \in RioCall
  BY DEF RioCall
<1>2. <<>> \in Seq(Byte)
  OBVIOUS
<1> QED
  BY <1>1, <1>2, Zenon

\* A call that returns.
LEMMA Returned ==
    ASSUME NEW r \in RioCall, NEW n \in Int
    PROVE  [r EXCEPT !.calling = FALSE, !.rc = n] \in RioCall
  BY DEF RioCall

\* A call that fails.
LEMMA Failed ==
    ASSUME NEW r \in RioCall
    PROVE  [r EXCEPT !.calling = FALSE, !.got = <<>>, !.rc = -1] \in RioCall
<1>1. \A bytes \in Seq(Byte), n \in Int : [r EXCEPT !.calling = FALSE, !.got = bytes, !.rc = n] \in RioCall
  BY DEF RioCall
<1>2. <<>> \in Seq(Byte) /\ -1 \in Int
  OBVIOUS
<1> QED
  BY <1>1, <1>2, Zenon

\* What a call finds on a stream, from its buffer: all of it, or a piece.
CallsOn(s, r, r2) ==
    /\ CallOK(s, r2)
    /\ r2.got \o r2.buf = r.buf
    /\ r2.calling => r2.rc = r.rc /\ r2.got = r.buf
    /\ ~r2.calling => Piece(s, r2.got) /\ r2.rc = Len(r2.got)

\* A call does what CallsOn says.
LEMMA CallIs ==
    ASSUME NEW s \in Streams, NEW r \in RioCall
    PROVE  CallsOn(s, r, Copied(s, [r EXCEPT !.got = <<>>]))
<1> DEFINE r1 == [r EXCEPT !.got = <<>>]
<1>1. r1 \in RioCall /\ r1.got = <<>> /\ r1.buf = r.buf /\ r1.rc = r.rc /\ r.buf \in Seq(Byte)
  <2>1. <<>> \in Seq(Byte)
    OBVIOUS
  <2>2. r1 \in RioCall
    BY <2>1, Begun
  <2> QED
    BY <2>2 DEF RioCall
<1> HIDE DEF r1
<1>2. Unfinished(s, r1.got)
  BY <1>1, EmptyUnfinished
<1> DEFINE c == Copied(s, r1)
<1>3. /\ CallOK(s, c)
      /\ c.got \o c.buf = r1.got \o r1.buf
      /\ c.calling => c.rc = r1.rc /\ c.got = r1.got \o r1.buf
      /\ ~c.calling => Piece(s, c.got) /\ c.rc = Len(c.got)
  BY <1>1, <1>2, CopiedIs
<1> HIDE DEF c
<1>4. r1.got \o r1.buf = r.buf
  BY <1>1, ConcatEmptySeq
<1>5. CallsOn(s, r, c)
  BY <1>1, <1>3, <1>4 DEF CallsOn
<1> QED
  BY <1>5 DEF r1, c

\* A call on an untouched stream has to wait.
LEMMA FirstCallWaits ==
    ASSUME NEW s \in Streams
    PROVE  LET c == Copied(s, [NoCall EXCEPT !.got = <<>>]) IN c.calling /\ c.got = <<>> /\ c.rc = 0
<1> DEFINE c == Copied(s, [NoCall EXCEPT !.got = <<>>])
<1>1. NoCall \in RioCall /\ NoCall.buf = <<>> /\ NoCall.rc = 0
  BY DEF NoCall, RioCall
<1>2. CallsOn(s, NoCall, c)
  BY <1>1, CallIs
<1> HIDE DEF c
<1>3. c.got \in Seq(Byte) /\ c.buf \in Seq(Byte) /\ c.calling \in BOOLEAN
  BY <1>2 DEF CallsOn, CallOK, RioCall
<1>4. c.got \o c.buf = <<>>
  BY <1>1, <1>2 DEF CallsOn
<1>5. c.got = <<>>
  BY <1>3, <1>4, ConcatEqualIffEmpty
<1>6. c.calling
  BY <1>2, <1>5, <1>3 DEF CallsOn, Piece
<1> QED
  BY <1>1, <1>2, <1>5, <1>6 DEF CallsOn, c

\* What a read() that brings bytes does for the call: nothing is lost, and the
\* call goes on or has its piece.
ReadsOn(s, r, k, r2, k2) ==
    /\ CallOK(s, r2) /\ k2 \in Seq(Byte)
    /\ (r2.got \o r2.buf) \o k2 = r.got \o k
    /\ r2.calling => r2.rc = r.rc
    /\ ~r2.calling => Piece(s, r2.got) /\ r2.rc = Len(r2.got)

\* ReadSome does what ReadsOn says.
LEMMA SomeRead ==
    ASSUME NEW s \in Streams, NEW r \in RioCall, CallOK(s, r), r.calling,
           NEW k \in Seq(Byte), NEW n \in 1..Len(k)
    PROVE  ReadsOn(s, r, k, Copied(s, [r EXCEPT !.buf = SubSeq(k, 1, n)]), SubSeq(k, n + 1, Len(k)))
<1>1. PICK a \in Seq(Byte), b \in Seq(Byte) : a = SubSeq(k, 1, n) /\ b = SubSeq(k, n + 1, Len(k))
  <2>1. SubSeq(k, 1, n) \in Seq(Byte) /\ SubSeq(k, n + 1, Len(k)) \in Seq(Byte)
    OBVIOUS
  <2> QED
    BY <2>1
<1>2. a \o b = k
  <2>1. 1 \in 1..Len(k)+1 /\ n \in 1-1..Len(k) /\ Len(k) \in n..Len(k)
    OBVIOUS
  <2>2. SubSeq(k, 1, n) \o SubSeq(k, n + 1, Len(k)) = SubSeq(k, 1, Len(k))
    BY <2>1, ConcatAdjacentSubSeq
  <2>3. SubSeq(k, 1, Len(k)) = k
    BY SubSeqFull
  <2> QED
    BY <1>1, <2>2, <2>3, Zenon
<1> DEFINE r1 == [r EXCEPT !.buf = a]
           c == Copied(s, r1)
<1>3. r1 \in RioCall /\ r1.got = r.got /\ r1.buf = a /\ r1.rc = r.rc /\ r.got \in Seq(Byte)
  BY DEF RioCall
<1>4. Unfinished(s, r1.got)
  BY <1>3 DEF CallOK
<1> HIDE DEF r1
<1>5. /\ CallOK(s, c)
      /\ c.got \o c.buf = r1.got \o r1.buf
      /\ c.calling => c.rc = r1.rc /\ c.got = r1.got \o r1.buf
      /\ ~c.calling => Piece(s, c.got) /\ c.rc = Len(c.got)
  BY <1>3, <1>4, CopiedIs
<1> HIDE DEF c
<1>6. (c.got \o c.buf) \o b = r.got \o k
  <2>2. (r.got \o a) \o b = r.got \o (a \o b)
    <3>1. Assoc(r.got, a, b)
      BY <1>3, AssocIs
    <3> QED
      BY <3>1, Zenon DEF Assoc
  <2>3. c.got \o c.buf = r.got \o a
    BY <1>3, <1>5, Zenon
  <2> QED
    BY <2>2, <2>3, <1>2, Zenon
<1>7. ReadsOn(s, r, k, c, b)
  BY <1>3, <1>5, <1>6 DEF ReadsOn
<1> QED
  BY <1>1, <1>7, Zenon DEF r1, c

-----------------------------------------------------------------------------
\* What a step does to a stream: nothing, or one of these.
Quiet(s) == kernel'[s] = kernel[s] /\ peer'[s] = peer[s] /\ rio'[s] = rio[s]

\* The other end is closed or reset, or found to be.
Closing(s) ==
    /\ peer[s] # "noticed" /\ peer'[s] \in Peer \ {"open"}
    /\ kernel'[s] = kernel[s] /\ rio'[s] = rio[s]

\* Bytes are written to it.
Growing(s) ==
    /\ peer[s] = "open" /\ \E bytes \in Seq(Byte) : kernel'[s] = kernel[s] \o bytes
    /\ peer'[s] = peer[s] /\ rio'[s] = rio[s]

\* A call of Rio begins.
Calling(s) ==
    /\ ~rio[s].calling /\ rio'[s] = Copied(s, [rio[s] EXCEPT !.got = <<>>])
    /\ kernel'[s] = kernel[s] /\ peer'[s] = peer[s]

\* A call goes on, after a read() of bytes, of the end, or of an error.
Reading(s) ==
    /\ rio[s].calling
    /\ \/ /\ ReadsOn(s, rio[s], kernel[s], rio'[s], kernel'[s])
          /\ kernel[s] # <<>> /\ peer'[s] = peer[s]
       \/ /\ kernel[s] = <<>> /\ peer[s] \notin {"open", "reset"}
          /\ rio'[s] = [rio[s] EXCEPT !.calling = FALSE, !.rc = Len(rio[s].got)]
          /\ kernel'[s] = kernel[s] /\ peer'[s] = peer[s]
       \/ /\ kernel[s] = <<>> /\ peer[s] = "reset"
          /\ rio'[s] = [rio[s] EXCEPT !.calling = FALSE, !.got = <<>>, !.rc = -1]
          /\ kernel'[s] = kernel[s] /\ peer'[s] = "noticed"

StreamStep(s) == Quiet(s) \/ Closing(s) \/ Growing(s) \/ Calling(s) \/ Reading(s)

\* All streams at once, as functions.
StreamsStep ==
    /\ kernel' = [s \in Streams |-> kernel'[s]]
    /\ peer' = [s \in Streams |-> peer'[s]]
    /\ rio' = [s \in Streams |-> rio'[s]]
    /\ \A s \in Streams : StreamStep(s)

\* A step on one stream; the others stay as they are.
LEMMA OneStream ==
    ASSUME RioInv, NEW s \in Streams,
           kernel' = [p \in Streams |-> kernel'[p]], peer' = [p \in Streams |-> peer'[p]],
           rio' = [p \in Streams |-> rio'[p]],
           StreamStep(s), \A p \in Streams \ {s} : Quiet(p)
    PROVE  StreamsStep
BY DEF StreamsStep, StreamStep

\* Whatever the step, the calls stay as they should be.
LEMMA RioKept ==
    ASSUME RioInv, StreamsStep
    PROVE  RioInv'
<1>1. ASSUME NEW s \in Streams
      PROVE  /\ kernel'[s] \in Seq(Byte) /\ peer'[s] \in Peer /\ CallOK(s, rio'[s])
             /\ rio'[s].rc = -1 => peer'[s] # "open"
  <2>0. /\ kernel[s] \in Seq(Byte) /\ peer[s] \in Peer /\ CallOK(s, rio[s]) /\ rio[s] \in RioCall
        /\ rio[s].rc = -1 => peer[s] # "open"
    BY DEF RioInv
  <2>1. CASE Quiet(s)
    BY <2>0, <2>1 DEF Quiet
  <2>2. CASE Closing(s)
    BY <2>0, <2>2 DEF Closing
  <2>3. CASE Growing(s)
    <3>1. PICK bytes \in Seq(Byte) : kernel'[s] = kernel[s] \o bytes
      BY <2>3 DEF Growing
    <3>2. kernel'[s] \in Seq(Byte)
      BY <3>1, <2>0, ConcatProperties
    <3> QED
      BY <2>0, <2>3, <3>2 DEF Growing
  <2>4. CASE Calling(s)
    <3>1. CallsOn(s, rio[s], rio'[s])
      BY <2>0, <2>4, CallIs DEF Calling
    <3>2. rio'[s].rc = -1 => rio[s].rc = -1
      <4>1. rio'[s].got \in Seq(Byte) /\ rio'[s].calling \in BOOLEAN
        BY <3>1 DEF CallsOn, CallOK, RioCall
      <4> QED
        BY <3>1, <4>1 DEF CallsOn
    <3> QED
      BY <2>0, <2>4, <3>1, <3>2 DEF Calling, CallsOn
  <2>5. CASE Reading(s)
    <3>1. CASE ReadsOn(s, rio[s], kernel[s], rio'[s], kernel'[s]) /\ peer'[s] = peer[s]
      <4>1. rio'[s].got \in Seq(Byte) /\ rio'[s].calling \in BOOLEAN
        BY <3>1 DEF ReadsOn, CallOK, RioCall
      <4>2. rio'[s].rc = -1 => rio[s].rc = -1
        BY <3>1, <4>1 DEF ReadsOn
      <4> QED
        BY <2>0, <3>1, <4>2 DEF ReadsOn
    <3>2. CASE /\ rio'[s] = [rio[s] EXCEPT !.calling = FALSE, !.rc = Len(rio[s].got)]
               /\ kernel'[s] = kernel[s] /\ peer'[s] = peer[s]
      <4>1. rio[s].got \in Seq(Byte) /\ Len(rio[s].got) \in Nat
        BY <2>0 DEF RioCall
      <4>3. rio'[s] \in RioCall
        <5>1. PICK r \in RioCall, n \in Int : r = rio[s] /\ n = Len(rio[s].got)
          BY <2>0, <4>1
        <5>2. [r EXCEPT !.calling = FALSE, !.rc = n] \in RioCall
          BY Returned
        <5> QED
          BY <3>2, <5>1, <5>2, Zenon
      <4>2. rio'[s].calling = FALSE /\ rio'[s].rc = Len(rio[s].got)
        BY <2>0, <3>2 DEF RioCall
      <4> QED
        BY <2>0, <3>2, <4>1, <4>2, <4>3 DEF CallOK
    <3>3. CASE /\ rio'[s] = [rio[s] EXCEPT !.calling = FALSE, !.got = <<>>, !.rc = -1]
               /\ kernel'[s] = kernel[s] /\ peer'[s] = "noticed"
      <4>2. rio'[s] \in RioCall
        BY <2>0, <3>3, Failed
      <4>3. rio'[s].calling = FALSE
        BY <2>0, <3>3 DEF RioCall
      <4> QED
        BY <2>0, <3>3, <4>2, <4>3 DEF CallOK, Peer
    <3> QED
      BY <2>5, <3>1, <3>2, <3>3 DEF Reading
  <2> QED
    BY <2>1, <2>2, <2>3, <2>4, <2>5 DEF StreamsStep, StreamStep
<1>2. kernel' \in [Streams -> Seq(Byte)]
  BY <1>1 DEF StreamsStep
<1>3. peer' \in [Streams -> Peer]
  BY <1>1 DEF StreamsStep
<1>4. rio' \in [Streams -> RioCall]
  BY <1>1 DEF StreamsStep, CallOK
<1> QED
  BY <1>1, <1>2, <1>3, <1>4 DEF RioInv
-----------------------------------------------------------------------------
\* The state of a stream as ByteStreams sees it.
View(unread, returned, calling, ended) ==
    [unread |-> unread, returned |-> returned, calling |-> calling, ended |-> ended]

\* That of a stream with the call r, the bytes k in the kernel and the other end p.
ViewOf(r, k, p) ==
    View((IF r.calling THEN r.got ELSE <<>>) \o r.buf \o k, IF r.calling THEN <<>> ELSE r.got,
         r.calling, p # "open")

\* Bytes that come behind others, and the end of the stream.
LEMMA Arrives ==
    ASSUME NEW s, NEW u \in Seq(Byte), NEW v \in Seq(Byte), NEW b \in Seq(Byte), v = u \o b,
           NEW x, NEW c, NEW e, NEW e2, ~e
    PROVE  Promise!Step(s, View(u, x, c, e), View(v, x, c, e2))
<1>1. Promise!IsPrefix(u, v)
  <2>1. Len(v) = Len(u) + Len(b) /\ \A i \in 1..Len(u) : v[i] = u[i]
    BY ConcatProperties
  <2>2. SubSeq(u, 1, Len(u)) = SubSeq(v, 1, Len(u))
    BY <2>1
  <2> QED
    BY <2>1, <2>2 DEF Promise!IsPrefix
<1>2. PICK old, new : old = View(u, x, c, e) /\ new = View(v, x, c, e2)
  OBVIOUS
<1>3. old.unread = u /\ old.ended = e /\ new.unread = v /\ new.ended = e2
  BY <1>2 DEF View
<1>4. PICK q : q = [old EXCEPT !.unread = new.unread, !.ended = new.ended]
  OBVIOUS
<1>5. q.unread = v /\ q.ended = e2 /\ q.returned = x /\ q.calling = c
  BY <1>2, <1>3, <1>4 DEF View
<1>6. DOMAIN q = {"unread", "returned", "calling", "ended"} /\ q = [i \in DOMAIN q |-> q[i]]
  BY <1>2, <1>4 DEF View
<1>7. q = new
  BY <1>2, <1>5, <1>6 DEF View
<1>9. ~old.ended /\ Promise!IsPrefix(old.unread, new.unread)
  BY <1>1, <1>3
<1>10. new = [old EXCEPT !.unread = new.unread, !.ended = new.ended]
  BY <1>4, <1>7, Zenon
<1>8. Promise!Arrive(old, new)
  BY <1>9, <1>10, Zenon DEF Promise!Arrive
<1> QED
  BY <1>2, <1>8, Zenon DEF Promise!Step

\* A call that returns the first n bytes.
LEMMA Returning ==
    ASSUME NEW u, NEW x, NEW c, NEW e, NEW v, NEW g, NEW n, NEW f, f = FALSE,
           g = SubSeq(u, 1, n), v = SubSeq(u, n + 1, Len(u))
    PROVE  Promise!Return(View(u, x, c, e), View(v, g, f, e), n)
<1>2. PICK old, new : old = View(u, x, c, e) /\ new = View(v, g, f, e)
  OBVIOUS
<1>3. old.unread = u
  BY <1>2 DEF View
<1>4. PICK q : q = [old EXCEPT !.calling = f, !.returned = g, !.unread = v]
  OBVIOUS
<1>5. q.unread = v /\ q.ended = e /\ q.returned = g /\ q.calling = f
  BY <1>2, <1>4 DEF View
<1>6. DOMAIN q = {"unread", "returned", "calling", "ended"} /\ q = [i \in DOMAIN q |-> q[i]]
  BY <1>2, <1>4 DEF View
<1>7. q = new
  BY <1>2, <1>5, <1>6 DEF View
<1>8. Promise!Return(old, new, n)
  BY <1>3, <1>4, <1>7, Zenon DEF Promise!Return
<1> QED
  BY <1>2, <1>8, Zenon

\* The unread bytes split where a call has returned.
LEMMA SplitAt ==
    ASSUME NEW a \in Seq(Byte), NEW b \in Seq(Byte), NEW u, u = a \o b
    PROVE  SubSeq(u, 1, Len(a)) = a /\ SubSeq(u, Len(a) + 1, Len(u)) = b
<1>0. u \in Seq(Byte)
  BY ConcatProperties
<1>1. Len(u) = Len(a) + Len(b) /\ Len(a) \in Nat /\ Len(b) \in Nat
  OBVIOUS
<1>2. SubSeq(u, 1, Len(a)) = a
  OBVIOUS
<1>3. PICK c \in Seq(Byte) : c = SubSeq(u, Len(a) + 1, Len(u))
  <2>1. SubSeq(u, Len(a) + 1, Len(u)) \in Seq(Byte)
    BY <1>0, <1>1
  <2> QED
    BY <2>1
<1>4. Len(c) = Len(b)
  BY <1>0, <1>1, <1>3
<1>5. \A i \in 1..Len(b) : c[i] = b[i]
  BY <1>0, <1>1, <1>3
<1>6. c = b
  BY <1>4, <1>5, SeqEqual
<1> QED
  BY <1>2, <1>3, <1>6

\* A piece is returned.
LEMMA ReturnsPiece ==
    ASSUME NEW s \in Streams, NEW got \in Seq(Byte), NEW rest \in Seq(Byte), Piece(s, got),
           NEW u, u = got \o rest, NEW x, NEW c, NEW e, NEW f, f = FALSE
    PROVE  Promise!Step(s, View(u, x, c, e), View(rest, got, f, e))
<1>0. PICK old, new, n : old = View(u, x, c, e) /\ new = View(rest, got, f, e) /\ n = Len(got)
  OBVIOUS
<1>1. old.unread = u /\ new.unread = rest /\ new.returned = got /\ old.ended = e
  BY <1>0 DEF View
<1>2. SubSeq(u, 1, n) = got /\ SubSeq(u, n + 1, Len(u)) = rest
  BY <1>0, SplitAt
<1>3. Promise!Return(old, new, n)
  BY <1>0, <1>2, Returning
<1>4. n \in Nat \ {0} /\ n <= Full(s)
  BY <1>0, EmptySeq DEF Piece
<1>5. CASE s \in LineStreams
  <2>1. Full(s) = MAXLINE - 1 /\ MAXLINE \in Nat \ {0, 1}
    BY <1>5, RioAssumption DEF Full
  <2>2. n < MAXLINE /\ (n = MAXLINE - 1 \/ got[n] = NewLine)
    BY <2>1, <1>0, <1>4 DEF Piece, Complete, Last
  <2>3. \A p \in 1..n-1 : got[p] # NewLine
    BY <1>0, <1>5 DEF Piece
  <2>4. Promise!ReturnLine(old, new)
    BY <1>0, <1>1, <1>3, <1>4, <2>2, <2>3 DEF Promise!ReturnLine
  <2> QED
    BY <1>0, <2>4, <1>5, Zenon DEF Promise!Step
<1>6. CASE s \notin LineStreams
  <2>1. n = MAXLINE
    BY <1>0, <1>6 DEF Full, Piece, Complete
  <2>2. Promise!ReturnBlock(old, new)
    BY <1>0, <1>1, <1>3, <2>1 DEF Promise!ReturnBlock
  <2> QED
    BY <1>0, <2>2, <1>6, Zenon DEF Promise!Step
<1> QED
  BY <1>5, <1>6

\* At the end of the stream a call returns what it has.
LEMMA ReturnsEnd ==
    ASSUME NEW s \in Streams, NEW got \in Seq(Byte), Unfinished(s, got), NEW x, NEW c, NEW e, e = TRUE,
           NEW none, none = <<>>, NEW f, f = FALSE
    PROVE  Promise!Step(s, View(got, x, c, e), View(none, got, f, e))
<1>0. PICK old, new, n : old = View(got, x, c, e) /\ new = View(none, got, f, e) /\ n = Len(got)
  OBVIOUS
<1>1. old.unread = got /\ new.unread = <<>> /\ new.returned = got /\ old.ended = TRUE
  BY <1>0 DEF View
<1>7. old.ended /\ new.unread = <<>>
  BY <1>1
<1>2. SubSeq(got, 1, n) = got /\ SubSeq(got, n + 1, Len(got)) = none
  BY <1>0
<1>3. Promise!Return(old, new, n)
  BY <1>0, <1>2, Returning
<1>4. n \in Nat /\ n < Full(s) /\ Full(s) \in Nat /\ Full(s) <= MAXLINE /\ MAXLINE \in Nat
  BY <1>0, FullIs, RioAssumption DEF Unfinished
<1>5. CASE s \in LineStreams
  <2>1. \A p \in 1..n-1 : got[p] # NewLine
    BY <1>0, <1>5, <1>4 DEF Unfinished
  <2>4. n < MAXLINE
    BY <1>4
  <2>3. Len(new.returned) = n /\ new.returned = got /\ n < MAXLINE
    BY <2>4, <1>0, <1>1, Zenon
  <2>2. Promise!ReturnLine(old, new)
    BY <1>3, <1>7, <2>1, <2>3, Zenon DEF Promise!ReturnLine
  <2> QED
    BY <1>0, <2>2, <1>5, Zenon DEF Promise!Step
<1>6. CASE s \notin LineStreams
  <2>4. n < MAXLINE
    BY <1>4
  <2>3. Len(new.returned) = n /\ n < MAXLINE
    BY <2>4, <1>0, <1>1, Zenon
  <2>1. Promise!ReturnBlock(old, new)
    BY <1>3, <1>7, <2>3, Zenon DEF Promise!ReturnBlock
  <2> QED
    BY <1>0, <2>1, <1>6, Zenon DEF Promise!Step
<1> QED
  BY <1>5, <1>6

\* A call begins and has to wait; and an error ends one.
LEMMA Begins ==
    ASSUME NEW s, NEW u, NEW x, NEW e, NEW f, f = FALSE, NEW t, t = TRUE, NEW none, none = <<>>
    PROVE  Promise!Step(s, View(u, x, f, e), View(u, none, t, e))
<1>2. PICK old, new : old = View(u, x, f, e) /\ new = View(u, none, t, e)
  OBVIOUS
<1>3. old.calling = f
  BY <1>2 DEF View
<1>4. PICK q : q = [old EXCEPT !.calling = t, !.returned = none]
  OBVIOUS
<1>5. q.unread = u /\ q.ended = e /\ q.returned = none /\ q.calling = t
  BY <1>2, <1>4 DEF View
<1>6. DOMAIN q = {"unread", "returned", "calling", "ended"} /\ q = [i \in DOMAIN q |-> q[i]]
  BY <1>2, <1>4 DEF View
<1>7. q = new
  BY <1>2, <1>5, <1>6 DEF View
<1>8. Promise!Call(old, new)
  BY <1>3, <1>4, <1>7 DEF Promise!Call
<1> QED
  BY <1>2, <1>8, Zenon DEF Promise!Step

\* A read error is the Fail of ByteStreams.
LEMMA Fails ==
    ASSUME NEW s, NEW u, NEW x, NEW e, e = TRUE, NEW f, f = FALSE, NEW t, t = TRUE, NEW none, none = <<>>
    PROVE  Promise!Step(s, View(u, x, t, e), View(none, none, f, e))
<1>2. PICK old, new : old = View(u, x, t, e) /\ new = View(none, none, f, e)
  OBVIOUS
<1>3. old.calling = TRUE /\ old.ended = TRUE
  BY <1>2 DEF View
<1>5. PICK fresh, q : fresh = Promise!Fresh /\ q = [fresh EXCEPT !.ended = TRUE]
  OBVIOUS
<1>6. q.unread = none /\ q.ended = e /\ q.returned = none /\ q.calling = f
  BY <1>5 DEF Promise!Fresh
<1>7. DOMAIN q = {"unread", "returned", "calling", "ended"} /\ q = [i \in DOMAIN q |-> q[i]]
  BY <1>5 DEF Promise!Fresh
<1>9. q = new
  BY <1>2, <1>6, <1>7 DEF View
<1>4. new = [Promise!Fresh EXCEPT !.ended = TRUE]
  BY <1>5, <1>9, Zenon
<1>8. Promise!Fail(old, new)
  BY <1>3, <1>4, Zenon DEF Promise!Fail
<1> QED
  BY <1>2, <1>8, Zenon DEF Promise!Step

\* What ByteStreams sees of a stream, in parts.
ViewParts(v, r, k, p, got, buf, c, e) ==
    /\ got = r.got /\ buf = r.buf /\ c = r.calling /\ e = (p # "open")
    /\ \A u, none : none = <<>> => (c /\ u = got \o k => v = View(u, none, c, e))
    /\ \A u : ~c /\ u = buf \o k => v = View(u, got, c, e)

\* What ByteStreams sees of a stream has such parts.
LEMMA Viewed ==
    ASSUME NEW s, NEW r \in RioCall, NEW k \in Seq(Byte), NEW p, CallOK(s, r)
    PROVE  \E got, buf \in Seq(Byte), c, e \in BOOLEAN : ViewParts(ViewOf(r, k, p), r, k, p, got, buf, c, e)
<1>1. PICK got \in Seq(Byte), buf \in Seq(Byte), c \in BOOLEAN, e \in BOOLEAN :
        got = r.got /\ buf = r.buf /\ c = r.calling /\ e = (p # "open")
  BY DEF RioCall
<1>2. <<>> \o buf = buf /\ got \o <<>> = got
  BY ConcatEmptySeq
<1>3. c => buf = <<>>
  BY <1>1 DEF CallOK
<1>4. ASSUME NEW u, NEW none, none = <<>>, c, u = got \o k PROVE ViewOf(r, k, p) = View(u, none, c, e)
  <2>1. (got \o buf) \o k = u
    BY <1>2, <1>3, <1>4
  <2>2. r.calling
    BY <1>1, <1>4
  <2>3. ViewOf(r, k, p) = View((r.got \o r.buf) \o k, <<>>, r.calling, p # "open")
    BY <2>2, Zenon DEF ViewOf
  <2> QED
    BY <2>1, <2>3, <1>1, <1>4, Zenon
<1>5. ASSUME NEW u, ~c, u = buf \o k PROVE ViewOf(r, k, p) = View(u, got, c, e)
  <2>1. (<<>> \o buf) \o k = u
    BY <1>2, <1>5, Zenon
  <2>2. ~r.calling
    BY <1>1, <1>5
  <2>3. ViewOf(r, k, p) = View((<<>> \o r.buf) \o k, r.got, r.calling, p # "open")
    BY <2>2, Zenon DEF ViewOf
  <2> QED
    BY <2>1, <2>3, <1>1, <1>5, Zenon
<1>6. ViewParts(ViewOf(r, k, p), r, k, p, got, buf, c, e)
  BY <1>1, <1>4, <1>5, Zenon DEF ViewParts
<1> QED
  BY <1>6, Zenon

\* A step of a stream is a step of the stream that ByteStreams sees, or none.
LEMMA StreamPromise ==
    ASSUME NEW s \in Streams, NEW r \in RioCall, NEW k \in Seq(Byte), NEW p, CallOK(s, r),
           NEW r2 \in RioCall, NEW k2 \in Seq(Byte), NEW p2, CallOK(s, r2),
           \/ k2 = k /\ r2 = r /\ p2 = p
           \/ k2 = k /\ r2 = r /\ p2 # "open"
           \/ p = "open" /\ p2 = p /\ r2 = r /\ \E bytes \in Seq(Byte) : k2 = k \o bytes
           \/ ~r.calling /\ CallsOn(s, r, r2) /\ k2 = k /\ p2 = p
           \/ r.calling /\ ReadsOn(s, r, k, r2, k2) /\ p2 = p
           \/ /\ r.calling /\ k = <<>> /\ p # "open" /\ p2 = p /\ k2 = k
              /\ ~r2.calling /\ r2.got = r.got /\ r2.buf = r.buf
           \/ /\ r.calling /\ k = <<>> /\ p # "open" /\ p2 # "open" /\ k2 = k
              /\ ~r2.calling /\ r2.got = <<>> /\ r2.buf = r.buf
    PROVE  ViewOf(r2, k2, p2) = ViewOf(r, k, p) \/ Promise!Step(s, ViewOf(r, k, p), ViewOf(r2, k2, p2))
<1>1. PICK v, w : v = ViewOf(r, k, p) /\ w = ViewOf(r2, k2, p2)
  OBVIOUS
<1>2. PICK got \in Seq(Byte), buf \in Seq(Byte), c \in BOOLEAN, e \in BOOLEAN :
        ViewParts(v, r, k, p, got, buf, c, e)
  <2>1. \E got, buf \in Seq(Byte), c, e \in BOOLEAN : ViewParts(ViewOf(r, k, p), r, k, p, got, buf, c, e)
    BY Viewed
  <2> QED
    BY <1>1, <2>1, Zenon
<1>3. PICK got2 \in Seq(Byte), buf2 \in Seq(Byte), c2 \in BOOLEAN, e2 \in BOOLEAN :
        ViewParts(w, r2, k2, p2, got2, buf2, c2, e2)
  <2>1. \E got2, buf2 \in Seq(Byte), c2, e2 \in BOOLEAN :
            ViewParts(ViewOf(r2, k2, p2), r2, k2, p2, got2, buf2, c2, e2)
    BY Viewed
  <2> QED
    BY <1>1, <2>1, Zenon
<1>4. PICK u \in Seq(Byte), u2 \in Seq(Byte), none \in Seq(Byte) :
        /\ u = IF c THEN got \o k ELSE buf \o k
        /\ u2 = IF c2 THEN got2 \o k2 ELSE buf2 \o k2
        /\ none = <<>>
  <2>1. got \o k \in Seq(Byte) /\ buf \o k \in Seq(Byte) /\ got2 \o k2 \in Seq(Byte) /\ buf2 \o k2 \in Seq(Byte)
    BY ConcatProperties
  <2> QED
    BY <2>1, EmptySeq
<1>5. /\ got = r.got /\ buf = r.buf /\ c = r.calling /\ e = (p # "open")
      /\ got2 = r2.got /\ buf2 = r2.buf /\ c2 = r2.calling /\ e2 = (p2 # "open")
      /\ c => v = View(u, none, c, e)
      /\ ~c => v = View(u, got, c, e)
      /\ c2 => w = View(u2, none, c2, e2)
      /\ ~c2 => w = View(u2, got2, c2, e2)
  <2>1. \A x, n : n = <<>> => (c /\ x = got \o k => v = View(x, n, c, e))
    BY <1>2, Zenon DEF ViewParts
  <2>2. \A x : ~c /\ x = buf \o k => v = View(x, got, c, e)
    BY <1>2, Zenon DEF ViewParts
  <2>3. \A x, n : n = <<>> => (c2 /\ x = got2 \o k2 => w = View(x, n, c2, e2))
    BY <1>3, Zenon DEF ViewParts
  <2>4. \A x : ~c2 /\ x = buf2 \o k2 => w = View(x, got2, c2, e2)
    BY <1>3, Zenon DEF ViewParts
  <2>5. (c => u = got \o k) /\ (~c => u = buf \o k) /\ (c2 => u2 = got2 \o k2) /\ (~c2 => u2 = buf2 \o k2)
    BY <1>4, Zenon
  <2>6. /\ got = r.got /\ buf = r.buf /\ c = r.calling /\ e = (p # "open")
        /\ got2 = r2.got /\ buf2 = r2.buf /\ c2 = r2.calling /\ e2 = (p2 # "open")
    BY <1>2, <1>3, Zenon DEF ViewParts
  <2> QED
    BY <2>1, <2>2, <2>3, <2>4, <2>5, <2>6, <1>4, Zenon
<1>6. (c => buf = <<>>) /\ (c2 => buf2 = <<>>)
  BY <1>5 DEF CallOK
<1>7. CASE k2 = k /\ r2 = r /\ p2 = p
  BY <1>7, <1>1, Zenon
<1>8. CASE k2 = k /\ r2 = r /\ p2 # "open"
  <2>1. got2 = got /\ buf2 = buf /\ c2 = c /\ u2 = u
    BY <1>8, <1>5, <1>4
  <2>2. PICK x : v = View(u, x, c, e) /\ w = View(u, x, c, e2)
    BY <2>1, <1>5
  <2>3. CASE e
    <3>1. e2 = e
      BY <2>3, <1>5, <1>8
    <3> QED
      BY <2>2, <3>1, <1>1, Zenon
  <2>4. CASE ~e
    <3>1. u = u \o none
      BY <1>4, ConcatEmptySeq
    <3>2. Promise!Step(s, View(u, x, c, e), View(u, x, c, e2))
      BY <3>1, <2>4, Arrives
    <3> QED
      BY <3>2, <2>2, <1>1, Zenon
  <2> QED
    BY <2>3, <2>4
<1>9. CASE p = "open" /\ p2 = p /\ r2 = r /\ \E bytes \in Seq(Byte) : k2 = k \o bytes
  <2>1. PICK b \in Seq(Byte) : k2 = k \o b
    BY <1>9
  <2>2. got2 = got /\ buf2 = buf /\ c2 = c /\ ~e /\ e2 = e
    BY <1>9, <1>5
  <2>3. u2 = u \o b
    <3>2. Assoc(got, k, b) /\ Assoc(buf, k, b)
      BY AssocIs
    <3>1. (got \o k) \o b = got \o (k \o b) /\ (buf \o k) \o b = buf \o (k \o b)
      BY <3>2, Zenon DEF Assoc
    <3> QED
      BY <3>1, <2>1, <2>2, <1>4, Zenon
  <2>4. PICK x : v = View(u, x, c, e) /\ w = View(u2, x, c, e2)
    BY <2>2, <1>5
  <2>5. Promise!Step(s, View(u, x, c, e), View(u2, x, c, e2))
    BY <2>2, <2>3, Arrives
  <2> QED
    BY <2>4, <2>5, <1>1, Zenon
<1>10. CASE ~r.calling /\ CallsOn(s, r, r2) /\ k2 = k /\ p2 = p
  <2>1. ~c /\ e2 = e
    BY <1>10, <1>5
  <2>2. CASE c2
    <3>1. got2 = buf
      BY <2>2, <1>10, <1>5 DEF CallsOn
    <3>2. u2 = u /\ c = FALSE /\ c2 = TRUE
      BY <2>1, <2>2, <3>1, <1>4, <1>10
    <3>3. Promise!Step(s, View(u, got, c, e), View(u, none, c2, e))
      BY <3>2, <1>4, Begins
    <3> QED
      BY <3>2, <3>3, <2>1, <2>2, <1>1, <1>5, Zenon
  <2>3. CASE ~c2
    <3>1. Piece(s, got2) /\ got2 \o buf2 = buf
      BY <2>3, <1>10, <1>5 DEF CallsOn
    <3>5. Assoc(got2, buf2, k)
      BY AssocIs
    <3>2. (got2 \o buf2) \o k = got2 \o (buf2 \o k)
      BY <3>5, Zenon DEF Assoc
    <3>3. u = got2 \o u2 /\ c2 = FALSE
      BY <2>1, <2>3, <3>1, <3>2, <1>4, <1>10, Zenon
    <3>4. Promise!Step(s, View(u, got, c, e), View(u2, got2, c2, e))
      BY <3>1, <3>3, ReturnsPiece
    <3> QED
      BY <3>4, <2>1, <2>3, <1>1, <1>5, Zenon
  <2> QED
    BY <2>2, <2>3
<1>11. CASE r.calling /\ ReadsOn(s, r, k, r2, k2) /\ p2 = p
  <2>1. c /\ e2 = e
    BY <1>11, <1>5
  <2>2. (got2 \o buf2) \o k2 = u
    BY <2>1, <1>4, <1>5, <1>11, Zenon DEF ReadsOn
  <2>3. CASE c2
    <3>1. got2 \o buf2 = got2
      BY <2>3, <1>6, ConcatEmptySeq
    <3>2. u2 = u
      BY <2>2, <2>3, <3>1, <1>4, Zenon
    <3>3. c2 = c
      BY <2>1, <2>3
    <3> QED
      BY <2>1, <2>3, <3>2, <3>3, <1>1, <1>5, Zenon
  <2>4. CASE ~c2
    <3>1. Piece(s, got2)
      BY <2>4, <1>5, <1>11 DEF ReadsOn
    <3>5. Assoc(got2, buf2, k2)
      BY AssocIs
    <3>2. (got2 \o buf2) \o k2 = got2 \o (buf2 \o k2)
      BY <3>5, Zenon DEF Assoc
    <3>3. u = got2 \o u2 /\ c2 = FALSE
      BY <2>2, <2>4, <3>2, <1>4, Zenon
    <3>4. Promise!Step(s, View(u, none, c, e), View(u2, got2, c2, e))
      BY <3>1, <3>3, ReturnsPiece
    <3> QED
      BY <3>4, <2>1, <2>4, <1>1, <1>5, Zenon
  <2> QED
    BY <2>3, <2>4
<1>12. CASE /\ r.calling /\ k = <<>> /\ p # "open" /\ p2 = p /\ k2 = k
            /\ ~r2.calling /\ r2.got = r.got /\ r2.buf = r.buf
  <2>1. c /\ ~c2 /\ e = TRUE /\ e2 = e /\ got2 = got /\ buf2 = <<>> /\ c2 = FALSE
    BY <1>12, <1>5, <1>6
  <2>2. u = got /\ u2 = none
    BY <2>1, <1>12, <1>4, ConcatEmptySeq
  <2>3. Unfinished(s, got)
    BY <1>5, <1>12 DEF CallOK
  <2>4. Promise!Step(s, View(got, none, c, e), View(none, got, c2, e))
    BY <2>1, <2>3, <1>4, ReturnsEnd
  <2> QED
    BY <2>1, <2>2, <2>4, <1>1, <1>5, Zenon
<1>13. CASE /\ r.calling /\ k = <<>> /\ p # "open" /\ p2 # "open" /\ k2 = k
            /\ ~r2.calling /\ r2.got = <<>> /\ r2.buf = r.buf
  <2>1. c /\ ~c2 /\ e = TRUE /\ e2 = e /\ got2 = none /\ buf2 = <<>> /\ c2 = FALSE /\ c = TRUE
    BY <1>13, <1>4, <1>5, <1>6
  <2>2. u2 = none
    BY <2>1, <1>13, <1>4, ConcatEmptySeq
  <2>4. Promise!Step(s, View(u, none, c, e), View(none, none, c2, e))
    BY <2>1, <1>4, Fails
  <2> QED
    BY <2>1, <2>2, <2>4, <1>1, <1>5, Zenon
<1> QED
  BY <1>7, <1>8, <1>9, <1>10, <1>11, <1>12, <1>13
-----------------------------------------------------------------------------
\* The streams of a client, as members of the sets they are in.
LEMMA Servers ==
    /\ TinysRequests \subseteq Requests /\ ProxysRequests \subseteq Requests
    /\ \A c \in Direct : RequestOf(c) \in TinysRequests
    /\ \A c \in Proxied : /\ ForwardOf(c) \in TinysRequests /\ RequestOf(c) \in ProxysRequests
                          /\ RequestOf(c) \notin TinysRequests /\ ReplyOf(c) \notin TinysRequests
    /\ \A s \in TinysRequests : \/ \E c \in Direct : s = RequestOf(c)
                                \/ \E c \in Proxied : s = ForwardOf(c)
    /\ \A s \in ProxysRequests : \E c \in Proxied : s = RequestOf(c)
    /\ \A s \in Streams : \/ s \in Requests
                          \/ \E c \in Proxied : s = ReplyOf(c)
    /\ \A s \in Requests : \/ \E c \in Clients : s = RequestOf(c)
                           \/ \E c \in Proxied : s = ForwardOf(c)
<1>1. \A c \in Direct : c \in Clients
  BY DEF Clients
<1>2. \A c \in Proxied : RequestOf(c) \notin TinysRequests
  BY Names DEF TinysRequests
<1>3. \A c \in Proxied : ReplyOf(c) \notin TinysRequests
  BY Names DEF TinysRequests
<1>4. TinysRequests \subseteq Requests /\ ProxysRequests \subseteq Requests
  BY Names DEF TinysRequests, ProxysRequests
<1>5. /\ \A c \in Direct : RequestOf(c) \in TinysRequests
      /\ \A c \in Proxied : ForwardOf(c) \in TinysRequests /\ RequestOf(c) \in ProxysRequests
  BY DEF TinysRequests, ProxysRequests
<1>6. /\ \A s \in TinysRequests : \/ \E c \in Direct : s = RequestOf(c)
                                  \/ \E c \in Proxied : s = ForwardOf(c)
      /\ \A s \in ProxysRequests : \E c \in Proxied : s = RequestOf(c)
  BY DEF TinysRequests, ProxysRequests
<1>7. /\ \A s \in Streams : s \in Requests \/ \E c \in Proxied : s = ReplyOf(c)
      /\ \A s \in Requests : \/ \E c \in Clients : s = RequestOf(c)
                             \/ \E c \in Proxied : s = ForwardOf(c)
  BY RequestPathAssumption
<1> QED
  BY <1>2, <1>3, <1>4, <1>5, <1>6, <1>7

\* tiny between two connections.
LEMMA NotServingIs == NotServing \in TinyType /\ NotServing.pc = "accept"
<1>1. \A s \in Requests \cup {NoStream}, out \in Seq(Seq(Byte)), f \in BOOLEAN :
        [pc |-> "accept", s |-> s, out |-> out, then |-> "none", first |-> f] \in TinyType
  BY DEF TinyType
<1>2. <<>> \in Seq(Seq(Byte)) /\ FALSE \in BOOLEAN /\ NoStream \in Requests \cup {NoStream}
  OBVIOUS
<1>3. NotServing \in TinyType
  BY <1>1, <1>2, Zenon DEF NotServing
<1> QED
  BY <1>3 DEF NotServing

\* A connection is accepted by tiny.
LEMMA TinyAcceptKeeps ==
    ASSUME ControlInv, TinyAccept, UNCHANGED <<proxyVars, clientVars>>
    PROVE  StreamsStep /\ ControlInv'
<1> DEFINE s0 == Head(tinyQueue)
<1>0. RioInv /\ TypeInv
  BY DEF ControlInv
<1>1. /\ tiny.pc = "accept" /\ tinyQueue' = Tail(tinyQueue)
      /\ kernel' = kernel /\ peer' = peer /\ sent' = sent /\ over' = over
      /\ proxy' = proxy /\ proxyQueue' = proxyQueue /\ asked' = asked /\ script' = script /\ phase' = phase
  BY DEF TinyAccept, connVars, proxyVars, clientVars
<1>2. TinyUp
  BY <1>1 DEF TinyUp
<1>3. Distinct(tinyQueue) /\ ToSet(tinyQueue) \subseteq TinysRequests
  BY <1>2 DEF ControlInv, TinyQueueInv
<1>4. /\ tinyQueue' \in Seq(Requests) /\ Distinct(tinyQueue')
      /\ s0 \in ToSet(tinyQueue) /\ ToSet(tinyQueue') = ToSet(tinyQueue) \ {s0}
  BY <1>0, <1>1, <1>3, QueueTaken DEF TinyAccept, TypeInv
<1>5. s0 \in TinysRequests /\ s0 \in Requests /\ s0 \in Streams
  BY <1>3, <1>4, Servers, Names
<1>6. rio[s0] = NoCall
  BY <1>2, <1>4 DEF ControlInv, TinyQueueInv
<1>7. /\ rio' = [rio EXCEPT ![s0] = Copied(s0, [rio[s0] EXCEPT !.got = <<>>])]
      /\ tiny' = [NotServing EXCEPT !.pc = "requestline", !.s = s0]
  BY DEF TinyAccept, Called
<1> HIDE DEF s0
<1>8. /\ rio' = [p \in Streams |-> rio'[p]] /\ \A p \in Streams \ {s0} : rio'[p] = rio[p]
      /\ rio'[s0] = Copied(s0, [rio[s0] EXCEPT !.got = <<>>])
  BY <1>0, <1>5, <1>7 DEF RioInv
<1>9. rio'[s0].calling /\ rio'[s0].got = <<>>
  BY <1>5, <1>6, <1>8, FirstCallWaits
<1>10. tiny'.pc = "requestline" /\ tiny'.s = s0 /\ tiny' \in TinyType
  <2>1. PICK t \in TinyType : t = NotServing
    BY NotServingIs
  <2>2. tiny' = [t EXCEPT !.pc = "requestline", !.s = s0]
    BY <1>7, <2>1, Zenon
  <2>3. \A s \in Requests : [t EXCEPT !.pc = "requestline", !.s = s] \in TinyType
    BY DEF TinyType
  <2>4. tiny'.pc = "requestline" /\ tiny'.s = s0
    BY <2>2 DEF TinyType
  <2> QED
    BY <1>5, <2>2, <2>3, <2>4, Zenon
<1>11. StreamsStep
  <2>1. Calling(s0)
    BY <1>1, <1>6, <1>8 DEF Calling, NoCall
  <2>2. \A p \in Streams \ {s0} : Quiet(p)
    BY <1>1, <1>8 DEF Quiet
  <2>3. kernel' = [p \in Streams |-> kernel'[p]] /\ peer' = [p \in Streams |-> peer'[p]]
    BY <1>0, <1>1 DEF RioInv
  <2> QED
    BY <1>0, <1>5, <1>8, <2>1, <2>2, <2>3, OneStream DEF StreamStep
<1>12. RioInv'
  BY <1>0, <1>11, RioKept
<1>13. TypeInv'
  BY <1>0, <1>1, <1>4, <1>10 DEF TypeInv
<1>14. NewInv'
  <2> SUFFICES ASSUME NEW c \in Clients, phase'[c] = "new"
               PROVE  /\ RequestOf(c) \notin ToSet(tinyQueue') /\ RequestOf(c) \notin ToSet(proxyQueue')
                      /\ ~TinyAt(RequestOf(c))' /\ ~ProxyAt(c)'
                      /\ Untouched(RequestOf(c))' /\ over'[RequestOf(c)] = "no"
    BY DEF NewInv
  <2>1. /\ RequestOf(c) \notin ToSet(tinyQueue) /\ RequestOf(c) \notin ToSet(proxyQueue)
        /\ ~ProxyAt(c) /\ Untouched(RequestOf(c)) /\ over[RequestOf(c)] = "no"
    BY <1>1 DEF ControlInv, NewInv
  <2>2. RequestOf(c) # s0 /\ RequestOf(c) \in Streams
    BY <2>1, <1>4, Names
  <2> QED
    BY <2>1, <2>2, <1>1, <1>4, <1>8, <1>10 DEF TinyAt, ProxyAt, Untouched
<1>15. UnconnectedInv'
  <2> SUFFICES ASSUME NEW c \in Proxied, over'[RequestOf(c)] = "no", ~Connected(c)'
               PROVE  /\ ForwardOf(c) \notin ToSet(tinyQueue') /\ ~TinyAt(ForwardOf(c))'
                      /\ Untouched(ForwardOf(c))' /\ Untouched(ReplyOf(c))' /\ asked'[c] = <<>>
    BY DEF UnconnectedInv
  <2>1. /\ ForwardOf(c) \notin ToSet(tinyQueue)
        /\ Untouched(ForwardOf(c)) /\ Untouched(ReplyOf(c)) /\ asked[c] = <<>>
    BY <1>1 DEF ControlInv, UnconnectedInv, Connected
  <2>2. ForwardOf(c) # s0 /\ ReplyOf(c) # s0 /\ ForwardOf(c) \in Streams /\ ReplyOf(c) \in Streams
    BY <2>1, <1>4, <1>5, Names
  <2> QED
    BY <2>1, <2>2, <1>1, <1>4, <1>8, <1>10 DEF TinyAt, Untouched
<1>16. TinyQueueInv'
  BY <1>1, <1>2, <1>3, <1>4, <1>8, <1>10, Servers, Names DEF ControlInv, TinyQueueInv, TinyUp, TinyAt
<1>17. ProxyQueueInv'
  BY <1>1, <1>5, <1>8, Servers, Names DEF ControlInv, ProxyQueueInv, ProxyUp, ProxyAt
<1>18. ServingInv'
  BY <1>1, <1>5, <1>10 DEF ControlInv, ServingInv, Here
<1>19. CallingInv'
  BY <1>1, <1>5, <1>8, <1>10, Servers, Names DEF ControlInv, CallingInv
<1>20. PeerInv'
  BY <1>1, <1>2, <1>4, <1>10 DEF ControlInv, PeerInv, ProxyUp, TinyUp, TinyAt
<1>21. SendInv'
  BY <1>1, <1>2, <1>4, <1>9, <1>10 DEF ControlInv, SendInv, TinyUp, TinyAt
<1> QED
  BY <1>11, <1>12, <1>13, <1>14, <1>15, <1>16, <1>17, <1>18, <1>19, <1>20, <1>21 DEF ControlInv
-----------------------------------------------------------------------------
\* What is known of tiny and its stream while tiny waits for the first bytes:
\* on a connection of the proxy that has not sent anything it goes on waiting.
TinyIdle == /\ tiny.pc = "requestline" /\ rio[tiny.s].calling /\ rio[tiny.s].got = <<>>
            /\ kernel[tiny.s] = <<>> /\ peer[tiny.s] = "open"

\* The parts of the invariant that are not about one server.
OthersInv == NewInv /\ UnconnectedInv /\ TinyQueueInv /\ ProxyQueueInv /\ ServingInv /\ CallingInv
             /\ PeerInv /\ SendInv

\* tiny goes on with the connection that it serves.
TinyMoves ==
    /\ tiny.pc \notin {"accept", "down"} /\ tiny'.pc \notin {"accept", "down"} /\ tiny'.s = tiny.s
    /\ tinyQueue' = tinyQueue /\ over' = over /\ proxy' = proxy /\ proxyQueue' = proxyQueue
    /\ asked' = asked /\ script' = script /\ phase' = phase
    /\ ~TinyIdle
    /\ \A p \in Streams \ {tiny.s} :
         rio'[p] = rio[p] /\ peer'[p] = peer[p] /\ (p # ReplyTo(tiny.s) => kernel'[p] = kernel[p])
    /\ peer'[tiny.s] = "open" <=> peer[tiny.s] = "open"
    /\ rio'[tiny.s].calling => tiny'.pc \in {"requestline", "headers"}

\* Such a step of tiny keeps the invariant.
LEMMA TinyMovesKeeps ==
    ASSUME ControlInv, TinyMoves
    PROVE  OthersInv'
<1>1. /\ tiny.pc \notin {"accept", "down"} /\ tiny'.pc \notin {"accept", "down"} /\ tiny'.s = tiny.s
      /\ tinyQueue' = tinyQueue /\ over' = over /\ proxy' = proxy /\ proxyQueue' = proxyQueue
      /\ asked' = asked /\ script' = script /\ phase' = phase
      /\ ~TinyIdle
      /\ peer'[tiny.s] = "open" <=> peer[tiny.s] = "open"
      /\ rio'[tiny.s].calling => tiny'.pc \in {"requestline", "headers"}
  BY DEF TinyMoves
<1>2. \A p \in Streams \ {tiny.s} : rio'[p] = rio[p] /\ peer'[p] = peer[p]
  BY DEF TinyMoves
<1>3. \A p \in Requests \ {tiny.s} : kernel'[p] = kernel[p]
  <2>1. \A s \in Requests : ReplyTo(s) \notin Requests
    BY Names, Servers
  <2>2. tiny.s \in Requests
    BY <1>1, Servers DEF ControlInv, ServingInv
  <2> QED
    BY <2>1, <2>2, Names DEF TinyMoves
<1>4. \A c \in Proxied : ForwardOf(c) # tiny.s => kernel'[ReplyOf(c)] = kernel[ReplyOf(c)]
  <2> SUFFICES ASSUME NEW c \in Proxied, ForwardOf(c) # tiny.s PROVE kernel'[ReplyOf(c)] = kernel[ReplyOf(c)]
    OBVIOUS
  <2>1. tiny.s \in TinysRequests
    BY <1>1 DEF ControlInv, ServingInv
  <2>2. ReplyTo(tiny.s) # ReplyOf(c)
    BY <2>1, Names, Servers
  <2> QED
    BY <2>1, <2>2, Names, Servers DEF TinyMoves
<1>5. tiny.s \in TinysRequests /\ tiny.s \in Requests /\ tiny.s \in Streams
  BY <1>1, Servers, Names DEF ControlInv, ServingInv
<1>6. \A s : TinyAt(s)' <=> TinyAt(s)
  BY <1>1 DEF TinyAt
<1>14. NewInv'
  <2> SUFFICES ASSUME NEW c \in Clients, phase'[c] = "new"
               PROVE  /\ RequestOf(c) \notin ToSet(tinyQueue') /\ RequestOf(c) \notin ToSet(proxyQueue')
                      /\ ~TinyAt(RequestOf(c))' /\ ~ProxyAt(c)'
                      /\ Untouched(RequestOf(c))' /\ over'[RequestOf(c)] = "no"
    BY DEF NewInv
  <2>1. /\ RequestOf(c) \notin ToSet(tinyQueue) /\ RequestOf(c) \notin ToSet(proxyQueue)
        /\ ~TinyAt(RequestOf(c)) /\ ~ProxyAt(c) /\ Untouched(RequestOf(c)) /\ over[RequestOf(c)] = "no"
    BY <1>1 DEF ControlInv, NewInv
  <2>2. RequestOf(c) # tiny.s /\ RequestOf(c) \in Streams /\ RequestOf(c) \in Requests
    BY <2>1, <1>1, Names DEF TinyAt
  <2> QED
    BY <2>1, <2>2, <1>1, <1>2, <1>3, <1>6 DEF ProxyAt, Untouched
<1>15. UnconnectedInv'
  <2> SUFFICES ASSUME NEW c \in Proxied, over'[RequestOf(c)] = "no", ~Connected(c)'
               PROVE  /\ ForwardOf(c) \notin ToSet(tinyQueue') /\ ~TinyAt(ForwardOf(c))'
                      /\ Untouched(ForwardOf(c))' /\ Untouched(ReplyOf(c))' /\ asked'[c] = <<>>
    BY DEF UnconnectedInv
  <2>1. /\ ForwardOf(c) \notin ToSet(tinyQueue) /\ ~TinyAt(ForwardOf(c))
        /\ Untouched(ForwardOf(c)) /\ Untouched(ReplyOf(c)) /\ asked[c] = <<>>
    BY <1>1 DEF ControlInv, UnconnectedInv, Connected
  <2>2. /\ ForwardOf(c) # tiny.s /\ ReplyOf(c) # tiny.s /\ ForwardOf(c) \in Streams /\ ReplyOf(c) \in Streams
        /\ ForwardOf(c) \in Requests
    BY <2>1, <1>1, <1>5, Names DEF TinyAt
  <2> QED
    BY <2>1, <2>2, <1>1, <1>2, <1>3, <1>4, <1>6 DEF Untouched
<1>16. TinyQueueInv'
  <2>1. /\ Distinct(tinyQueue) /\ ToSet(tinyQueue) \subseteq TinysRequests
        /\ \A s \in ToSet(tinyQueue) : ~TinyAt(s) /\ rio[s] = NoCall
    BY <1>1 DEF ControlInv, TinyQueueInv, TinyUp
  <2>2. \A s \in ToSet(tinyQueue) : s # tiny.s /\ s \in Streams
    BY <2>1, <1>1, Servers, Names DEF TinyAt
  <2> QED
    BY <2>1, <2>2, <1>1, <1>2, <1>6 DEF TinyQueueInv
<1>17. ProxyQueueInv'
  BY <1>1, <1>2, <1>5, Servers, Names DEF ControlInv, ProxyQueueInv, ProxyUp, ProxyAt
<1>18. ServingInv'
  BY <1>1, <1>5 DEF ControlInv, ServingInv, Here
<1>19. CallingInv'
  BY <1>1, <1>2, <1>5, Servers, Names DEF ControlInv, CallingInv
<1>20. PeerInv'
  <2>1. \A p \in Streams : peer'[p] = "open" <=> peer[p] = "open"
    BY <1>1, <1>2
  <2> QED
    BY <2>1, <1>1, <1>6, Names DEF ControlInv, PeerInv, ProxyUp, TinyUp
<1>21. SendInv'
  <2> SUFFICES ASSUME proxy.pc = "send" PROVE SendInv'
    BY <1>1 DEF SendInv
  <2> DEFINE s == ForwardOf(proxy.c)
  <2>0. proxy.c \in Proxied
    BY DEF ControlInv, ServingInv
  <2>1. /\ asked[proxy.c] = <<>> /\ kernel[s] = <<>>
        /\ \/ s \in ToSet(tinyQueue)
           \/ TinyAt(s) /\ tiny.pc = "requestline" /\ rio[s].calling /\ rio[s].got = <<>>
    BY <1>1 DEF ControlInv, SendInv, TinyUp
  <2>2. peer[s] = "open"
    BY <2>0 DEF ControlInv, PeerInv, ProxyUp
  <2>3. s \in ToSet(tinyQueue) /\ s # tiny.s /\ s \in Requests
    BY <1>1, <2>0, <2>1, <2>2, Names DEF TinyIdle, TinyAt, ControlInv, TinyQueueInv, TinyUp
  <2> QED
    BY <1>1, <1>3, <2>1, <2>3 DEF SendInv
<1> QED
  BY <1>14, <1>15, <1>16, <1>17, <1>18, <1>19, <1>20, <1>21 DEF OthersInv

\* tiny closes a connection, or goes down with all that it has.
TinyEnds ==
    /\ tiny.pc \notin {"accept", "down"} /\ ~rio[tiny.s].calling
    /\ tiny'.pc = "accept" \/ (tiny'.pc = "down" /\ tiny'.s = tiny.s)
    /\ tinyQueue' = tinyQueue /\ kernel' = kernel /\ rio' = rio
    /\ proxy' = proxy /\ proxyQueue' = proxyQueue
    /\ asked' = asked /\ script' = script /\ phase' = phase
    /\ \A s \in Requests \ {tiny.s} :
         s \notin ToSet(tinyQueue) \/ tiny'.pc = "accept" => over'[s] = over[s]
    /\ \A p \in Streams :
         \/ peer'[p] = peer[p]
         \/ \E c \in Proxied : /\ p = ReplyOf(c)
                               /\ ForwardOf(c) = tiny.s \/ (tiny'.pc = "down" /\ ForwardOf(c) \in ToSet(tinyQueue))

\* Such a step keeps it, too.
LEMMA TinyEndsKeeps ==
    ASSUME ControlInv, TinyEnds
    PROVE  OthersInv'
<1>8. ~rio[tiny.s].calling
  BY DEF TinyEnds
<1>1. /\ tiny.pc \notin {"accept", "down"}
      /\ tiny'.pc = "accept" \/ (tiny'.pc = "down" /\ tiny'.s = tiny.s)
      /\ tinyQueue' = tinyQueue /\ kernel' = kernel /\ rio' = rio
      /\ proxy' = proxy /\ proxyQueue' = proxyQueue
      /\ asked' = asked /\ script' = script /\ phase' = phase
  BY DEF TinyEnds
<1>5. tiny.s \in TinysRequests /\ tiny.s \in Requests /\ tiny.s \in Streams
  BY <1>1, Servers, Names DEF ControlInv, ServingInv
<1>6. \A s : TinyAt(s)' => TinyAt(s)
  BY <1>1 DEF TinyAt
<1>7. /\ Distinct(tinyQueue) /\ ToSet(tinyQueue) \subseteq TinysRequests
      /\ \A s \in ToSet(tinyQueue) : ~TinyAt(s) /\ rio[s] = NoCall
  BY <1>1 DEF ControlInv, TinyQueueInv, TinyUp
<1>2. \A s \in Requests : peer'[s] = peer[s]
  BY Names DEF TinyEnds
<1>3. \A c \in Proxied : ~TinyAt(ForwardOf(c)) /\ ForwardOf(c) \notin ToSet(tinyQueue) =>
        peer'[ReplyOf(c)] = peer[ReplyOf(c)]
  BY <1>1, Names DEF TinyEnds, TinyAt
<1>4. \A c \in Proxied : over'[RequestOf(c)] = over[RequestOf(c)]
  BY <1>5, <1>7, Servers, Names DEF TinyEnds
<1>14. NewInv'
  <2> SUFFICES ASSUME NEW c \in Clients, phase'[c] = "new"
               PROVE  /\ RequestOf(c) \notin ToSet(tinyQueue') /\ RequestOf(c) \notin ToSet(proxyQueue')
                      /\ ~TinyAt(RequestOf(c))' /\ ~ProxyAt(c)'
                      /\ Untouched(RequestOf(c))' /\ over'[RequestOf(c)] = "no"
    BY DEF NewInv
  <2>1. /\ RequestOf(c) \notin ToSet(tinyQueue) /\ RequestOf(c) \notin ToSet(proxyQueue)
        /\ ~TinyAt(RequestOf(c)) /\ ~ProxyAt(c) /\ Untouched(RequestOf(c)) /\ over[RequestOf(c)] = "no"
    BY <1>1 DEF ControlInv, NewInv
  <2>2. RequestOf(c) # tiny.s /\ RequestOf(c) \in Requests
    BY <2>1, <1>1, Names DEF TinyAt
  <2>3. over'[RequestOf(c)] = over[RequestOf(c)]
    BY <2>1, <2>2 DEF TinyEnds
  <2> QED
    BY <2>1, <2>2, <2>3, <1>1, <1>2, <1>6 DEF ProxyAt, Untouched
<1>15. UnconnectedInv'
  <2> SUFFICES ASSUME NEW c \in Proxied, over'[RequestOf(c)] = "no", ~Connected(c)'
               PROVE  /\ ForwardOf(c) \notin ToSet(tinyQueue') /\ ~TinyAt(ForwardOf(c))'
                      /\ Untouched(ForwardOf(c))' /\ Untouched(ReplyOf(c))' /\ asked'[c] = <<>>
    BY DEF UnconnectedInv
  <2>1. /\ ForwardOf(c) \notin ToSet(tinyQueue) /\ ~TinyAt(ForwardOf(c))
        /\ Untouched(ForwardOf(c)) /\ Untouched(ReplyOf(c)) /\ asked[c] = <<>>
    BY <1>1, <1>4 DEF ControlInv, UnconnectedInv, Connected
  <2> QED
    BY <2>1, <1>1, <1>2, <1>3, <1>6, Names DEF Untouched
<1>16. TinyQueueInv'
  BY <1>7, <1>1, <1>6 DEF TinyQueueInv
<1>17. ProxyQueueInv'
  BY <1>1, <1>4 DEF ControlInv, ProxyQueueInv, ProxyUp, ProxyAt
<1>18. ServingInv'
  BY <1>1, <1>4, <1>5 DEF ControlInv, ServingInv, Here
<1>19. CallingInv'
  BY <1>1, <1>5, <1>8, Servers, Names DEF ControlInv, CallingInv
<1>20. PeerInv'
  <2>1. /\ \A c \in Clients : peer[RequestOf(c)] = "open" <=> phase[c] # "left"
        /\ ProxyUp => \A c \in Proxied : peer[ForwardOf(c)] = "open"
        /\ \A c \in Proxied :
             ForwardOf(c) \in ToSet(tinyQueue) \/ TinyAt(ForwardOf(c)) => peer[ReplyOf(c)] = "open"
    BY <1>1 DEF ControlInv, PeerInv, TinyUp
  <2>2. /\ \A c \in Clients : peer'[RequestOf(c)] = "open" <=> phase'[c] # "left"
        /\ ProxyUp' => \A c \in Proxied : peer'[ForwardOf(c)] = "open"
    BY <2>1, <1>1, <1>2, Names DEF ProxyUp
  <2>3. ASSUME TinyUp', NEW c \in Proxied, ForwardOf(c) \in ToSet(tinyQueue') \/ TinyAt(ForwardOf(c))'
        PROVE  peer'[ReplyOf(c)] = "open"
    <3>1. tiny'.pc = "accept"
      BY <1>1, <2>3 DEF TinyUp
    <3>2. ForwardOf(c) \in ToSet(tinyQueue) /\ ForwardOf(c) # tiny.s
      BY <1>1, <1>7, <2>3, <3>1 DEF TinyAt
    <3>3. peer'[ReplyOf(c)] = peer[ReplyOf(c)]
      BY <3>1, <3>2, Names DEF TinyEnds
    <3> QED
      BY <2>1, <3>2, <3>3
  <2> QED
    BY <2>2, <2>3 DEF PeerInv
<1>21. SendInv'
  <2> SUFFICES ASSUME proxy.pc = "send" PROVE SendInv'
    BY <1>1 DEF SendInv
  <2> DEFINE s == ForwardOf(proxy.c)
  <2>0. proxy.c \in Proxied
    BY DEF ControlInv, ServingInv
  <2>1. /\ asked[proxy.c] = <<>> /\ kernel[s] = <<>>
        /\ \/ s \in ToSet(tinyQueue)
           \/ TinyAt(s) /\ tiny.pc = "requestline" /\ rio[s].calling /\ rio[s].got = <<>>
    BY <1>1 DEF ControlInv, SendInv, TinyUp
  <2>2. peer[s] = "open"
    BY <2>0 DEF ControlInv, PeerInv, ProxyUp
  <2>3. s \in ToSet(tinyQueue)
    BY <1>8, <2>0, <2>1, <2>2 DEF TinyAt
  <2> QED
    BY <1>1, <2>1, <2>3 DEF SendInv
<1> QED
  BY <1>14, <1>15, <1>16, <1>17, <1>18, <1>19, <1>20, <1>21 DEF OthersInv
-----------------------------------------------------------------------------
\* The forms in which tiny changes.
TinyLike(t2, t, pc) == t2 \in TinyType /\ t2.s = t.s /\ t2.pc = pc

\* To a place in the code.
LEMMA TinyFormPc ==
    ASSUME NEW t \in TinyType, NEW pc \in {"accept", "requestline", "headers", "write", "wait", "down"}
    PROVE  TinyLike([t EXCEPT !.pc = pc], t, pc)
  BY DEF TinyType, TinyLike

\* To write, and then to close.
LEMMA TinyFormThen ==
    ASSUME NEW t \in TinyType
    PROVE  TinyLike([t EXCEPT !.pc = "write", !.then = "close"], t, "write")
  BY DEF TinyType, TinyLike

\* To write what is given, and then to close.
LEMMA TinyFormOut ==
    ASSUME NEW t \in TinyType, NEW out \in Seq(Seq(Byte))
    PROVE  TinyLike([t EXCEPT !.pc = "write", !.out = out, !.then = "close"], t, "write")
  BY DEF TinyType, TinyLike

\* To read the headers, for a reply that is given.
LEMMA TinyFormHeaders ==
    ASSUME NEW t \in TinyType, NEW then \in {"none", "close", "mmap", "wait"}, NEW out \in Seq(Seq(Byte))
    PROVE  TinyLike([t EXCEPT !.pc = "headers", !.first = TRUE, !.out = out, !.then = then], t, "headers")
<1>1. \A f \in BOOLEAN : TinyLike([t EXCEPT !.pc = "headers", !.first = f, !.out = out, !.then = then], t, "headers")
  BY DEF TinyType, TinyLike
<1> QED
  BY <1>1

\* To have read the first of the headers.
LEMMA TinyFormFirst ==
    ASSUME NEW t \in TinyType
    PROVE  TinyLike([t EXCEPT !.first = FALSE], t, t.pc)
<1>1. \A f \in BOOLEAN : TinyLike([t EXCEPT !.first = f], t, t.pc)
  BY DEF TinyType, TinyLike
<1> QED
  BY <1>1

\* To have written a part.
LEMMA TinyFormRest ==
    ASSUME NEW t \in TinyType, NEW out \in Seq(Seq(Byte))
    PROVE  TinyLike([t EXCEPT !.out = out], t, t.pc)
  BY DEF TinyType, TinyLike

\* What tiny writes.
LEMMA TinyWrites ==
    /\ clienterror \in Seq(Seq(Byte))
    /\ \A file : /\ ReplyFor(file).out \in Seq(Seq(Byte))
                 /\ ReplyFor(file).then \in {"none", "close", "mmap", "wait"}
<1>1. /\ << <<"error">>, <<"html">> >> \in Seq(Seq(Byte))
      /\ << <<"ok", "length">>, <<"b1", "b2">>, <<"b3">> >> \in Seq(Seq(Byte))
      /\ << <<"ok", "length">> >> \in Seq(Seq(Byte)) /\ << <<"ok">> >> \in Seq(Seq(Byte))
  <2>1. \A a, b, c \in Byte : /\ <<a>> \in Seq(Byte) /\ <<a, b>> \in Seq(Byte)
                              /\ <<a, b, c>> \in Seq(Byte)
    OBVIOUS
  <2>2. \A x, y, z \in Seq(Byte) : <<x>> \in Seq(Seq(Byte)) /\ <<x, y>> \in Seq(Seq(Byte)) /\ <<x, y, z>> \in Seq(Seq(Byte))
    OBVIOUS
  <2>3. /\ "error" \in Byte /\ "html" \in Byte /\ "ok" \in Byte /\ "length" \in Byte
        /\ "b1" \in Byte /\ "b2" \in Byte /\ "b3" \in Byte
    BY DEF Byte
  <2> QED
    BY <2>1, <2>2, <2>3
<1> QED
  BY <1>1 DEF clienterror, ReplyFor

\* Nothing happens on the streams.
LEMMA AllQuiet ==
    ASSUME RioInv, kernel' = kernel, peer' = peer, rio' = rio
    PROVE  StreamsStep
<1>1. \A s \in Streams : StreamStep(s)
  BY DEF StreamStep, Quiet
<1> QED
  BY <1>1 DEF StreamsStep, RioInv

\* A call begins on a stream.
LEMMA OneCall ==
    ASSUME RioInv, NEW s \in Streams, ~rio[s].calling, kernel' = kernel, peer' = peer, rio' = Called(s)
    PROVE  StreamsStep /\ \A p \in Streams \ {s} : rio'[p] = rio[p]
<1>1. rio' = [rio EXCEPT ![s] = Copied(s, [rio[s] EXCEPT !.got = <<>>])]
  BY DEF Called
<1>2. rio' = [p \in Streams |-> rio'[p]] /\ (\A p \in Streams \ {s} : rio'[p] = rio[p])
      /\ rio'[s] = Copied(s, [rio[s] EXCEPT !.got = <<>>])
  BY <1>1 DEF RioInv
<1>3. Calling(s)
  BY <1>2 DEF Calling
<1>4. \A p \in Streams \ {s} : Quiet(p)
  BY <1>2 DEF Quiet
<1>5. kernel' = [p \in Streams |-> kernel'[p]] /\ peer' = [p \in Streams |-> peer'[p]]
  BY DEF RioInv
<1> QED
  BY <1>2, <1>3, <1>4, <1>5, OneStream DEF StreamStep

\* Two ways of writing what happens to the record of a call.
LEMMA ReturnTwice ==
    ASSUME NEW f \in [Streams -> RioCall], NEW s \in Streams, NEW n
    PROVE  [f EXCEPT ![s].calling = FALSE, ![s].rc = n]
           = [f EXCEPT ![s] = [f[s] EXCEPT !.calling = FALSE, !.rc = n]]
  OBVIOUS

\* The same when it fails.
LEMMA FailTwice ==
    ASSUME NEW f \in [Streams -> RioCall], NEW s \in Streams
    PROVE  [f EXCEPT ![s].calling = FALSE, ![s].got = <<>>, ![s].rc = -1]
           = [f EXCEPT ![s] = [f[s] EXCEPT !.calling = FALSE, !.got = <<>>, !.rc = -1]]
  OBVIOUS

\* A read of a stream on which a call waits.
LEMMA OneRead ==
    ASSUME RioInv, NEW s \in Streams, Read(s)
    PROVE  /\ StreamsStep /\ Reading(s) /\ rio[s].calling
           /\ \A p \in Streams \ {s} : Quiet(p)
           /\ peer'[s] = "open" <=> peer[s] = "open"
           /\ kernel[s] # <<>> \/ peer[s] # "open"
<1>0. kernel[s] \in Seq(Byte) /\ rio[s] \in RioCall /\ CallOK(s, rio[s]) /\ Len(kernel[s]) \in Nat
  BY DEF RioInv
<1>1. CASE ReadSome(s)
  <2>1. PICK n \in 1..Min({RIO_BUFSIZE, Len(kernel[s])}) :
         /\ rio' = [rio EXCEPT ![s] = Copied(s, [rio[s] EXCEPT !.buf = SubSeq(kernel[s], 1, n)])]
         /\ kernel' = [kernel EXCEPT ![s] = SubSeq(kernel[s], n + 1, Len(kernel[s]))]
    BY <1>1 DEF ReadSome
  <2>2. rio[s].calling /\ kernel[s] # <<>> /\ peer' = peer
    BY <1>1 DEF ReadSome
  <2>3. n \in 1..Len(kernel[s])
    <3>1. PICK a \in Nat, b \in Nat : a = RIO_BUFSIZE /\ b = Len(kernel[s])
      BY <1>0, RioAssumption
    <3>2. Min({a, b}) <= b /\ Min({a, b}) \in Int
      <4>1. \E x \in {a, b} : \A y \in {a, b} : x <= y
        BY <3>1
      <4>2. Min({a, b}) \in {a, b} /\ \A y \in {a, b} : Min({a, b}) <= y
        BY <4>1 DEF Min
      <4> QED
        BY <4>2
    <3> QED
      BY <2>1, <3>1, <3>2
  <2>4. /\ rio' = [p \in Streams |-> rio'[p]] /\ (\A p \in Streams \ {s} : rio'[p] = rio[p])
        /\ rio'[s] = Copied(s, [rio[s] EXCEPT !.buf = SubSeq(kernel[s], 1, n)])
        /\ kernel' = [p \in Streams |-> kernel'[p]] /\ (\A p \in Streams \ {s} : kernel'[p] = kernel[p])
        /\ kernel'[s] = SubSeq(kernel[s], n + 1, Len(kernel[s]))
    BY <2>1 DEF RioInv
  <2>5. ReadsOn(s, rio[s], kernel[s], rio'[s], kernel'[s])
    BY <1>0, <2>2, <2>3, <2>4, SomeRead
  <2>6. Reading(s) /\ \A p \in Streams \ {s} : Quiet(p)
    BY <2>2, <2>4, <2>5 DEF Reading, Quiet
  <2>7. peer' = [p \in Streams |-> peer'[p]]
    BY <2>2 DEF RioInv
  <2> QED
    BY <2>2, <2>4, <2>6, <2>7, OneStream DEF StreamStep
<1>2. CASE ReadEnd(s)
  <2>1. /\ rio[s].calling /\ kernel[s] = <<>> /\ peer[s] \notin {"open", "reset"}
        /\ kernel' = kernel /\ peer' = peer
    BY <1>2 DEF ReadEnd
  <2>2. rio' = [rio EXCEPT ![s] = [rio[s] EXCEPT !.calling = FALSE, !.rc = Len(rio[s].got)]]
    BY <1>2, ReturnTwice DEF ReadEnd, RioInv
  <2>4. /\ rio' = [p \in Streams |-> rio'[p]] /\ (\A p \in Streams \ {s} : rio'[p] = rio[p])
        /\ rio'[s] = [rio[s] EXCEPT !.calling = FALSE, !.rc = Len(rio[s].got)]
    BY <2>2 DEF RioInv
  <2>6. Reading(s) /\ \A p \in Streams \ {s} : Quiet(p)
    BY <2>1, <2>4 DEF Reading, Quiet
  <2>7. peer' = [p \in Streams |-> peer'[p]] /\ kernel' = [p \in Streams |-> kernel'[p]]
    BY <2>1 DEF RioInv
  <2> QED
    BY <2>1, <2>4, <2>6, <2>7, OneStream DEF StreamStep
<1>3. CASE ReadError(s)
  <2>1. /\ rio[s].calling /\ kernel[s] = <<>> /\ peer[s] = "reset"
        /\ kernel' = kernel /\ peer' = [peer EXCEPT ![s] = "noticed"]
    BY <1>3 DEF ReadError
  <2>2. rio' = [rio EXCEPT ![s] = [rio[s] EXCEPT !.calling = FALSE, !.got = <<>>, !.rc = -1]]
    <3>1. rio \in [Streams -> RioCall]
      BY DEF RioInv
    <3>2. rio' = [rio EXCEPT ![s].calling = FALSE, ![s].got = <<>>, ![s].rc = -1]
      BY <1>3, Zenon DEF ReadError
    <3> QED
      BY <3>1, <3>2, FailTwice, Zenon
  <2>4. /\ rio' = [p \in Streams |-> rio'[p]] /\ (\A p \in Streams \ {s} : rio'[p] = rio[p])
        /\ rio'[s] = [rio[s] EXCEPT !.calling = FALSE, !.got = <<>>, !.rc = -1]
    BY <2>2 DEF RioInv
  <2>5. /\ peer' = [p \in Streams |-> peer'[p]] /\ (\A p \in Streams \ {s} : peer'[p] = peer[p])
        /\ peer'[s] = "noticed"
    BY <2>1 DEF RioInv
  <2>6. Reading(s) /\ \A p \in Streams \ {s} : Quiet(p)
    BY <2>1, <2>4, <2>5 DEF Reading, Quiet
  <2>7. kernel' = [p \in Streams |-> kernel'[p]]
    BY <2>1 DEF RioInv
  <2> QED
    BY <2>1, <2>4, <2>5, <2>6, <2>7, OneStream DEF StreamStep
<1> QED
  BY <1>1, <1>2, <1>3 DEF Read

-----------------------------------------------------------------------------
\* What a write does to the streams: bytes arrive, or the end of the stream that
\* is written to changes; an open end stays open, no other end changes.
LEMMA WriteOutcome ==
    ASSUME RioInv, NEW s \in Streams, NEW outcome \in WriteOutcomes(s)
    PROVE  /\ outcome[2] \in Peer /\ (outcome[2] = "open" <=> peer[s] = "open")
           /\ peer[s] = "noticed" => outcome[2] = "noticed"
           /\ outcome[1] = "ok" => peer[s] # "noticed"
           /\ outcome[1] = "ECONNRESET" => peer[s] = "reset"
           /\ peer[s] = "reset" => outcome[1] = "ECONNRESET"
           /\ peer[s] = "open" => outcome[1] = "ok"
           /\ outcome[1] \in {"ok", "EPIPE", "ECONNRESET"}
<1>1. peer[s] \in Peer
  BY DEF RioInv
<1>2. CASE peer[s] = "open"
  BY <1>2 DEF WriteOutcomes, Peer
<1>3. CASE peer[s] = "closed"
  BY <1>3 DEF WriteOutcomes, Peer
<1>4. CASE peer[s] = "bounced"
  BY <1>4 DEF WriteOutcomes, Peer
<1>5. CASE peer[s] = "reset"
  BY <1>5 DEF WriteOutcomes, Peer
<1>6. CASE peer[s] = "noticed"
  BY <1>6 DEF WriteOutcomes, Peer
<1> QED
  BY <1>1, <1>2, <1>3, <1>4, <1>5, <1>6 DEF Peer

\* A reply is written to the stream of a request.
LEMMA OneWrite ==
    ASSUME RioInv, sent \in [Requests -> Seq(Byte)], NEW s \in Requests, NEW bytes \in Seq(Byte),
           NEW outcome \in WriteOutcomes(s), Written(s, bytes, outcome), rio' = rio,
           ReplyTo(s) \in Streams => peer[ReplyTo(s)] = "open"
    PROVE  /\ StreamsStep /\ sent' \in [Requests -> Seq(Byte)]
           /\ \A p \in Streams \ {s} : peer'[p] = peer[p]
           /\ \A p \in Streams : p # ReplyTo(s) => kernel'[p] = kernel[p]
           /\ peer'[s] = "open" <=> peer[s] = "open"
<1>1. /\ outcome[2] \in Peer /\ (outcome[2] = "open" <=> peer[s] = "open")
      /\ peer[s] = "noticed" => outcome[2] = "noticed"
  BY WriteOutcome, Names
<1>2. /\ peer' = [p \in Streams |-> peer'[p]] /\ peer'[s] = outcome[2]
      /\ \A p \in Streams \ {s} : peer'[p] = peer[p]
  BY Names DEF Written, RioInv
<1>3. sent' \in [Requests -> Seq(Byte)]
  <2>1. sent[s] \o bytes \in Seq(Byte)
    BY ConcatProperties
  <2>2. sent' = [sent EXCEPT ![s] = IF outcome[1] = "ok" THEN sent[s] \o bytes ELSE sent[s]]
    BY DEF Written
  <2>3. (IF outcome[1] = "ok" THEN sent[s] \o bytes ELSE sent[s]) \in Seq(Byte)
    BY <2>1
  <2> QED
    BY <2>2, <2>3
<1>4. CASE outcome[1] = "ok" /\ peer[s] = "open" /\ ReplyTo(s) \in Streams
  <2> DEFINE q == ReplyTo(s)
  <2>1. kernel' = [kernel EXCEPT ![q] = kernel[q] \o bytes]
    BY <1>4 DEF Written
  <2>2. /\ kernel' = [p \in Streams |-> kernel'[p]] /\ kernel'[q] = kernel[q] \o bytes
        /\ \A p \in Streams \ {q} : kernel'[p] = kernel[p]
    BY <1>4, <2>1 DEF RioInv
  <2>3. peer' = peer
    BY <1>1, <1>2, <1>4 DEF RioInv
  <2>4. peer[q] = "open" => Growing(q)
    BY <2>2, <2>3 DEF Growing
  <2>5. \A p \in Streams \ {q} : Quiet(p)
    BY <2>2, <2>3 DEF Quiet
  <2>6. rio' = [p \in Streams |-> rio'[p]]
    BY DEF RioInv
  <2>7. peer[q] = "open"
    BY <1>4
  <2> QED
    BY <1>1, <1>2, <1>3, <1>4, <2>2, <2>4, <2>5, <2>6, <2>7, OneStream DEF StreamStep
<1>5. CASE ~(outcome[1] = "ok" /\ peer[s] = "open" /\ ReplyTo(s) \in Streams)
  <2>1. kernel' = kernel
    BY <1>5 DEF Written
  <2>2. Quiet(s) \/ Closing(s)
    BY <1>1, <1>2, <2>1, Names DEF Quiet, Closing, RioInv
  <2>3. \A p \in Streams \ {s} : Quiet(p)
    BY <1>2, <2>1 DEF Quiet
  <2>6. rio' = [p \in Streams |-> rio'[p]] /\ kernel' = [p \in Streams |-> kernel'[p]]
    BY <2>1 DEF RioInv
  <2> QED
    BY <1>1, <1>2, <1>3, <2>1, <2>2, <2>3, <2>6, OneStream, Names DEF StreamStep
<1> QED
  BY <1>4, <1>5
-----------------------------------------------------------------------------
\* The parts of the invariant, put together.
LEMMA Assembled ==
    ASSUME ControlInv, StreamsStep, TypeInv', OthersInv'
    PROVE  ControlInv'
<1>1. RioInv'
  BY RioKept DEF ControlInv
<1> QED
  BY <1>1 DEF ControlInv, OthersInv

\* tiny goes on, and nothing happens on the streams.
LEMMA TinyGoesOn ==
    ASSUME ControlInv, UNCHANGED <<proxyVars, clientVars>>,
           NEW call, TinyLike(call, tiny, call.pc), TinyGoOn(call),
           tiny.pc \notin {"accept", "down"}, call.pc \notin {"accept", "down"}, ~rio[tiny.s].calling
    PROVE  StreamsStep /\ ControlInv'
<1>1. /\ tiny' = call /\ kernel' = kernel /\ peer' = peer /\ rio' = rio /\ tinyQueue' = tinyQueue
      /\ sent' = sent /\ over' = over /\ proxy' = proxy /\ proxyQueue' = proxyQueue /\ asked' = asked
      /\ script' = script /\ phase' = phase
  BY DEF TinyGoOn, rioVars, connVars, proxyVars, clientVars
<1>2. StreamsStep
  BY <1>1, AllQuiet DEF ControlInv
<1>3. TypeInv'
  BY <1>1 DEF ControlInv, TypeInv, TinyLike
<1>4. TinyMoves
  BY <1>1 DEF TinyMoves, TinyLike, TinyIdle
<1> QED
  BY <1>2, <1>3, <1>4, TinyMovesKeeps, Assembled

\* tiny goes on, and calls Rio_readlineb.
LEMMA TinyCallsOn ==
    ASSUME ControlInv, UNCHANGED <<proxyVars, clientVars>>,
           NEW call, TinyLike(call, tiny, "headers"), Call(tiny.s, call),
           tiny.pc \notin {"accept", "down"}, ~rio[tiny.s].calling
    PROVE  StreamsStep /\ ControlInv'
<1>1. /\ tiny' = call /\ kernel' = kernel /\ peer' = peer /\ rio' = Called(tiny.s) /\ tinyQueue' = tinyQueue
      /\ sent' = sent /\ over' = over /\ proxy' = proxy /\ proxyQueue' = proxyQueue /\ asked' = asked
      /\ script' = script /\ phase' = phase
  BY DEF Call, connVars, proxyVars, clientVars
<1>5. tiny.s \in Streams
  BY Servers, Names DEF ControlInv, ServingInv
<1>2. StreamsStep /\ \A p \in Streams \ {tiny.s} : rio'[p] = rio[p]
  BY <1>1, <1>5, OneCall DEF ControlInv
<1>3. TypeInv'
  BY <1>1 DEF ControlInv, TypeInv, TinyLike
<1>4. TinyMoves
  BY <1>1, <1>2 DEF TinyMoves, TinyLike, TinyIdle
<1> QED
  BY <1>2, <1>3, <1>4, TinyMovesKeeps, Assembled

\* Who is affected when connections of tiny are closed.
LEMMA HangupIs ==
    ASSUME RioInv, NEW closed, NEW dropped, closed \subseteq Requests, dropped \subseteq Requests
    PROVE  LET h == Hangup(closed, dropped) IN
           /\ h = [p \in Streams |-> h[p]]
           /\ \A p \in Streams :
                \/ h[p] = peer[p]
                \/ /\ peer[p] = "open" /\ h[p] \in {"reset", "closed"}
                   /\ \E c \in Proxied : p = ReplyOf(c) /\ ForwardOf(c) \in closed \cup dropped
<1> DEFINE seen == [s \in closed \cup dropped |-> IF s \in dropped \/ kernel[s] # <<>> THEN "reset" ELSE "closed"]
           h == Hangup(closed, dropped)
           hit(p) == \E s \in DOMAIN seen : ReplyTo(s) = p /\ peer[p] = "open"
           by(p) == CHOOSE s \in DOMAIN seen : ReplyTo(s) = p
<1>1. h = [p \in Streams |-> IF hit(p) THEN seen[by(p)] ELSE peer[p]]
  BY DEF Hangup
<1>2. DOMAIN seen = closed \cup dropped /\ \A s \in closed \cup dropped : seen[s] \in {"reset", "closed"}
  OBVIOUS
<1> HIDE DEF seen, h
<1>3. h = [p \in Streams |-> h[p]]
  BY <1>1
<1>4. ASSUME NEW p \in Streams, hit(p)
      PROVE  /\ peer[p] = "open" /\ h[p] \in {"reset", "closed"}
             /\ \E c \in Proxied : p = ReplyOf(c) /\ ForwardOf(c) \in closed \cup dropped
  <2>1. PICK s \in closed \cup dropped : s = by(p) /\ ReplyTo(s) = p
    BY <1>2, <1>4
  <2>2. peer[p] = "open" /\ h[p] = seen[s]
    BY <1>1, <1>4, <2>1
  <2>3. s \in Requests /\ ReplyTo(s) # NoStream
    BY <2>1, Names
  <2>4. PICK c \in Proxied : s = ForwardOf(c)
    BY <2>3, Servers, Names
  <2> QED
    BY <1>2, <2>1, <2>2, <2>4, Names
<1>5. ASSUME NEW p \in Streams, ~hit(p) PROVE h[p] = peer[p]
  BY <1>1, <1>5
<1> HIDE DEF hit
<1>6. \A p \in Streams :
         \/ h[p] = peer[p]
         \/ /\ peer[p] = "open" /\ h[p] \in {"reset", "closed"}
            /\ \E c \in Proxied : p = ReplyOf(c) /\ ForwardOf(c) \in closed \cup dropped
  BY <1>4, <1>5
<1> QED
  BY <1>3, <1>6 DEF h

\* All that a server closes at once.
LEMMA ManyClosed ==
    ASSUME RioInv, kernel' = kernel, rio' = rio, peer' = [p \in Streams |-> peer'[p]],
           \A p \in Streams : peer'[p] = peer[p] \/ (peer[p] = "open" /\ peer'[p] \in {"reset", "closed"})
    PROVE  StreamsStep
<1>1. \A s \in Streams : Quiet(s) \/ Closing(s)
  BY DEF Quiet, Closing, Peer
<1>2. kernel' = [p \in Streams |-> kernel'[p]] /\ rio' = [p \in Streams |-> rio'[p]]
  BY DEF RioInv
<1> QED
  BY <1>1, <1>2 DEF StreamsStep, StreamStep

\* tiny has served a connection.
LEMMA TinyClosesKeeps ==
    ASSUME ControlInv, UNCHANGED <<proxyVars, clientVars>>, TinyCloses,
           tiny.pc \notin {"accept", "down"}, ~rio[tiny.s].calling
    PROVE  StreamsStep /\ ControlInv'
<1>1. /\ tiny' = NotServing /\ kernel' = kernel /\ rio' = rio /\ tinyQueue' = tinyQueue
      /\ over' = [over EXCEPT ![tiny.s] = "served"] /\ peer' = Hangup({tiny.s}, {})
      /\ sent' = sent /\ proxy' = proxy /\ proxyQueue' = proxyQueue /\ asked' = asked
      /\ script' = script /\ phase' = phase
  BY DEF TinyCloses, connVars, proxyVars, clientVars
<1>5. tiny.s \in Requests
  BY Servers, Names DEF ControlInv, ServingInv
<1>6. /\ peer' = [p \in Streams |-> peer'[p]]
      /\ \A p \in Streams :
           \/ peer'[p] = peer[p]
           \/ /\ peer[p] = "open" /\ peer'[p] \in {"reset", "closed"}
              /\ \E c \in Proxied : p = ReplyOf(c) /\ ForwardOf(c) = tiny.s
  <2>1. PICK closed, dropped : closed = {tiny.s} /\ dropped = {}
    OBVIOUS
  <2>2. RioInv /\ closed \subseteq Requests /\ dropped \subseteq Requests
    BY <1>5, <2>1 DEF ControlInv
  <2>3. peer' = Hangup(closed, dropped)
    BY <1>1, <2>1
  <2>4. LET h == peer' IN
           /\ h = [p \in Streams |-> h[p]]
           /\ \A p \in Streams :
                \/ h[p] = peer[p]
                \/ /\ peer[p] = "open" /\ h[p] \in {"reset", "closed"}
                   /\ \E c \in Proxied : p = ReplyOf(c) /\ ForwardOf(c) \in closed \cup dropped
    BY <2>2, <2>3, HangupIs
  <2> QED
    BY <2>1, <2>4
<1>2. StreamsStep
  BY <1>1, <1>6, ManyClosed DEF ControlInv
<1>3. TypeInv'
  <2>1. over' \in [Requests -> {"no", "served", "dropped"}]
    BY <1>1 DEF ControlInv, TypeInv
  <2> QED
    BY <1>1, <2>1, NotServingIs DEF ControlInv, TypeInv
<1>7. \A s \in Requests \ {tiny.s} : over'[s] = over[s]
  BY <1>1 DEF ControlInv, TypeInv
<1>4. TinyEnds
  BY <1>1, <1>6, <1>7, NotServingIs DEF TinyEnds
<1> QED
  BY <1>2, <1>3, <1>4, TinyEndsKeeps, Assembled

\* tiny goes down.
LEMMA TinyExitsKeeps ==
    ASSUME ControlInv, UNCHANGED <<proxyVars, clientVars>>, TinyExits,
           tiny.pc \notin {"accept", "down"}, ~rio[tiny.s].calling
    PROVE  StreamsStep /\ ControlInv'
<1>1. /\ tiny' = [tiny EXCEPT !.pc = "down"] /\ kernel' = kernel /\ rio' = rio /\ tinyQueue' = tinyQueue
      /\ over' = [s \in Requests |-> IF s = tiny.s \/ s \in ToSet(tinyQueue) THEN "dropped" ELSE over[s]]
      /\ peer' = Hangup({tiny.s}, ToSet(tinyQueue))
      /\ sent' = sent /\ proxy' = proxy /\ proxyQueue' = proxyQueue /\ asked' = asked
      /\ script' = script /\ phase' = phase
  BY DEF TinyExits, connVars, proxyVars, clientVars
<1>5. tiny.s \in Requests /\ ToSet(tinyQueue) \subseteq Requests
  BY Servers, Names DEF ControlInv, ServingInv, TinyQueueInv, TinyUp
<1>6. /\ peer' = [p \in Streams |-> peer'[p]]
      /\ \A p \in Streams :
           \/ peer'[p] = peer[p]
           \/ /\ peer[p] = "open" /\ peer'[p] \in {"reset", "closed"}
              /\ \E c \in Proxied : p = ReplyOf(c) /\ (ForwardOf(c) = tiny.s \/ ForwardOf(c) \in ToSet(tinyQueue))
  <2>1. PICK closed, dropped : closed = {tiny.s} /\ dropped = ToSet(tinyQueue)
    OBVIOUS
  <2>2. RioInv /\ closed \subseteq Requests /\ dropped \subseteq Requests
    BY <1>5, <2>1 DEF ControlInv
  <2>3. peer' = Hangup(closed, dropped)
    BY <1>1, <2>1
  <2>4. LET h == peer' IN
           /\ h = [p \in Streams |-> h[p]]
           /\ \A p \in Streams :
                \/ h[p] = peer[p]
                \/ /\ peer[p] = "open" /\ h[p] \in {"reset", "closed"}
                   /\ \E c \in Proxied : p = ReplyOf(c) /\ ForwardOf(c) \in closed \cup dropped
    BY <2>2, <2>3, HangupIs
  <2> QED
    BY <2>1, <2>4
<1>2. StreamsStep
  BY <1>1, <1>6, ManyClosed DEF ControlInv
<1>8. TinyLike(tiny', tiny, "down")
  <2>1. \A pc \in {"accept", "requestline", "headers", "write", "wait", "down"} :
           TinyLike([tiny EXCEPT !.pc = pc], tiny, pc)
    BY DEF ControlInv, TypeInv, TinyType, TinyLike
  <2> QED
    BY <1>1, <2>1
<1>3. TypeInv'
  <2>1. over' \in [Requests -> {"no", "served", "dropped"}]
    BY <1>1 DEF ControlInv, TypeInv
  <2> QED
    BY <1>1, <1>8, <2>1 DEF ControlInv, TypeInv, TinyLike
<1>7. \A s \in Requests \ {tiny.s} : s \notin ToSet(tinyQueue) => over'[s] = over[s]
  BY <1>1
<1>4. TinyEnds
  BY <1>1, <1>6, <1>7, <1>8 DEF TinyEnds, TinyLike
<1> QED
  BY <1>2, <1>3, <1>4, TinyEndsKeeps, Assembled
-----------------------------------------------------------------------------
\* tiny writes, itself or through the CGI program.
LEMMA TinyWritesOn ==
    ASSUME ControlInv, UNCHANGED <<proxyVars, clientVars>>, NEW t, TinyLike(t, tiny, "write"), tiny' = t,
           tiny.pc \in {"write", "wait"}, UNCHANGED <<rio, tinyQueue, over>>,
           NEW bytes \in Seq(Byte), NEW outcome \in WriteOutcomes(tiny.s), Written(tiny.s, bytes, outcome)
    PROVE  StreamsStep /\ ControlInv'
<1>1. /\ rio' = rio /\ tinyQueue' = tinyQueue
      /\ over' = over /\ proxy' = proxy /\ proxyQueue' = proxyQueue /\ asked' = asked
      /\ script' = script /\ phase' = phase
  BY DEF proxyVars, clientVars
<1>5. tiny.s \in TinysRequests /\ tiny.s \in Requests
  BY Servers DEF ControlInv, ServingInv
<1>6. ReplyTo(tiny.s) \in Streams => peer[ReplyTo(tiny.s)] = "open"
  <2> SUFFICES ASSUME ReplyTo(tiny.s) \in Streams PROVE peer[ReplyTo(tiny.s)] = "open"
    OBVIOUS
  <2>1. PICK c \in Proxied : tiny.s = ForwardOf(c)
    BY <1>5, Servers, Names
  <2>2. TinyUp /\ TinyAt(ForwardOf(c))
    BY <2>1 DEF TinyUp, TinyAt
  <2> QED
    BY <2>1, <2>2, Names DEF ControlInv, PeerInv
<1>2. /\ StreamsStep /\ sent' \in [Requests -> Seq(Byte)]
      /\ \A p \in Streams \ {tiny.s} : peer'[p] = peer[p]
      /\ \A p \in Streams : p # ReplyTo(tiny.s) => kernel'[p] = kernel[p]
      /\ peer'[tiny.s] = "open" <=> peer[tiny.s] = "open"
  BY <1>1, <1>5, <1>6, OneWrite DEF ControlInv, TypeInv
<1>3. TypeInv'
  BY <1>1, <1>2 DEF ControlInv, TypeInv, TinyLike
<1>7. ~rio[tiny.s].calling
  BY <1>5 DEF ControlInv, CallingInv
<1>4. TinyMoves
  BY <1>1, <1>2, <1>7 DEF TinyMoves, TinyLike, TinyIdle
<1> QED
  BY <1>2, <1>3, <1>4, TinyMovesKeeps, Assembled

\* Whatever tiny does, its streams are as they should be and the invariant stays.
LEMMA TinyKeeps ==
    ASSUME ControlInv, TinyStep, UNCHANGED <<proxyVars, clientVars>>
    PROVE  StreamsStep /\ ControlInv'
<1>0. RioInv /\ TypeInv /\ tiny \in TinyType
  BY DEF ControlInv, TypeInv
<1>1. CASE TinyAccept
  BY <1>1, TinyAcceptKeeps
<1>2. CASE TinyRequestLine
  <2>1. tiny.pc = "requestline" /\ ~rio[tiny.s].calling
    BY <1>2 DEF TinyRequestLine
  <2>2. CASE TinyCloses
    BY <2>1, <2>2, TinyClosesKeeps
  <2>3. CASE TinyExits
    BY <2>1, <2>3, TinyExitsKeeps
  <2>4. CASE TinyGoOn([tiny EXCEPT !.pc = "write", !.out = clienterror, !.then = "close"])
    <3>1. PICK out \in Seq(Seq(Byte)) :
            out = clienterror
      BY TinyWrites
    <3>1a. PICK call : call = [tiny EXCEPT !.pc = "write", !.out = out, !.then = "close"]
      OBVIOUS
    <3>2. TinyLike(call, tiny, "write")
      BY <1>0, <3>1, <3>1a, TinyFormOut
    <3>3. TinyGoOn(call)
      BY <2>4, <3>1, <3>1a
    <3> QED
      BY <2>1, <3>2, <3>3, TinyGoesOn DEF TinyLike
  <2>5. CASE \E file :
               Call(tiny.s, [tiny EXCEPT !.pc = "headers", !.first = TRUE,
                                         !.out = ReplyFor(file).out, !.then = ReplyFor(file).then])
    <3>1. PICK out \in Seq(Seq(Byte)), then \in {"none", "close", "mmap", "wait"} :
            Call(tiny.s, [tiny EXCEPT !.pc = "headers", !.first = TRUE, !.out = out, !.then = then])
      BY <2>5, TinyWrites
    <3>1a. PICK call : call = [tiny EXCEPT !.pc = "headers", !.first = TRUE, !.out = out, !.then = then]
      OBVIOUS
    <3>2. TinyLike(call, tiny, "headers")
      BY <1>0, <3>1, <3>1a, TinyFormHeaders
    <3> QED
      BY <2>1, <3>1, <3>1a, <3>2, TinyCallsOn
  <2> QED
    BY <1>2, <2>2, <2>3, <2>4, <2>5 DEF TinyRequestLine
<1>3. CASE TinyHeaders
  <2>1. tiny.pc = "headers" /\ ~rio[tiny.s].calling
    BY <1>3 DEF TinyHeaders
  <2>3. CASE TinyExits
    BY <2>1, <2>3, TinyExitsKeeps
  <2>4. CASE TinyGoOn([tiny EXCEPT !.pc = "write"])
    <3>1. PICK call : call = [tiny EXCEPT !.pc = "write"]
      OBVIOUS
    <3>2. TinyLike(call, tiny, "write")
      BY <1>0, <3>1, TinyFormPc
    <3>3. TinyGoOn(call)
      BY <2>4, <3>1
    <3> QED
      BY <2>1, <3>2, <3>3, TinyGoesOn DEF TinyLike
  <2>5. CASE TinyGoOn([tiny EXCEPT !.first = FALSE])
    <3>1. PICK call : call = [tiny EXCEPT !.first = FALSE]
      OBVIOUS
    <3>2. TinyLike(call, tiny, "headers")
      BY <1>0, <2>1, <3>1, TinyFormFirst
    <3>3. TinyGoOn(call)
      BY <2>5, <3>1
    <3> QED
      BY <2>1, <3>2, <3>3, TinyGoesOn DEF TinyLike
  <2>6. CASE Call(tiny.s, [tiny EXCEPT !.first = FALSE])
    <3>1. PICK call : call = [tiny EXCEPT !.first = FALSE]
      OBVIOUS
    <3>2. TinyLike(call, tiny, "headers")
      BY <1>0, <2>1, <3>1, TinyFormFirst
    <3>3. Call(tiny.s, call)
      BY <2>6, <3>1
    <3> QED
      BY <2>1, <3>2, <3>3, TinyCallsOn
  <2> QED
    BY <1>3, <2>3, <2>4, <2>5, <2>6 DEF TinyHeaders
<1>4. CASE TinyWrite
  <2>1. tiny.pc = "write" /\ tiny.out # <<>> /\ ~rio[tiny.s].calling
    BY <1>4 DEF TinyWrite, ControlInv, CallingInv, ServingInv
  <2>2. PICK outcome \in WriteOutcomes(tiny.s) :
         \/ /\ outcome[1] = "ok"
            /\ Written(tiny.s, Head(tiny.out), outcome)
            /\ tiny' = [tiny EXCEPT !.out = Tail(tiny.out)]
            /\ UNCHANGED <<rio, tinyQueue, over>>
         \/ outcome[1] # "ok" /\ TinyExits
    BY <1>4 DEF TinyWrite
  <2>3. CASE TinyExits
    BY <2>1, <2>3, TinyExitsKeeps
  <2>4. CASE /\ Written(tiny.s, Head(tiny.out), outcome)
             /\ tiny' = [tiny EXCEPT !.out = Tail(tiny.out)]
             /\ UNCHANGED <<rio, tinyQueue, over>>
    <3>1. tiny.out \in Seq(Seq(Byte))
      BY <1>0 DEF TinyType
    <3>2. PICK rest \in Seq(Seq(Byte)), bytes \in Seq(Byte) :
            /\ rest = Tail(tiny.out) /\ bytes = Head(tiny.out)
      <4>1. \A q \in Seq(Seq(Byte)) : q # <<>> => Tail(q) \in Seq(Seq(Byte)) /\ Head(q) \in Seq(Byte)
        OBVIOUS
      <4>2. Tail(tiny.out) \in Seq(Seq(Byte)) /\ Head(tiny.out) \in Seq(Byte)
        BY <2>1, <3>1, <4>1
      <4> QED
        BY <4>2
    <3>2a. PICK t : t = [tiny EXCEPT !.out = rest]
      OBVIOUS
    <3>3. TinyLike(t, tiny, "write")
      BY <1>0, <2>1, <3>2, <3>2a, TinyFormRest
    <3>4. tiny' = t /\ Written(tiny.s, bytes, outcome)
      BY <2>4, <3>2, <3>2a
    <3> QED
      BY <2>1, <2>4, <3>3, <3>4, TinyWritesOn
  <2> QED
    BY <2>2, <2>3, <2>4
<1>5. CASE TinyFinish
  <2>1. tiny.pc = "write" /\ ~rio[tiny.s].calling
    BY <1>5 DEF TinyFinish, ControlInv, CallingInv, ServingInv
  <2>2. CASE TinyCloses
    BY <2>1, <2>2, TinyClosesKeeps
  <2>3. CASE TinyExits
    BY <2>1, <2>3, TinyExitsKeeps
  <2>4. CASE TinyGoOn([tiny EXCEPT !.pc = "wait"])
    <3>1. PICK call : call = [tiny EXCEPT !.pc = "wait"]
      OBVIOUS
    <3>2. TinyLike(call, tiny, "wait")
      BY <1>0, <3>1, TinyFormPc
    <3>3. TinyGoOn(call)
      BY <2>4, <3>1
    <3> QED
      BY <2>1, <3>2, <3>3, TinyGoesOn DEF TinyLike
  <2> QED
    BY <1>5, <2>2, <2>3, <2>4 DEF TinyFinish
<1>6. CASE CgiProgram
  <2>1. /\ tiny.pc = "wait" /\ ~rio[tiny.s].calling /\ UNCHANGED <<rio, tinyQueue, over>>
    BY <1>6 DEF CgiProgram, ControlInv, CallingInv, ServingInv
  <2>2. PICK t : t = [tiny EXCEPT !.pc = "write", !.then = "close"]
    OBVIOUS
  <2>3. TinyLike(t, tiny, "write") /\ tiny' = t
    BY <1>0, <1>6, <2>2, TinyFormThen DEF CgiProgram
  <2>4. CASE \E outcome \in WriteOutcomes(tiny.s) : Written(tiny.s, <<"sum">>, outcome)
    <3>1. <<"sum">> \in Seq(Byte)
      <4>1. "sum" \in Byte
        BY DEF Byte
      <4> QED
        BY <4>1
    <3>2. PICK bytes \in Seq(Byte) : bytes = <<"sum">>
      BY <3>1
    <3>3. PICK outcome \in WriteOutcomes(tiny.s) : Written(tiny.s, bytes, outcome)
      BY <2>4, <3>2
    <3> QED
      BY <2>1, <2>3, <3>3, TinyWritesOn
  <2>5. CASE UNCHANGED <<kernel, peer, sent>>
    <3>1. TinyGoOn(t)
      BY <2>1, <2>3, <2>5 DEF TinyGoOn, rioVars, connVars
    <3> QED
      BY <2>1, <2>3, <3>1, TinyGoesOn DEF TinyLike
  <2> QED
    BY <1>6, <2>4, <2>5 DEF CgiProgram
<1>7. CASE tiny.pc \in {"requestline", "headers"} /\ Read(tiny.s) /\ UNCHANGED <<tinyVars, connVars>>
  <2>1. /\ tiny' = tiny /\ tinyQueue' = tinyQueue
        /\ sent' = sent /\ over' = over /\ proxy' = proxy /\ proxyQueue' = proxyQueue /\ asked' = asked
        /\ script' = script /\ phase' = phase
    BY <1>7 DEF tinyVars, connVars, proxyVars, clientVars
  <2>2. tiny.s \in Streams
    BY <1>7, Servers, Names DEF ControlInv, ServingInv
  <2>3. /\ StreamsStep /\ rio[tiny.s].calling
        /\ \A p \in Streams \ {tiny.s} : Quiet(p)
        /\ peer'[tiny.s] = "open" <=> peer[tiny.s] = "open"
        /\ kernel[tiny.s] # <<>> \/ peer[tiny.s] # "open"
    BY <1>0, <1>7, <2>2, OneRead
  <2>4. TypeInv'
    BY <1>0, <2>1 DEF TypeInv
  <2>5. TinyMoves
    BY <1>7, <2>1, <2>3 DEF TinyMoves, TinyIdle, Quiet
  <2> QED
    BY <2>3, <2>4, <2>5, TinyMovesKeeps, Assembled
<1> QED
  BY <1>1, <1>2, <1>3, <1>4, <1>5, <1>6, <1>7 DEF TinyStep
-----------------------------------------------------------------------------
\* The streams that the proxy reads, or writes to the other end of, as it goes on
\* with the client that it serves.
AtHand(p) == p = Here \/ (p = ReplyOf(proxy.c) /\ PastConnect(proxy))

\* The proxy goes on with its client, other than to connect or to send.
ProxyMoves ==
    /\ proxy.pc \notin {"accept", "send", "down"} /\ proxy'.pc \notin {"accept", "send", "down"}
    /\ proxy'.c = proxy.c /\ (PastConnect(proxy') <=> PastConnect(proxy))
    /\ tiny' = tiny /\ tinyQueue' = tinyQueue /\ over' = over /\ proxyQueue' = proxyQueue
    /\ asked' = asked /\ script' = script /\ phase' = phase
    /\ \A p \in Streams : ~AtHand(p) => Quiet(p)
    /\ \A p \in Streams : peer'[p] = "open" <=> peer[p] = "open"
    /\ rio'[Here].calling => proxy'.pc \in {"requestline", "headers"}
    /\ rio'[ReplyOf(proxy.c)].calling => proxy'.pc = "relay"

\* Such a step of the proxy keeps the invariant.
LEMMA ProxyMovesKeeps ==
    ASSUME ControlInv, ProxyMoves
    PROVE  OthersInv'
<1>1. /\ proxy.pc \notin {"accept", "send", "down"} /\ proxy'.pc \notin {"accept", "send", "down"}
      /\ proxy'.c = proxy.c /\ (PastConnect(proxy') <=> PastConnect(proxy))
      /\ tiny' = tiny /\ tinyQueue' = tinyQueue /\ over' = over /\ proxyQueue' = proxyQueue
      /\ asked' = asked /\ script' = script /\ phase' = phase
      /\ rio'[Here].calling => proxy'.pc \in {"requestline", "headers"}
      /\ rio'[ReplyOf(proxy.c)].calling => proxy'.pc = "relay"
  BY DEF ProxyMoves
<1>2. \A p \in Streams : ~AtHand(p) => kernel'[p] = kernel[p] /\ peer'[p] = peer[p] /\ rio'[p] = rio[p]
  BY DEF ProxyMoves, Quiet
<1>3. \A p \in Streams : peer'[p] = "open" <=> peer[p] = "open"
  BY DEF ProxyMoves
<1>4. proxy.c \in Proxied
  BY <1>1 DEF ControlInv, ServingInv
<1>5. /\ \A c \in Clients : c # proxy.c => ~AtHand(RequestOf(c))
      /\ \A c \in Proxied : ~AtHand(ForwardOf(c)) /\ (c # proxy.c => ~AtHand(ReplyOf(c)))
      /\ ~PastConnect(proxy) => ~AtHand(ReplyOf(proxy.c))
      /\ \A s \in TinysRequests : ~AtHand(s)
  <2>1. \A c \in Clients : c # proxy.c => ~AtHand(RequestOf(c))
    BY <1>4, Names DEF AtHand, Here
  <2>2. \A c \in Proxied : ~AtHand(ForwardOf(c)) /\ (c # proxy.c => ~AtHand(ReplyOf(c)))
    BY <1>4, Names DEF AtHand, Here
  <2>3. ~PastConnect(proxy) => ~AtHand(ReplyOf(proxy.c))
    BY <1>4, Names DEF AtHand, Here
  <2>4. \A s \in TinysRequests : ~AtHand(s)
    BY <1>4, Servers, Names DEF AtHand, Here
  <2> QED
    BY <2>1, <2>2, <2>3, <2>4
<1>6. /\ \A s : TinyAt(s)' <=> TinyAt(s)
      /\ \A c : ProxyAt(c)' <=> ProxyAt(c)
      /\ \A c : Connected(c)' <=> Connected(c)
  BY <1>1 DEF TinyAt, ProxyAt, Connected
<1>14. NewInv'
  <2> SUFFICES ASSUME NEW c \in Clients, phase'[c] = "new"
               PROVE  /\ RequestOf(c) \notin ToSet(tinyQueue') /\ RequestOf(c) \notin ToSet(proxyQueue')
                      /\ ~TinyAt(RequestOf(c))' /\ ~ProxyAt(c)'
                      /\ Untouched(RequestOf(c))' /\ over'[RequestOf(c)] = "no"
    BY DEF NewInv
  <2>1. /\ RequestOf(c) \notin ToSet(tinyQueue) /\ RequestOf(c) \notin ToSet(proxyQueue)
        /\ ~TinyAt(RequestOf(c)) /\ ~ProxyAt(c) /\ Untouched(RequestOf(c)) /\ over[RequestOf(c)] = "no"
    BY <1>1 DEF ControlInv, NewInv
  <2>2. c # proxy.c /\ RequestOf(c) \in Streams
    BY <2>1, <1>1, Names DEF ProxyAt
  <2>3. ~AtHand(RequestOf(c))
    BY <2>2, <1>5
  <2> QED
    BY <2>1, <2>2, <2>3, <1>1, <1>2, <1>6 DEF Untouched
<1>15. UnconnectedInv'
  <2> SUFFICES ASSUME NEW c \in Proxied, over'[RequestOf(c)] = "no", ~Connected(c)'
               PROVE  /\ ForwardOf(c) \notin ToSet(tinyQueue') /\ ~TinyAt(ForwardOf(c))'
                      /\ Untouched(ForwardOf(c))' /\ Untouched(ReplyOf(c))' /\ asked'[c] = <<>>
    BY DEF UnconnectedInv
  <2>1. /\ ForwardOf(c) \notin ToSet(tinyQueue) /\ ~TinyAt(ForwardOf(c))
        /\ Untouched(ForwardOf(c)) /\ Untouched(ReplyOf(c)) /\ asked[c] = <<>>
    BY <1>1, <1>6 DEF ControlInv, UnconnectedInv
  <2>2. ~AtHand(ForwardOf(c)) /\ ~AtHand(ReplyOf(c)) /\ ForwardOf(c) \in Streams /\ ReplyOf(c) \in Streams
    BY <1>5, <1>6, Names DEF Connected
  <2> QED
    BY <2>1, <2>2, <1>1, <1>2, <1>6 DEF Untouched
<1>16. TinyQueueInv'
  BY <1>1, <1>2, <1>5, <1>6, Servers, Names DEF ControlInv, TinyQueueInv, TinyUp
<1>17. ProxyQueueInv'
  <2>1. /\ Distinct(proxyQueue) /\ ToSet(proxyQueue) \subseteq ProxysRequests
        /\ \A c \in Proxied : RequestOf(c) \in ToSet(proxyQueue) =>
             ~ProxyAt(c) /\ rio[RequestOf(c)] = NoCall /\ over[RequestOf(c)] = "no"
    BY <1>1 DEF ControlInv, ProxyQueueInv, ProxyUp
  <2>2. \A c \in Proxied : RequestOf(c) \in ToSet(proxyQueue) => rio'[RequestOf(c)] = rio[RequestOf(c)]
    BY <2>1, <1>1, <1>2, <1>5, Names DEF ProxyAt
  <2> QED
    BY <2>1, <2>2, <1>1, <1>6 DEF ProxyQueueInv
<1>18. ServingInv'
  BY <1>1 DEF ControlInv, ServingInv, Here
<1>19. CallingInv'
  <2>1. \A c \in Proxied : rio'[RequestOf(c)].calling => proxy'.pc \in {"requestline", "headers"} /\ proxy'.c = c
    BY <1>1, <1>2, <1>5, Names DEF ControlInv, CallingInv, Here
  <2>2. \A c \in Proxied : rio'[ReplyOf(c)].calling => proxy'.pc = "relay" /\ proxy'.c = c
    BY <1>1, <1>2, <1>5, Names DEF ControlInv, CallingInv
  <2>3. \A s \in TinysRequests : rio'[s].calling => tiny'.pc \in {"requestline", "headers"} /\ tiny'.s = s
    BY <1>1, <1>2, <1>5, Servers, Names DEF ControlInv, CallingInv
  <2> QED
    BY <2>1, <2>2, <2>3 DEF CallingInv
<1>20. PeerInv'
  BY <1>1, <1>3, <1>6, Names DEF ControlInv, PeerInv, ProxyUp, TinyUp
<1>21. SendInv'
  BY <1>1 DEF SendInv
<1> QED
  BY <1>14, <1>15, <1>16, <1>17, <1>18, <1>19, <1>20, <1>21 DEF OthersInv

\* The proxy is done with its client, or goes down.
ProxyEnds ==
    /\ proxy.pc \notin {"accept", "down"}
    /\ ~rio[Here].calling /\ ~rio[ReplyOf(proxy.c)].calling
    /\ proxy'.pc = "accept" \/ (proxy'.pc = "down" /\ proxy'.c = proxy.c)
    /\ tiny' = tiny /\ tinyQueue' = tinyQueue /\ kernel' = kernel /\ rio' = rio /\ proxyQueue' = proxyQueue
    /\ asked' = asked /\ script' = script /\ phase' = phase
    /\ over'[Here] # "no"
    /\ \A s \in Requests \ {Here} : s \notin ToSet(proxyQueue) \/ proxy'.pc = "accept" => over'[s] = over[s]
    /\ \A s \in Requests : over'[s] = "no" => over[s] = "no"
    /\ \A p \in Streams : peer'[p] = peer[p] \/ (p = ForwardOf(proxy.c) /\ proxy'.pc = "down")

\* Such a step keeps it, too.
LEMMA ProxyEndsKeeps ==
    ASSUME ControlInv, ProxyEnds
    PROVE  OthersInv'
<1>1. /\ proxy.pc \notin {"accept", "down"}
      /\ ~rio[Here].calling /\ ~rio[ReplyOf(proxy.c)].calling
      /\ proxy'.pc = "accept" \/ (proxy'.pc = "down" /\ proxy'.c = proxy.c)
      /\ tiny' = tiny /\ tinyQueue' = tinyQueue /\ kernel' = kernel /\ rio' = rio /\ proxyQueue' = proxyQueue
      /\ asked' = asked /\ script' = script /\ phase' = phase
      /\ over'[Here] # "no"
  BY DEF ProxyEnds
<1>2. \A s \in Requests \ {Here} : s \notin ToSet(proxyQueue) => over'[s] = over[s]
  BY DEF ProxyEnds
<1>3. proxy'.pc = "accept" => \A s \in Requests \ {Here} : over'[s] = over[s]
  BY DEF ProxyEnds
<1>4. proxy.c \in Proxied /\ Here \in Requests
  BY <1>1, Names DEF ControlInv, ServingInv, Here
<1>5. /\ \A p \in Streams : p # ForwardOf(proxy.c) \/ proxy'.pc = "accept" => peer'[p] = peer[p]
  BY <1>1 DEF ProxyEnds
<1>7. /\ Distinct(proxyQueue) /\ ToSet(proxyQueue) \subseteq ProxysRequests
      /\ \A c \in Proxied : RequestOf(c) \in ToSet(proxyQueue) =>
             ~ProxyAt(c) /\ rio[RequestOf(c)] = NoCall /\ over[RequestOf(c)] = "no"
  BY <1>1 DEF ControlInv, ProxyQueueInv, ProxyUp
<1>6. /\ \A s : TinyAt(s)' <=> TinyAt(s)
      /\ \A c : ProxyAt(c)' => ProxyAt(c)
  BY <1>1 DEF TinyAt, ProxyAt
<1>8. \A s \in Requests : over'[s] = "no" => over[s] = "no" /\ s # Here
  BY <1>1 DEF ProxyEnds
<1>14. NewInv'
  <2> SUFFICES ASSUME NEW c \in Clients, phase'[c] = "new"
               PROVE  /\ RequestOf(c) \notin ToSet(tinyQueue') /\ RequestOf(c) \notin ToSet(proxyQueue')
                      /\ ~TinyAt(RequestOf(c))' /\ ~ProxyAt(c)'
                      /\ Untouched(RequestOf(c))' /\ over'[RequestOf(c)] = "no"
    BY DEF NewInv
  <2>1. /\ RequestOf(c) \notin ToSet(tinyQueue) /\ RequestOf(c) \notin ToSet(proxyQueue)
        /\ ~TinyAt(RequestOf(c)) /\ ~ProxyAt(c) /\ Untouched(RequestOf(c)) /\ over[RequestOf(c)] = "no"
    BY <1>1 DEF ControlInv, NewInv
  <2>2. c # proxy.c /\ RequestOf(c) # ForwardOf(proxy.c) /\ RequestOf(c) # Here /\ RequestOf(c) \in Requests
    BY <2>1, <1>1, <1>4, Names DEF ProxyAt, Here
  <2>3. over'[RequestOf(c)] = over[RequestOf(c)] /\ peer'[RequestOf(c)] = peer[RequestOf(c)]
    BY <2>1, <2>2, <1>2, <1>5, Names
  <2> QED
    BY <2>1, <2>3, <1>1, <1>6 DEF Untouched
<1>15. UnconnectedInv'
  <2> SUFFICES ASSUME NEW c \in Proxied, over'[RequestOf(c)] = "no", ~Connected(c)'
               PROVE  /\ ForwardOf(c) \notin ToSet(tinyQueue') /\ ~TinyAt(ForwardOf(c))'
                      /\ Untouched(ForwardOf(c))' /\ Untouched(ReplyOf(c))' /\ asked'[c] = <<>>
    BY DEF UnconnectedInv
  <2>0. c # proxy.c /\ over[RequestOf(c)] = "no"
    BY <1>8, Names DEF Here
  <2>1. /\ ForwardOf(c) \notin ToSet(tinyQueue) /\ ~TinyAt(ForwardOf(c))
        /\ Untouched(ForwardOf(c)) /\ Untouched(ReplyOf(c)) /\ asked[c] = <<>>
    BY <2>0 DEF ControlInv, UnconnectedInv, Connected
  <2>2. peer'[ForwardOf(c)] = peer[ForwardOf(c)] /\ peer'[ReplyOf(c)] = peer[ReplyOf(c)]
    BY <2>0, <1>4, <1>5, Names
  <2> QED
    BY <2>1, <2>2, <1>1, <1>6 DEF Untouched
<1>16. TinyQueueInv'
  BY <1>1, <1>6 DEF ControlInv, TinyQueueInv, TinyUp
<1>17. ProxyQueueInv'
  <2> SUFFICES ASSUME proxy'.pc = "accept" PROVE ProxyQueueInv'
    BY <1>1 DEF ProxyQueueInv, ProxyUp
  <2>2. \A c \in Proxied : RequestOf(c) \in ToSet(proxyQueue) => over'[RequestOf(c)] = over[RequestOf(c)]
    BY <1>1, <1>3, <1>4, <1>7, Names DEF ProxyAt, Here
  <2> QED
    BY <2>2, <1>1, <1>6, <1>7 DEF ProxyQueueInv
<1>18. ServingInv'
  BY <1>1 DEF ControlInv, ServingInv
<1>19. CallingInv'
  BY <1>1 DEF ControlInv, CallingInv, Here
<1>20. PeerInv'
  <2>1. \A c \in Clients : peer'[RequestOf(c)] = peer[RequestOf(c)]
    BY <1>4, <1>5, Names
  <2>2. \A c \in Proxied : peer'[ReplyOf(c)] = peer[ReplyOf(c)]
    BY <1>4, <1>5, Names
  <2>3. ProxyUp' => \A c \in Proxied : peer'[ForwardOf(c)] = peer[ForwardOf(c)]
    BY <1>1, <1>5, Names DEF ProxyUp
  <2> QED
    BY <2>1, <2>2, <2>3, <1>1, <1>6 DEF ControlInv, PeerInv, ProxyUp, TinyUp
<1>21. SendInv'
  BY <1>1 DEF SendInv
<1> QED
  BY <1>14, <1>15, <1>16, <1>17, <1>18, <1>19, <1>20, <1>21 DEF OthersInv
-----------------------------------------------------------------------------
\* Strings are bytes, alone and in sequences.
LEMMA Strings ==
    /\ \A x \in Seq(STRING) : x \in Seq(Byte)
    /\ \A at \in Addresses : at \in ProxyAddress
    /\ CRLF \in Seq(Byte) /\ \A b \in Byte : <<b>> \o CRLF \in Seq(Byte)
    /\ Added \in Seq(Byte)
    /\ reply_client_error \in Seq(Seq(Byte)) /\ <<>> \in Seq(Seq(Byte))
    /\ \A text \in DOMAIN RequestLines :
         RequestLines[text].at \in ProxyAddress /\ RequestLines[text].file \in Byte
<1>1. STRING \subseteq Byte
  BY DEF Byte
<1>2. \A x \in Seq(STRING) : x \in Seq(Byte)
  <2>1. \A S, T : S \subseteq T => \A x \in Seq(S) : x \in Seq(T)
    OBVIOUS
  <2>2. PICK S : S = STRING
    OBVIOUS
  <2> QED
    BY <1>1, <2>1, <2>2, Zenon
<1>3. "cr" \in Byte /\ "lf" \in Byte /\ "501" \in Byte /\ "html" \in Byte
  BY DEF Byte
<1>4. CRLF \in Seq(Byte) /\ \A b \in Byte : <<b>> \o CRLF \in Seq(Byte)
  BY <1>3 DEF CRLF
<1>5. reply_client_error \in Seq(Seq(Byte))
  <2>1. \A a \in Byte : <<a>> \in Seq(Byte)
    OBVIOUS
  <2>2. \A x, y \in Seq(Byte) : <<x, y>> \in Seq(Seq(Byte))
    OBVIOUS
  <2> QED
    BY <1>3, <2>1, <2>2 DEF reply_client_error
<1>6. Added \in Seq(Byte)
  BY <1>2, RequestPathAssumption
<1>7. \A text \in DOMAIN RequestLines :
         RequestLines[text].at \in Addresses /\ RequestLines[text].file \in STRING
  BY RequestPathAssumption
<1>10. \A at \in Addresses : at \in ProxyAddress
  <2> SUFFICES ASSUME NEW at \in Addresses PROVE at \in ProxyAddress
    OBVIOUS
  <2>1. at = [host |-> at.host, port |-> at.port] /\ at.host \in Seq(STRING) /\ at.port \in Seq(STRING)
    BY DEF Addresses
  <2>2. at.host \in Seq(Byte) /\ at.port \in Seq(Byte)
    BY <1>2, <2>1, Zenon
  <2> QED
    BY <2>1, <2>2 DEF ProxyAddress
<1>8. \A text \in DOMAIN RequestLines :
         RequestLines[text].at \in ProxyAddress /\ RequestLines[text].file \in Byte
  BY <1>1, <1>7, <1>10, Zenon
<1>9. <<>> \in Seq(Seq(Byte))
  OBVIOUS
<1> QED
  BY <1>2, <1>4, <1>5, <1>6, <1>8, <1>9, <1>10, Zenon

\* What the proxy takes from a line is one of the texts that there are.
LEMMA TextsKnown ==
    ASSUME NEW line
    PROVE  Texts(line) \subseteq DOMAIN RequestLines
<1>1. "other" \in DOMAIN RequestLines
  BY RequestPathAssumption
<1> QED
  BY <1>1 DEF Texts

\* A name in an array, with what may stand behind it.
LEMMA CopiedType ==
    ASSUME NEW old \in Seq(Byte), NEW name \in Seq(Byte), NEW copy \in strncpy(name, old)
    PROVE  copy \in Seq(Byte)
<1>1. PICK tail \in {<<>>, SubSeq(old, Len(name) + 1, Len(old))} : copy = name \o tail
  BY DEF strncpy
<1>2. tail \in Seq(Byte)
  <2>1. \A h \in Seq(Byte), m \in Nat : SubSeq(h, m + 1, Len(h)) \in Seq(Byte)
    OBVIOUS
  <2>2. Len(name) \in Nat
    OBVIOUS
  <2>3. SubSeq(old, Len(name) + 1, Len(old)) \in Seq(Byte)
    BY <2>1, <2>2
  <2>4. <<>> \in Seq(Byte)
    OBVIOUS
  <2> QED
    BY <2>3, <2>4
<1> QED
  BY <1>1, <1>2, ConcatProperties

\* The two arrays, each by itself.
LEMMA ParsedParts ==
    ASSUME NEW name, NEW at \in parse_uri(name)
    PROVE  /\ at = [host |-> at.host, port |-> at.port]
           /\ at.host \in strncpy(name.host, proxy.at.host)
           /\ at.port \in strncpy(name.port, proxy.at.port)
  BY DEF parse_uri

\* What parse_uri leaves in them.
LEMMA ParsedType ==
    ASSUME proxy.at \in ProxyAddress, NEW name \in ProxyAddress, NEW at \in parse_uri(name)
    PROVE  at \in ProxyAddress
<1>1. /\ proxy.at.host \in Seq(Byte) /\ proxy.at.port \in Seq(Byte)
      /\ name.host \in Seq(Byte) /\ name.port \in Seq(Byte)
  BY DEF ProxyAddress
<1>2. at.host \in Seq(Byte) /\ at.port \in Seq(Byte)
  BY <1>1, ParsedParts, CopiedType
<1> QED
  BY <1>2, ParsedParts DEF ProxyAddress

\* A request with the headers that it lacks.
LEMMA WithAddedType ==
    ASSUME NEW request \in Seq(Byte)
    PROVE  WithAdded(request) \in Seq(Byte)
<1> DEFINE q == [k \in DOMAIN Added |-> IF Added[k] \in ToSet(request) THEN <<>> ELSE <<Added[k]>> \o CRLF]
<1>1. q \in Seq(Seq(Byte))
  <2>1. \A k \in DOMAIN Added : q[k] \in Seq(Byte)
    <3> SUFFICES ASSUME NEW k \in DOMAIN Added PROVE q[k] \in Seq(Byte)
      OBVIOUS
    <3>1. <<Added[k]>> \o CRLF \in Seq(Byte)
      BY Strings
    <3>2. <<>> \in Seq(Byte)
      OBVIOUS
    <3> QED
      BY <3>1, <3>2
  <2>2. DOMAIN Added = 1..Len(Added) /\ Len(Added) \in Nat
    BY Strings
  <2>3. q \in [1..Len(Added) -> Seq(Byte)]
    BY <2>1, <2>2
  <2> HIDE DEF q
  <2> QED
    BY <2>2, <2>3
<1> HIDE DEF q
<1>2. PICK f \in Seq(Byte) : f = FlattenSeq(q)
  BY <1>1, FlattenType
<1>3. WithAdded(request) = request \o f \o CRLF
  BY <1>2 DEF WithAdded, q
<1> QED
  BY <1>3, Strings, ConcatProperties

\* The forms in which the proxy changes.
ProxyLike(q, p, pc, then) == q \in ProxyType /\ q.c = p.c /\ q.pc = pc /\ q.then = then

\* To a place in the code.
LEMMA ProxyFormPc ==
    ASSUME NEW p \in ProxyType,
           NEW pc \in {"accept", "requestline", "write", "headers", "connect", "send", "relay", "down"}
    PROVE  ProxyLike([p EXCEPT !.pc = pc], p, pc, p.then)
  BY DEF ProxyType, ProxyLike

\* To write what is given.
LEMMA ProxyFormOut ==
    ASSUME NEW p \in ProxyType, NEW out \in Seq(Seq(Byte)), NEW then \in {"none", "close", "headers", "relay"}
    PROVE  /\ ProxyLike([p EXCEPT !.pc = "write", !.out = out, !.then = then], p, "write", then)
           /\ ProxyLike([p EXCEPT !.pc = "write", !.then = then, !.out = out], p, "write", then)
<1>1. ProxyLike([p EXCEPT !.pc = "write", !.out = out, !.then = then], p, "write", then)
  BY DEF ProxyType, ProxyLike
<1>2. ProxyLike([p EXCEPT !.pc = "write", !.then = then, !.out = out], p, "write", then)
  BY DEF ProxyType, ProxyLike
<1> QED
  BY <1>1, <1>2

\* To have written a part.
LEMMA ProxyFormRest ==
    ASSUME NEW p \in ProxyType, NEW out \in Seq(Seq(Byte))
    PROVE  ProxyLike([p EXCEPT !.out = out], p, p.pc, p.then)
  BY DEF ProxyType, ProxyLike

\* To have a request line.
LEMMA ProxyFormLine ==
    ASSUME NEW p \in ProxyType, NEW out \in Seq(Seq(Byte)), NEW text \in DOMAIN RequestLines,
           NEW at \in ProxyAddress
    PROVE  ProxyLike([p EXCEPT !.pc = "write", !.then = "headers", !.out = out, !.text = text, !.at = at],
                     p, "write", "headers")
  BY DEF ProxyType, ProxyLike

\* To read the headers.
LEMMA ProxyFormHeaders ==
    ASSUME NEW p \in ProxyType, NEW f \in BOOLEAN, NEW request \in Seq(Byte)
    PROVE  /\ ProxyLike([p EXCEPT !.pc = "headers", !.first = f, !.request = request], p, "headers", p.then)
           /\ ProxyLike([p EXCEPT !.first = f, !.request = request], p, p.pc, p.then)
           /\ ProxyLike([p EXCEPT !.pc = "connect", !.request = request], p, "connect", p.then)
<1>1. ProxyLike([p EXCEPT !.pc = "headers", !.first = f, !.request = request], p, "headers", p.then)
  BY DEF ProxyType, ProxyLike
<1>2. ProxyLike([p EXCEPT !.first = f, !.request = request], p, p.pc, p.then)
  BY DEF ProxyType, ProxyLike
<1>3. ProxyLike([p EXCEPT !.pc = "connect", !.request = request], p, "connect", p.then)
  BY DEF ProxyType, ProxyLike
<1> QED
  BY <1>1, <1>2, <1>3

\* The proxy between two clients.
LEMMA NotRequestedIs ==
    /\ NotRequested \in ProxyType
    /\ \A at \in ProxyAddress : /\ [NotRequested EXCEPT !.at = at] \in ProxyType
                                /\ [NotRequested EXCEPT !.at = at].pc = "accept"
<1>1. \A c \in Proxied \cup {"none"}, out \in Seq(Seq(Byte)), f \in BOOLEAN, text \in DOMAIN RequestLines,
         request \in Seq(Byte), at \in ProxyAddress :
        [pc |-> "accept", c |-> c, out |-> out, then |-> "none", first |-> f, text |-> text,
         request |-> request, at |-> at] \in ProxyType
  BY DEF ProxyType
<1>2. /\ <<>> \in Seq(Seq(Byte)) /\ FALSE \in BOOLEAN /\ "none" \in Proxied \cup {"none"}
      /\ <<>> \in Seq(Byte) /\ [host |-> <<>>, port |-> <<>>] \in ProxyAddress
  BY DEF ProxyAddress
<1>4. "other" \in DOMAIN RequestLines
  BY RequestPathAssumption
<1>3. NotRequested \in ProxyType /\ NotRequested.pc = "accept"
  <2>1. NotRequested \in ProxyType
    BY <1>1, <1>2, <1>4, Zenon DEF NotRequested
  <2> QED
    BY <2>1 DEF NotRequested
<1> HIDE DEF NotRequested
<1>5. \A at \in ProxyAddress, p \in ProxyType : [p EXCEPT !.at = at] \in ProxyType /\ [p EXCEPT !.at = at].pc = p.pc
  BY DEF ProxyType
<1> QED
  BY <1>3, <1>5
-----------------------------------------------------------------------------
\* The proxy accepts a connection.
LEMMA ProxyAcceptKeeps ==
    ASSUME ControlInv, ProxyAccept
    PROVE  StreamsStep /\ ControlInv'
<1> DEFINE s0 == Head(proxyQueue)
           c0 == s0[1]
<1>0. RioInv /\ TypeInv /\ proxy \in ProxyType
  BY DEF ControlInv, TypeInv
<1>1. /\ proxy.pc = "accept" /\ proxyQueue' = Tail(proxyQueue) /\ proxyQueue # <<>>
      /\ kernel' = kernel /\ peer' = peer /\ sent' = sent /\ over' = over
      /\ tiny' = tiny /\ tinyQueue' = tinyQueue /\ asked' = asked /\ script' = script /\ phase' = phase
      /\ rio' = Called(RequestOf(c0)) /\ proxy' = [proxy EXCEPT !.pc = "requestline", !.c = c0]
  BY DEF ProxyAccept, connVars, tinyVars, clientVars
<1>2. /\ Distinct(proxyQueue) /\ ToSet(proxyQueue) \subseteq ProxysRequests
      /\ \A c \in Proxied : RequestOf(c) \in ToSet(proxyQueue) =>
             ~ProxyAt(c) /\ rio[RequestOf(c)] = NoCall /\ over[RequestOf(c)] = "no"
  BY <1>1 DEF ControlInv, ProxyQueueInv, ProxyUp
<1>3. /\ proxyQueue' \in Seq(Requests) /\ Distinct(proxyQueue')
      /\ s0 \in ToSet(proxyQueue) /\ ToSet(proxyQueue') = ToSet(proxyQueue) \ {s0}
  BY <1>0, <1>1, <1>2, QueueTaken DEF TypeInv
<1>4. c0 \in Proxied /\ s0 = RequestOf(c0) /\ RequestOf(c0) \in Streams
  <2>1. PICK c \in Proxied : s0 = RequestOf(c)
    BY <1>2, <1>3, Servers
  <2> QED
    BY <2>1, Names
<1> HIDE DEF s0, c0
<1>5. rio[RequestOf(c0)] = NoCall /\ over[RequestOf(c0)] = "no"
  BY <1>2, <1>3, <1>4
<1>6. ~rio[RequestOf(c0)].calling
  BY <1>5 DEF NoCall
<1>7. StreamsStep /\ \A p \in Streams \ {RequestOf(c0)} : rio'[p] = rio[p]
  BY <1>0, <1>1, <1>4, <1>6, OneCall
<1>8. proxy' \in ProxyType /\ proxy'.pc = "requestline" /\ proxy'.c = c0
  <2>1. \A p \in ProxyType, c \in Proxied :
           LET q == [p EXCEPT !.pc = "requestline", !.c = c] IN q \in ProxyType /\ q.pc = "requestline" /\ q.c = c
    BY DEF ProxyType
  <2> QED
    BY <1>0, <1>1, <1>4, <2>1
<1>13. TypeInv'
  BY <1>0, <1>1, <1>3, <1>8 DEF TypeInv
<1>9. \A s : TinyAt(s)' <=> TinyAt(s)
  BY <1>1 DEF TinyAt
<1>14. NewInv'
  <2> SUFFICES ASSUME NEW c \in Clients, phase'[c] = "new"
               PROVE  /\ RequestOf(c) \notin ToSet(tinyQueue') /\ RequestOf(c) \notin ToSet(proxyQueue')
                      /\ ~TinyAt(RequestOf(c))' /\ ~ProxyAt(c)'
                      /\ Untouched(RequestOf(c))' /\ over'[RequestOf(c)] = "no"
    BY DEF NewInv
  <2>1. /\ RequestOf(c) \notin ToSet(tinyQueue) /\ RequestOf(c) \notin ToSet(proxyQueue)
        /\ ~TinyAt(RequestOf(c)) /\ Untouched(RequestOf(c)) /\ over[RequestOf(c)] = "no"
    BY <1>1 DEF ControlInv, NewInv
  <2>2. RequestOf(c) # RequestOf(c0) /\ RequestOf(c) \in Streams
    BY <2>1, <1>3, <1>4, Names
  <2> QED
    BY <2>1, <2>2, <1>1, <1>3, <1>7, <1>8, <1>9 DEF ProxyAt, Untouched
<1>15. UnconnectedInv'
  <2> SUFFICES ASSUME NEW c \in Proxied, over'[RequestOf(c)] = "no", ~Connected(c)'
               PROVE  /\ ForwardOf(c) \notin ToSet(tinyQueue') /\ ~TinyAt(ForwardOf(c))'
                      /\ Untouched(ForwardOf(c))' /\ Untouched(ReplyOf(c))' /\ asked'[c] = <<>>
    BY DEF UnconnectedInv
  <2>0. ~Connected(c)
    BY <1>1 DEF Connected, PastConnect
  <2>1. /\ ForwardOf(c) \notin ToSet(tinyQueue) /\ ~TinyAt(ForwardOf(c))
        /\ Untouched(ForwardOf(c)) /\ Untouched(ReplyOf(c)) /\ asked[c] = <<>>
    BY <1>1, <2>0 DEF ControlInv, UnconnectedInv
  <2>2. /\ ForwardOf(c) # RequestOf(c0) /\ ReplyOf(c) # RequestOf(c0)
        /\ ForwardOf(c) \in Streams /\ ReplyOf(c) \in Streams
    BY <1>4, Names
  <2> QED
    BY <2>1, <2>2, <1>1, <1>7, <1>9 DEF Untouched
<1>16. TinyQueueInv'
  BY <1>1, <1>4, <1>7, <1>9, Servers, Names DEF ControlInv, TinyQueueInv, TinyUp
<1>17. ProxyQueueInv'
  BY <1>1, <1>2, <1>3, <1>4, <1>7, <1>8, Names DEF ProxyQueueInv, ProxyAt
<1>18. ServingInv'
  BY <1>1, <1>4, <1>5, <1>8 DEF ControlInv, ServingInv, Here
<1>19. CallingInv'
  BY <1>1, <1>4, <1>7, <1>8, Servers, Names DEF ControlInv, CallingInv
<1>20. PeerInv'
  BY <1>1, <1>8, <1>9 DEF ControlInv, PeerInv, ProxyUp, TinyUp
<1>21. SendInv'
  BY <1>8 DEF SendInv
<1> QED
  BY <1>7, <1>13, <1>14, <1>15, <1>16, <1>17, <1>18, <1>19, <1>20, <1>21, Assembled DEF OthersInv

\* The proxy goes on, and nothing happens on the streams.
LEMMA ProxyGoesOnKeeps ==
    ASSUME ControlInv, NEW state, ProxyLike(state, proxy, state.pc, state.then), ProxyGoesOn(state),
           PastConnect(state) <=> PastConnect(proxy),
           proxy.pc \notin {"accept", "send", "down"}, state.pc \notin {"accept", "send", "down"},
           ~rio[Here].calling, ~rio[ReplyOf(proxy.c)].calling
    PROVE  StreamsStep /\ ControlInv'
<1>1. /\ proxy' = state /\ kernel' = kernel /\ peer' = peer /\ rio' = rio /\ tiny' = tiny /\ tinyQueue' = tinyQueue
      /\ sent' = sent /\ over' = over /\ proxyQueue' = proxyQueue /\ asked' = asked
      /\ script' = script /\ phase' = phase
  BY DEF ProxyGoesOn, rioVars, connVars, tinyVars, clientVars
<1>2. StreamsStep
  BY <1>1, AllQuiet DEF ControlInv
<1>3. TypeInv'
  BY <1>1 DEF ControlInv, TypeInv, ProxyLike
<1>4. ProxyMoves
  BY <1>1 DEF ProxyMoves, ProxyLike, Quiet
<1> QED
  BY <1>2, <1>3, <1>4, ProxyMovesKeeps, Assembled

\* The proxy goes on, and calls Rio.
LEMMA ProxyCallsKeeps ==
    ASSUME ControlInv, NEW s, NEW state, ProxyLike(state, proxy, state.pc, state.then), ProxyCalls(s, state),
           PastConnect(state) <=> PastConnect(proxy),
           proxy.pc \notin {"accept", "send", "down"},
           ~rio[Here].calling, ~rio[ReplyOf(proxy.c)].calling,
           \/ s = Here /\ state.pc = "headers"
           \/ s = ReplyOf(proxy.c) /\ PastConnect(proxy) /\ state.pc = "relay"
    PROVE  StreamsStep /\ ControlInv'
<1>1. /\ proxy' = state /\ kernel' = kernel /\ peer' = peer /\ rio' = Called(s) /\ tiny' = tiny /\ tinyQueue' = tinyQueue
      /\ sent' = sent /\ over' = over /\ proxyQueue' = proxyQueue /\ asked' = asked
      /\ script' = script /\ phase' = phase
  BY DEF ProxyCalls, connVars, tinyVars, clientVars
<1>4. proxy.c \in Proxied
  BY DEF ControlInv, ServingInv
<1>5. s \in Streams /\ AtHand(s) /\ ~rio[s].calling /\ Here # ReplyOf(proxy.c)
      /\ Here \in Streams /\ ReplyOf(proxy.c) \in Streams
  BY <1>4, Names DEF AtHand, Here
<1>2. StreamsStep /\ \A p \in Streams \ {s} : rio'[p] = rio[p]
  BY <1>1, <1>5, OneCall DEF ControlInv
<1>3. TypeInv'
  BY <1>1 DEF ControlInv, TypeInv, ProxyLike
<1>6. /\ rio'[Here].calling => proxy'.pc \in {"requestline", "headers"}
      /\ rio'[ReplyOf(proxy.c)].calling => proxy'.pc = "relay"
  BY <1>1, <1>2, <1>5
<1>7. \A p \in Streams : ~AtHand(p) => Quiet(p)
  BY <1>1, <1>2, <1>5 DEF Quiet
<1>8. ProxyMoves
  BY <1>1, <1>6, <1>7 DEF ProxyMoves, ProxyLike
<1> QED
  BY <1>2, <1>3, <1>8, ProxyMovesKeeps, Assembled

\* The proxy has done with its client.
LEMMA ProxyClosesKeeps ==
    ASSUME ControlInv, ProxyCloses,
           proxy.pc \notin {"accept", "down"}, ~rio[Here].calling, ~rio[ReplyOf(proxy.c)].calling
    PROVE  StreamsStep /\ ControlInv'
<1>1. /\ kernel' = kernel /\ peer' = peer /\ rio' = rio /\ tiny' = tiny /\ tinyQueue' = tinyQueue
      /\ over' = [over EXCEPT ![Here] = "served"]
      /\ sent' = sent /\ proxyQueue' = proxyQueue /\ asked' = asked /\ script' = script /\ phase' = phase
  BY DEF ProxyCloses, rioVars, tinyVars, clientVars
<1>2. proxy' \in ProxyType /\ proxy'.pc = "accept"
  <2>1. proxy.at \in ProxyAddress
    BY DEF ControlInv, TypeInv, ProxyType
  <2> QED
    BY <2>1, NotRequestedIs DEF ProxyCloses
<1>3. Here \in Requests
  BY Names DEF ControlInv, ServingInv, Here
<1>4. /\ over' \in [Requests -> {"no", "served", "dropped"}] /\ over'[Here] = "served"
      /\ \A s \in Requests \ {Here} : over'[s] = over[s]
  BY <1>1, <1>3 DEF ControlInv, TypeInv
<1>5. StreamsStep
  BY <1>1, AllQuiet DEF ControlInv
<1>6. TypeInv'
  BY <1>1, <1>2, <1>4 DEF ControlInv, TypeInv
<1>7. ProxyEnds
  BY <1>1, <1>2, <1>4 DEF ProxyEnds
<1> QED
  BY <1>5, <1>6, <1>7, ProxyEndsKeeps, Assembled

\* The proxy goes down.
LEMMA ProxyExitsKeeps ==
    ASSUME ControlInv, ProxyExits,
           proxy.pc \notin {"accept", "down"}, ~rio[Here].calling, ~rio[ReplyOf(proxy.c)].calling
    PROVE  StreamsStep /\ ControlInv'
<1> DEFINE forward == ForwardOf(proxy.c)
<1>1. /\ proxy' = [proxy EXCEPT !.pc = "down"]
      /\ kernel' = kernel /\ rio' = rio /\ tiny' = tiny /\ tinyQueue' = tinyQueue
      /\ over' = [s \in Requests |-> IF s = Here \/ s \in ToSet(proxyQueue) THEN "dropped" ELSE over[s]]
      /\ sent' = sent /\ proxyQueue' = proxyQueue /\ asked' = asked /\ script' = script /\ phase' = phase
      /\ peer' = IF asked[proxy.c] # <<>> /\ peer[forward] = "open"
                 THEN [peer EXCEPT ![forward] = IF kernel[ReplyOf(proxy.c)] # <<>> THEN "reset" ELSE "closed"]
                 ELSE peer
  BY DEF ProxyExits, tinyVars, clientVars
<1>2. ProxyLike(proxy', proxy, "down", proxy.then)
  BY <1>1, ProxyFormPc DEF ControlInv, TypeInv
<1>3. Here \in Requests /\ forward \in Streams
  BY Names DEF ControlInv, ServingInv, Here
<1>4. /\ over' \in [Requests -> {"no", "served", "dropped"}] /\ over'[Here] = "dropped"
      /\ \A s \in Requests \ {Here} : s \notin ToSet(proxyQueue) => over'[s] = over[s]
      /\ \A s \in Requests : over'[s] = "no" => over[s] = "no"
  BY <1>1, <1>3 DEF ControlInv, TypeInv
<1>8. /\ peer' = [p \in Streams |-> peer'[p]]
      /\ \A p \in Streams : peer'[p] = peer[p] \/ (peer[p] = "open" /\ peer'[p] \in {"reset", "closed"})
      /\ \A p \in Streams \ {forward} : peer'[p] = peer[p]
  <2> HIDE DEF forward
  <2>1. PICK end \in {"reset", "closed"} :
          (peer' = [peer EXCEPT ![forward] = end] /\ peer[forward] = "open") \/ peer' = peer
    BY <1>1
  <2> QED
    BY <1>3, <2>1 DEF ControlInv, RioInv
<1>5. StreamsStep
  BY <1>1, <1>8, ManyClosed DEF ControlInv
<1>6. TypeInv'
  BY <1>1, <1>2, <1>4 DEF ControlInv, TypeInv, ProxyLike
<1>7. ProxyEnds
  BY <1>1, <1>2, <1>4, <1>8 DEF ProxyEnds, ProxyLike
<1> QED
  BY <1>5, <1>6, <1>7, ProxyEndsKeeps, Assembled
-----------------------------------------------------------------------------
\* The proxy has a connection to tiny.
LEMMA ProxyConnected ==
    ASSUME ControlInv, proxy.pc = "connect", tiny.pc # "down",
           tinyQueue' = Append(tinyQueue, ForwardOf(proxy.c)), proxy' = [proxy EXCEPT !.pc = "send"],
           UNCHANGED <<rioVars, connVars, tiny, proxyQueue, asked, clientVars>>
    PROVE  StreamsStep /\ ControlInv'
<1> DEFINE s0 == ForwardOf(proxy.c)
<1>0. RioInv /\ TypeInv /\ proxy \in ProxyType
  BY DEF ControlInv, TypeInv
<1>1. /\ kernel' = kernel /\ peer' = peer /\ rio' = rio /\ tiny' = tiny
      /\ sent' = sent /\ over' = over /\ proxyQueue' = proxyQueue /\ asked' = asked
      /\ script' = script /\ phase' = phase
  BY DEF rioVars, connVars, clientVars
<1>2. ProxyLike(proxy', proxy, "send", proxy.then)
  BY <1>0, ProxyFormPc
<1>3. proxy' \in ProxyType /\ proxy'.pc = "send" /\ proxy'.c = proxy.c
  BY <1>2 DEF ProxyLike
<1>4. proxy.c \in Proxied /\ over[Here] = "no" /\ s0 \in TinysRequests /\ s0 \in Requests /\ s0 \in Streams
  BY Servers, Names DEF ControlInv, ServingInv
<1>5. /\ s0 \notin ToSet(tinyQueue) /\ ~TinyAt(s0)
      /\ Untouched(s0) /\ Untouched(ReplyOf(proxy.c)) /\ asked[proxy.c] = <<>>
  <2>1. ~Connected(proxy.c)
    BY DEF Connected, PastConnect
  <2> QED
    BY <1>4, <2>1 DEF ControlInv, UnconnectedInv, Here
<1>6. TinyUp /\ TinyUp'
  BY <1>1 DEF TinyUp
<1>7. Distinct(tinyQueue) /\ ToSet(tinyQueue) \subseteq TinysRequests
      /\ \A s \in ToSet(tinyQueue) : ~TinyAt(s) /\ rio[s] = NoCall
  BY <1>6 DEF ControlInv, TinyQueueInv
<1>8. /\ tinyQueue' \in Seq(Requests) /\ Distinct(tinyQueue')
      /\ ToSet(tinyQueue') = ToSet(tinyQueue) \cup {s0}
  BY <1>0, <1>4, <1>5, <1>7, QueueAppended DEF TypeInv
<1>9. /\ \A s : TinyAt(s)' <=> TinyAt(s)
      /\ \A c : ProxyAt(c)' <=> ProxyAt(c)
  BY <1>1, <1>3 DEF TinyAt, ProxyAt
<1> HIDE DEF s0
<1>10. StreamsStep
  BY <1>0, <1>1, AllQuiet
<1>13. TypeInv'
  BY <1>0, <1>1, <1>3, <1>8 DEF TypeInv
<1>14. NewInv'
  <2> SUFFICES ASSUME NEW c \in Clients, phase'[c] = "new"
               PROVE  /\ RequestOf(c) \notin ToSet(tinyQueue') /\ RequestOf(c) \notin ToSet(proxyQueue')
                      /\ ~TinyAt(RequestOf(c))' /\ ~ProxyAt(c)'
                      /\ Untouched(RequestOf(c))' /\ over'[RequestOf(c)] = "no"
    BY DEF NewInv
  <2>1. /\ RequestOf(c) \notin ToSet(tinyQueue) /\ RequestOf(c) \notin ToSet(proxyQueue) /\ ~ProxyAt(c)
        /\ ~TinyAt(RequestOf(c)) /\ Untouched(RequestOf(c)) /\ over[RequestOf(c)] = "no"
    BY <1>1 DEF ControlInv, NewInv
  <2>2. RequestOf(c) # s0
    BY <1>4, Names DEF s0
  <2> QED
    BY <2>1, <2>2, <1>1, <1>8, <1>9 DEF Untouched
<1>15. UnconnectedInv'
  <2> SUFFICES ASSUME NEW c \in Proxied, over'[RequestOf(c)] = "no", ~Connected(c)'
               PROVE  /\ ForwardOf(c) \notin ToSet(tinyQueue') /\ ~TinyAt(ForwardOf(c))'
                      /\ Untouched(ForwardOf(c))' /\ Untouched(ReplyOf(c))' /\ asked'[c] = <<>>
    BY DEF UnconnectedInv
  <2>0. c # proxy.c
    BY <1>3 DEF Connected, PastConnect
  <2>1. /\ ForwardOf(c) \notin ToSet(tinyQueue) /\ ~TinyAt(ForwardOf(c))
        /\ Untouched(ForwardOf(c)) /\ Untouched(ReplyOf(c)) /\ asked[c] = <<>>
    BY <1>1, <2>0 DEF ControlInv, UnconnectedInv, Connected
  <2>2. ForwardOf(c) # s0
    BY <1>4, <2>0, Names DEF s0
  <2> QED
    BY <2>1, <2>2, <1>1, <1>8, <1>9 DEF Untouched
<1>16. TinyQueueInv'
  <2>1. rio[s0] = NoCall
    BY <1>5 DEF Untouched, s0
  <2> QED
    BY <2>1, <1>1, <1>4, <1>5, <1>7, <1>8, <1>9 DEF TinyQueueInv, s0
<1>17. ProxyQueueInv'
  BY <1>1, <1>9 DEF ControlInv, ProxyQueueInv, ProxyUp
<1>18. ServingInv'
  BY <1>1, <1>3, <1>4 DEF ControlInv, ServingInv, Here
<1>19. CallingInv'
  BY <1>1 DEF ControlInv, CallingInv
<1>20. PeerInv'
  <2>1. peer[ReplyOf(proxy.c)] = "open"
    BY <1>5 DEF Untouched
  <2>2. \A c \in Proxied : ForwardOf(c) = s0 => c = proxy.c
    BY <1>4, Names DEF s0
  <2> QED
    BY <2>1, <2>2, <1>1, <1>6, <1>8, <1>9 DEF ControlInv, PeerInv, ProxyUp
<1>21. SendInv'
  <2>1. kernel[s0] = <<>>
    BY <1>5 DEF Untouched, s0
  <2> QED
    BY <2>1, <1>1, <1>3, <1>5, <1>8 DEF SendInv, s0
<1> QED
  BY <1>10, <1>13, <1>14, <1>15, <1>16, <1>17, <1>18, <1>19, <1>20, <1>21, Assembled DEF OthersInv

\* The request is sent to tiny.
LEMMA ProxySends ==
    ASSUME ControlInv, proxy.pc = "send",
           NEW outcome \in WriteOutcomes(ReplyOf(proxy.c)),
           asked' = [asked EXCEPT ![proxy.c] = proxy.request],
           kernel' = IF outcome[2] = "open"
                     THEN [kernel EXCEPT ![ForwardOf(proxy.c)] = kernel[ForwardOf(proxy.c)] \o proxy.request]
                     ELSE kernel,
           peer' = [peer EXCEPT ![ReplyOf(proxy.c)] = outcome[2]],
           proxy' = [proxy EXCEPT !.pc = "write", !.out = <<>>, !.then = "relay"],
           UNCHANGED <<rio, connVars, tinyVars, proxyQueue, clientVars>>
    PROVE  StreamsStep /\ ControlInv'
<1>0. RioInv /\ TypeInv /\ proxy \in ProxyType /\ proxy.c \in Proxied /\ proxy.request \in Seq(Byte)
  BY DEF ControlInv, TypeInv, ServingInv, ProxyType
<1> DEFINE f == ForwardOf(proxy.c)
           y == ReplyOf(proxy.c)
<1>1. /\ rio' = rio /\ tiny' = tiny /\ tinyQueue' = tinyQueue
      /\ sent' = sent /\ over' = over /\ proxyQueue' = proxyQueue
      /\ script' = script /\ phase' = phase
  BY DEF connVars, tinyVars, clientVars
<1>2. /\ f \in Requests /\ f \in Streams /\ y \in Streams /\ f # y /\ f \in TinysRequests
      /\ peer[f] = "open" /\ y \notin Requests
  BY <1>0, Names, Servers DEF ControlInv, PeerInv, ProxyUp
<1>3. proxy' \in ProxyType /\ proxy'.c = proxy.c /\ proxy'.pc = "write" /\ proxy'.then = "relay"
  <2>1. PICK none \in Seq(Seq(Byte)) : none = <<>>
    BY Strings
  <2>2. ProxyLike(proxy', proxy, "write", "relay")
    BY <1>0, <2>1, ProxyFormOut
  <2> QED
    BY <2>2 DEF ProxyLike
<1>4. /\ outcome[2] \in Peer /\ (outcome[2] = "open" <=> peer[y] = "open")
      /\ peer[y] = "noticed" => outcome[2] = "noticed"
  BY <1>0, <1>2, WriteOutcome
<1> HIDE DEF f, y
<1>5. /\ peer' = [p \in Streams |-> peer'[p]] /\ peer'[y] = outcome[2]
      /\ \A p \in Streams \ {y} : peer'[p] = peer[p]
  BY <1>0, <1>2 DEF RioInv, y
<1>6. /\ kernel' = [p \in Streams |-> kernel'[p]] /\ \A p \in Streams \ {f} : kernel'[p] = kernel[p]
      /\ kernel'[f] = kernel[f] \o proxy.request \/ kernel'[f] = kernel[f]
  <2>1. CASE outcome[2] = "open"
    BY <1>0, <1>2, <2>1 DEF RioInv, f
  <2>2. CASE outcome[2] # "open"
    BY <1>0, <1>2, <2>2 DEF RioInv, f
  <2> QED
    BY <2>1, <2>2
<1>7. StreamsStep
  <2>1. Quiet(f) \/ Growing(f)
    BY <1>0, <1>1, <1>2, <1>5, <1>6 DEF Quiet, Growing
  <2>2. Quiet(y) \/ Closing(y)
    BY <1>1, <1>2, <1>4, <1>5, <1>6, <1>0 DEF Quiet, Closing, RioInv
  <2>3. \A p \in Streams \ {f, y} : Quiet(p)
    BY <1>1, <1>5, <1>6 DEF Quiet
  <2>4. rio' = [p \in Streams |-> rio'[p]]
    BY <1>0, <1>1 DEF RioInv
  <2> QED
    BY <2>1, <2>2, <2>3, <2>4, <1>5, <1>6 DEF StreamsStep, StreamStep
<1>8. \A p \in Streams : peer'[p] = "open" <=> peer[p] = "open"
  BY <1>4, <1>5
<1>9. /\ \A s : TinyAt(s)' <=> TinyAt(s)
      /\ \A c : ProxyAt(c)' <=> ProxyAt(c)
      /\ \A c : Connected(c)' <=> Connected(c)
  BY <1>1, <1>3 DEF TinyAt, ProxyAt, Connected, PastConnect
<1>10. asked' \in [Proxied -> Seq(Byte)] /\ \A c \in Proxied \ {proxy.c} : asked'[c] = asked[c]
  BY <1>0 DEF TypeInv
<1>13. TypeInv'
  BY <1>0, <1>1, <1>3, <1>10 DEF TypeInv
<1>14. NewInv'
  <2> SUFFICES ASSUME NEW c \in Clients, phase'[c] = "new"
               PROVE  /\ RequestOf(c) \notin ToSet(tinyQueue') /\ RequestOf(c) \notin ToSet(proxyQueue')
                      /\ ~TinyAt(RequestOf(c))' /\ ~ProxyAt(c)'
                      /\ Untouched(RequestOf(c))' /\ over'[RequestOf(c)] = "no"
    BY DEF NewInv
  <2>1. /\ RequestOf(c) \notin ToSet(tinyQueue) /\ RequestOf(c) \notin ToSet(proxyQueue) /\ ~ProxyAt(c)
        /\ ~TinyAt(RequestOf(c)) /\ Untouched(RequestOf(c)) /\ over[RequestOf(c)] = "no"
    BY <1>1 DEF ControlInv, NewInv
  <2>2. RequestOf(c) # f /\ RequestOf(c) # y /\ RequestOf(c) \in Streams
    BY <1>0, Names DEF f, y
  <2> QED
    BY <2>1, <2>2, <1>1, <1>5, <1>6, <1>9 DEF Untouched
<1>15. UnconnectedInv'
  <2> SUFFICES ASSUME NEW c \in Proxied, over'[RequestOf(c)] = "no", ~Connected(c)'
               PROVE  /\ ForwardOf(c) \notin ToSet(tinyQueue') /\ ~TinyAt(ForwardOf(c))'
                      /\ Untouched(ForwardOf(c))' /\ Untouched(ReplyOf(c))' /\ asked'[c] = <<>>
    BY DEF UnconnectedInv
  <2>0. c # proxy.c /\ ~Connected(c)
    BY <1>3, <1>9 DEF Connected, PastConnect
  <2>1. /\ ForwardOf(c) \notin ToSet(tinyQueue) /\ ~TinyAt(ForwardOf(c))
        /\ Untouched(ForwardOf(c)) /\ Untouched(ReplyOf(c)) /\ asked[c] = <<>>
    BY <1>1, <2>0 DEF ControlInv, UnconnectedInv
  <2>2. /\ ForwardOf(c) \notin {f, y} /\ ReplyOf(c) \notin {f, y}
        /\ ForwardOf(c) \in Streams /\ ReplyOf(c) \in Streams
    BY <1>0, <2>0, Names DEF f, y
  <2> QED
    BY <2>0, <2>1, <2>2, <1>1, <1>5, <1>6, <1>9, <1>10 DEF Untouched
<1>16. TinyQueueInv'
  BY <1>1, <1>9 DEF ControlInv, TinyQueueInv, TinyUp
<1>17. ProxyQueueInv'
  BY <1>1, <1>3, <1>9 DEF ControlInv, ProxyQueueInv, ProxyUp
<1>18. ServingInv'
  BY <1>1, <1>3 DEF ControlInv, ServingInv, Here
<1>19. CallingInv'
  BY <1>1, <1>3 DEF ControlInv, CallingInv
<1>20. PeerInv'
  BY <1>1, <1>3, <1>8, <1>9, Names DEF ControlInv, PeerInv, ProxyUp, TinyUp
<1>21. SendInv'
  BY <1>3 DEF SendInv
<1> QED
  BY <1>7, <1>13, <1>14, <1>15, <1>16, <1>17, <1>18, <1>19, <1>20, <1>21, Assembled DEF OthersInv
-----------------------------------------------------------------------------
\* A client connects.
LEMMA SendKeeps ==
    ASSUME ControlInv, NEW c0 \in Clients, Send(c0)
    PROVE  StreamsStep /\ ControlInv'
<1> DEFINE s0 == RequestOf(c0)
<1>0. RioInv /\ TypeInv
  BY DEF ControlInv
<1>1. /\ phase[c0] = "new" /\ peer' = peer /\ rio' = rio /\ sent' = sent /\ over' = over /\ tiny' = tiny
      /\ proxy' = proxy /\ asked' = asked /\ script' = script
      /\ kernel' = [kernel EXCEPT ![s0] = FlattenSeq(script[c0].lines)]
      /\ phase' = [phase EXCEPT ![c0] = "sent"]
  BY DEF Send, connVars
<1>2. /\ s0 \notin ToSet(tinyQueue) /\ s0 \notin ToSet(proxyQueue)
      /\ ~TinyAt(s0) /\ ~ProxyAt(c0) /\ Untouched(s0) /\ over[s0] = "no"
  BY <1>1 DEF ControlInv, NewInv
<1>3. s0 \in Requests /\ s0 \in Streams
  BY Names
<1>4. /\ c0 \in Proxied => /\ ProxyUp /\ proxyQueue' = Append(proxyQueue, s0) /\ tinyQueue' = tinyQueue
                           /\ s0 \in ProxysRequests
      /\ c0 \notin Proxied => /\ TinyUp /\ tinyQueue' = Append(tinyQueue, s0) /\ proxyQueue' = proxyQueue
                              /\ c0 \in Direct /\ s0 \in TinysRequests
  BY Names, Servers DEF Send, ProxyUp, TinyUp
<1>5. c0 \in Proxied => /\ proxyQueue' \in Seq(Requests) /\ Distinct(proxyQueue')
                        /\ ToSet(proxyQueue') = ToSet(proxyQueue) \cup {s0}
  <2> SUFFICES ASSUME c0 \in Proxied
               PROVE  /\ proxyQueue' \in Seq(Requests) /\ Distinct(proxyQueue')
                      /\ ToSet(proxyQueue') = ToSet(proxyQueue) \cup {s0}
    OBVIOUS
  <2>1. Distinct(proxyQueue)
    BY <1>4 DEF ControlInv, ProxyQueueInv
  <2>2. proxyQueue \in Seq(Requests)
    BY <1>0 DEF TypeInv
  <2>3. proxyQueue' = Append(proxyQueue, s0)
    BY <1>4
  <2> HIDE DEF s0
  <2>4. /\ Append(proxyQueue, s0) \in Seq(Requests) /\ Distinct(Append(proxyQueue, s0))
        /\ ToSet(Append(proxyQueue, s0)) = ToSet(proxyQueue) \cup {s0}
    BY <1>2, <1>3, <2>1, <2>2, QueueAppended
  <2> QED
    BY <2>3, <2>4
<1>6. c0 \notin Proxied => /\ tinyQueue' \in Seq(Requests) /\ Distinct(tinyQueue')
                           /\ ToSet(tinyQueue') = ToSet(tinyQueue) \cup {s0}
  <2> SUFFICES ASSUME c0 \notin Proxied
               PROVE  /\ tinyQueue' \in Seq(Requests) /\ Distinct(tinyQueue')
                      /\ ToSet(tinyQueue') = ToSet(tinyQueue) \cup {s0}
    OBVIOUS
  <2>1. Distinct(tinyQueue)
    BY <1>4 DEF ControlInv, TinyQueueInv
  <2>2. tinyQueue \in Seq(Requests)
    BY <1>0 DEF TypeInv
  <2>3. tinyQueue' = Append(tinyQueue, s0)
    BY <1>4
  <2> HIDE DEF s0
  <2>4. /\ Append(tinyQueue, s0) \in Seq(Requests) /\ Distinct(Append(tinyQueue, s0))
        /\ ToSet(Append(tinyQueue, s0)) = ToSet(tinyQueue) \cup {s0}
    BY <1>2, <1>3, <2>1, <2>2, QueueAppended
  <2> QED
    BY <2>3, <2>4
<1> HIDE DEF s0
<1>7. /\ ToSet(tinyQueue) \subseteq ToSet(tinyQueue') /\ ToSet(tinyQueue') \subseteq ToSet(tinyQueue) \cup {s0}
      /\ ToSet(proxyQueue) \subseteq ToSet(proxyQueue') /\ ToSet(proxyQueue') \subseteq ToSet(proxyQueue) \cup {s0}
  BY <1>4, <1>5, <1>6
<1>8. FlattenSeq(script[c0].lines) \in Seq(Byte)
  BY <1>0, FlattenType DEF TypeInv
<1>9. /\ kernel' = [p \in Streams |-> kernel'[p]] /\ \A p \in Streams \ {s0} : kernel'[p] = kernel[p]
      /\ kernel'[s0] = FlattenSeq(script[c0].lines)
  BY <1>0, <1>1, <1>3 DEF RioInv
<1>10. StreamsStep
  <2>1. Growing(s0)
    <3>1. kernel[s0] = <<>> /\ peer[s0] = "open"
      BY <1>2 DEF Untouched
    <3>2. PICK bytes \in Seq(Byte) : bytes = kernel'[s0]
      BY <1>8, <1>9
    <3>3. <<>> \o bytes = bytes
      BY ConcatEmptySeq
    <3> QED
      BY <1>1, <3>1, <3>2, <3>3 DEF Growing
  <2>2. \A p \in Streams \ {s0} : Quiet(p)
    BY <1>1, <1>9 DEF Quiet
  <2>3. peer' = [p \in Streams |-> peer'[p]] /\ rio' = [p \in Streams |-> rio'[p]]
    BY <1>0, <1>1 DEF RioInv
  <2> QED
    BY <1>0, <1>3, <1>9, <2>1, <2>2, <2>3, OneStream DEF StreamStep
<1>11. /\ phase' \in [Clients -> {"new", "sent", "left"}] /\ phase'[c0] = "sent"
       /\ \A c \in Clients \ {c0} : phase'[c] = phase[c]
  BY <1>0, <1>1 DEF TypeInv
<1>12. /\ \A s : TinyAt(s)' <=> TinyAt(s)
       /\ \A c : ProxyAt(c)' <=> ProxyAt(c)
       /\ \A c : Connected(c)' <=> Connected(c)
  BY <1>1 DEF TinyAt, ProxyAt, Connected
<1>13. TypeInv'
  <2>1. tinyQueue' \in Seq(Requests) /\ proxyQueue' \in Seq(Requests)
    BY <1>0, <1>4, <1>5, <1>6 DEF TypeInv
  <2> QED
    BY <1>0, <1>1, <1>11, <2>1 DEF TypeInv
<1>14. NewInv'
  <2> SUFFICES ASSUME NEW c \in Clients, phase'[c] = "new"
               PROVE  /\ RequestOf(c) \notin ToSet(tinyQueue') /\ RequestOf(c) \notin ToSet(proxyQueue')
                      /\ ~TinyAt(RequestOf(c))' /\ ~ProxyAt(c)'
                      /\ Untouched(RequestOf(c))' /\ over'[RequestOf(c)] = "no"
    BY DEF NewInv
  <2>0. c # c0
    BY <1>11
  <2>1. /\ RequestOf(c) \notin ToSet(tinyQueue) /\ RequestOf(c) \notin ToSet(proxyQueue) /\ ~ProxyAt(c)
        /\ ~TinyAt(RequestOf(c)) /\ Untouched(RequestOf(c)) /\ over[RequestOf(c)] = "no"
    BY <1>11, <2>0 DEF ControlInv, NewInv
  <2>2. RequestOf(c) # s0 /\ RequestOf(c) \in Streams
    BY <2>0, Names DEF s0
  <2> QED
    BY <2>1, <2>2, <1>1, <1>7, <1>9, <1>12 DEF Untouched
<1>15. UnconnectedInv'
  <2> SUFFICES ASSUME NEW c \in Proxied, over'[RequestOf(c)] = "no", ~Connected(c)'
               PROVE  /\ ForwardOf(c) \notin ToSet(tinyQueue') /\ ~TinyAt(ForwardOf(c))'
                      /\ Untouched(ForwardOf(c))' /\ Untouched(ReplyOf(c))' /\ asked'[c] = <<>>
    BY DEF UnconnectedInv
  <2>1. /\ ForwardOf(c) \notin ToSet(tinyQueue) /\ ~TinyAt(ForwardOf(c))
        /\ Untouched(ForwardOf(c)) /\ Untouched(ReplyOf(c)) /\ asked[c] = <<>>
    BY <1>1, <1>12 DEF ControlInv, UnconnectedInv
  <2>2. ForwardOf(c) # s0 /\ ReplyOf(c) # s0 /\ ForwardOf(c) \in Streams /\ ReplyOf(c) \in Streams
    BY Names DEF s0
  <2> QED
    BY <2>1, <2>2, <1>1, <1>7, <1>9, <1>12 DEF Untouched
<1>16. TinyQueueInv'
  <2> SUFFICES ASSUME TinyUp PROVE TinyQueueInv'
    BY <1>1 DEF TinyQueueInv, TinyUp
  <2>1. /\ Distinct(tinyQueue) /\ ToSet(tinyQueue) \subseteq TinysRequests
        /\ \A s \in ToSet(tinyQueue) : ~TinyAt(s) /\ rio[s] = NoCall
    BY DEF ControlInv, TinyQueueInv
  <2>2. Distinct(tinyQueue') /\ ToSet(tinyQueue') \subseteq TinysRequests
    BY <2>1, <1>4, <1>6
  <2>3. ~TinyAt(s0) /\ rio[s0] = NoCall
    BY <1>2 DEF Untouched, s0
  <2> QED
    BY <2>1, <2>2, <2>3, <1>1, <1>7, <1>12 DEF TinyQueueInv
<1>17. ProxyQueueInv'
  <2> SUFFICES ASSUME ProxyUp PROVE ProxyQueueInv'
    BY <1>1 DEF ProxyQueueInv, ProxyUp
  <2>1. /\ Distinct(proxyQueue) /\ ToSet(proxyQueue) \subseteq ProxysRequests
        /\ \A c \in Proxied : RequestOf(c) \in ToSet(proxyQueue) =>
             ~ProxyAt(c) /\ rio[RequestOf(c)] = NoCall /\ over[RequestOf(c)] = "no"
    BY DEF ControlInv, ProxyQueueInv
  <2>2. Distinct(proxyQueue') /\ ToSet(proxyQueue') \subseteq ProxysRequests
    BY <2>1, <1>4, <1>5
  <2>3. \A c \in Proxied : RequestOf(c) = s0 =>
             ~ProxyAt(c) /\ rio[RequestOf(c)] = NoCall /\ over[RequestOf(c)] = "no"
    BY <1>2, Names DEF Untouched, s0
  <2> QED
    BY <2>1, <2>2, <2>3, <1>1, <1>7, <1>12 DEF ProxyQueueInv
<1>18. ServingInv'
  BY <1>1 DEF ControlInv, ServingInv, Here
<1>19. CallingInv'
  BY <1>1 DEF ControlInv, CallingInv
<1>20. PeerInv'
  <2>1. \A c \in Clients : peer'[RequestOf(c)] = "open" <=> phase'[c] # "left"
    BY <1>1, <1>11 DEF ControlInv, PeerInv
  <2>2. \A c \in Proxied : ForwardOf(c) # s0
    BY Names DEF s0
  <2> QED
    BY <2>1, <2>2, <1>1, <1>7, <1>12 DEF ControlInv, PeerInv, ProxyUp, TinyUp
<1>21. SendInv'
  <2> SUFFICES ASSUME proxy.pc = "send" PROVE SendInv'
    BY <1>1 DEF SendInv
  <2>1. ForwardOf(proxy.c) # s0 /\ ForwardOf(proxy.c) \in Streams
    BY Names DEF s0, ControlInv, ServingInv
  <2> QED
    BY <2>1, <1>1, <1>7, <1>9, <1>12 DEF ControlInv, SendInv, TinyUp
<1> QED
  BY <1>10, <1>13, <1>14, <1>15, <1>16, <1>17, <1>18, <1>19, <1>20, <1>21, Assembled DEF OthersInv

\* A client leaves.
LEMMA LeaveKeeps ==
    ASSUME ControlInv, NEW c0 \in Clients, Leave(c0)
    PROVE  StreamsStep /\ ControlInv'
<1> DEFINE s0 == RequestOf(c0)
<1>0. RioInv /\ TypeInv
  BY DEF ControlInv
<1>1. /\ phase[c0] = "sent" /\ kernel' = kernel /\ rio' = rio /\ sent' = sent /\ over' = over /\ tiny' = tiny
      /\ proxy' = proxy /\ asked' = asked /\ script' = script /\ tinyQueue' = tinyQueue /\ proxyQueue' = proxyQueue
      /\ phase' = [phase EXCEPT ![c0] = "left"] /\ peer[s0] = "open"
  BY DEF Leave, connVars, tinyVars, proxyVars
<1>2. PICK end \in {"closed", "reset"} : peer' = [peer EXCEPT ![s0] = end]
  BY DEF Leave
<1>3. s0 \in Requests /\ s0 \in Streams
  BY Names
<1> HIDE DEF s0
<1>9. /\ peer' = [p \in Streams |-> peer'[p]] /\ \A p \in Streams \ {s0} : peer'[p] = peer[p]
      /\ peer'[s0] = end
  BY <1>0, <1>2, <1>3 DEF RioInv
<1>10. StreamsStep
  BY <1>0, <1>1, <1>9, ManyClosed
<1>11. /\ phase' \in [Clients -> {"new", "sent", "left"}] /\ phase'[c0] = "left"
       /\ \A c \in Clients \ {c0} : phase'[c] = phase[c]
  BY <1>0, <1>1 DEF TypeInv
<1>12. /\ \A s : TinyAt(s)' <=> TinyAt(s)
       /\ \A c : ProxyAt(c)' <=> ProxyAt(c)
       /\ \A c : Connected(c)' <=> Connected(c)
  BY <1>1 DEF TinyAt, ProxyAt, Connected
<1>13. TypeInv'
  BY <1>0, <1>1, <1>11 DEF TypeInv
<1>14. NewInv'
  <2> SUFFICES ASSUME NEW c \in Clients, phase'[c] = "new"
               PROVE  /\ RequestOf(c) \notin ToSet(tinyQueue') /\ RequestOf(c) \notin ToSet(proxyQueue')
                      /\ ~TinyAt(RequestOf(c))' /\ ~ProxyAt(c)'
                      /\ Untouched(RequestOf(c))' /\ over'[RequestOf(c)] = "no"
    BY DEF NewInv
  <2>0. c # c0
    BY <1>11
  <2>1. /\ RequestOf(c) \notin ToSet(tinyQueue) /\ RequestOf(c) \notin ToSet(proxyQueue) /\ ~ProxyAt(c)
        /\ ~TinyAt(RequestOf(c)) /\ Untouched(RequestOf(c)) /\ over[RequestOf(c)] = "no"
    BY <1>11, <2>0 DEF ControlInv, NewInv
  <2>2. RequestOf(c) # s0 /\ RequestOf(c) \in Streams
    BY <2>0, Names DEF s0
  <2> QED
    BY <2>1, <2>2, <1>1, <1>9, <1>12 DEF Untouched
<1>15. UnconnectedInv'
  <2> SUFFICES ASSUME NEW c \in Proxied, over'[RequestOf(c)] = "no", ~Connected(c)'
               PROVE  /\ ForwardOf(c) \notin ToSet(tinyQueue') /\ ~TinyAt(ForwardOf(c))'
                      /\ Untouched(ForwardOf(c))' /\ Untouched(ReplyOf(c))' /\ asked'[c] = <<>>
    BY DEF UnconnectedInv
  <2>1. /\ ForwardOf(c) \notin ToSet(tinyQueue) /\ ~TinyAt(ForwardOf(c))
        /\ Untouched(ForwardOf(c)) /\ Untouched(ReplyOf(c)) /\ asked[c] = <<>>
    BY <1>1, <1>12 DEF ControlInv, UnconnectedInv
  <2>2. ForwardOf(c) # s0 /\ ReplyOf(c) # s0 /\ ForwardOf(c) \in Streams /\ ReplyOf(c) \in Streams
    BY Names DEF s0
  <2> QED
    BY <2>1, <2>2, <1>1, <1>9, <1>12 DEF Untouched
<1>16. TinyQueueInv'
  BY <1>1, <1>12 DEF ControlInv, TinyQueueInv, TinyUp
<1>17. ProxyQueueInv'
  BY <1>1, <1>12 DEF ControlInv, ProxyQueueInv, ProxyUp
<1>18. ServingInv'
  BY <1>1 DEF ControlInv, ServingInv, Here
<1>19. CallingInv'
  BY <1>1 DEF ControlInv, CallingInv
<1>20. PeerInv'
  <2>1. \A c \in Clients : c # c0 => peer'[RequestOf(c)] = peer[RequestOf(c)]
    BY <1>9, Names DEF s0
  <2>2. \A c \in Proxied : peer'[ForwardOf(c)] = peer[ForwardOf(c)] /\ peer'[ReplyOf(c)] = peer[ReplyOf(c)]
    BY <1>9, Names DEF s0
  <2>3. peer'[RequestOf(c0)] # "open"
    BY <1>9 DEF s0
  <2>4. \A c \in Clients : peer'[RequestOf(c)] = "open" <=> phase'[c] # "left"
    BY <2>1, <2>3, <1>11 DEF ControlInv, PeerInv
  <2> QED
    BY <2>2, <2>4, <1>1, <1>12 DEF ControlInv, PeerInv, ProxyUp, TinyUp
<1>21. SendInv'
  BY <1>1, <1>12 DEF ControlInv, SendInv, TinyUp
<1> QED
  BY <1>10, <1>13, <1>14, <1>15, <1>16, <1>17, <1>18, <1>19, <1>20, <1>21, Assembled DEF OthersInv
-----------------------------------------------------------------------------
\* Whatever the proxy does, its streams are as they should be and the invariant stays.
LEMMA ProxyKeeps ==
    ASSUME ControlInv, ProxyStep
    PROVE  StreamsStep /\ ControlInv'
<1>0. RioInv /\ TypeInv /\ proxy \in ProxyType
  BY DEF ControlInv, TypeInv
<1>20. ASSUME proxy.pc \in {"requestline", "headers", "write", "connect", "send", "relay"}
       PROVE  /\ proxy.c \in Proxied
              /\ proxy.pc \notin {"requestline", "headers"} => ~rio[Here].calling
              /\ proxy.pc # "relay" => ~rio[ReplyOf(proxy.c)].calling
  BY <1>20, Names DEF ControlInv, CallingInv, ServingInv, Here
<1>1. CASE ProxyAccept
  BY <1>1, ProxyAcceptKeeps
<1>2. CASE ProxyRequestLine
  <2>1. proxy.pc = "requestline" /\ ~rio[Here].calling /\ ~rio[ReplyOf(proxy.c)].calling
    BY <1>2, <1>20 DEF ProxyRequestLine
  <2>2. CASE ProxyCloses
    BY <2>1, <2>2, ProxyClosesKeeps
  <2>3. CASE ProxyGoesOn([proxy EXCEPT !.pc = "write", !.out = reply_client_error, !.then = "close"])
    <3>1. PICK out \in Seq(Seq(Byte)) :
            out = reply_client_error
      BY Strings
    <3>1a. PICK state : state = [proxy EXCEPT !.pc = "write", !.out = out, !.then = "close"]
      OBVIOUS
    <3>2. ProxyLike(state, proxy, "write", "close")
      BY <1>0, <3>1, <3>1a, ProxyFormOut
    <3>3. ProxyGoesOn(state)
      BY <2>3, <3>1, <3>1a
    <3> QED
      BY <2>1, <3>2, <3>3, ProxyGoesOnKeeps DEF ProxyLike, PastConnect
  <2>4. CASE \E text \in ProxyTexts(rio[Here]) : \E at \in parse_uri(RequestLines[text].at) :
               ProxyGoesOn([proxy EXCEPT
                           !.pc = "write", !.then = "headers",
                           !.out = modify_http_version(RequestLines[text]),
                           !.text = text, !.at = at])
    <3>9. PICK text \in ProxyTexts(rio[Here]) : \E at \in parse_uri(RequestLines[text].at) :
               ProxyGoesOn([proxy EXCEPT
                           !.pc = "write", !.then = "headers",
                           !.out = modify_http_version(RequestLines[text]),
                           !.text = text, !.at = at])
      BY <2>4
    <3>1. PICK at \in parse_uri(RequestLines[text].at) :
               ProxyGoesOn([proxy EXCEPT
                           !.pc = "write", !.then = "headers",
                           !.out = modify_http_version(RequestLines[text]),
                           !.text = text, !.at = at])
      BY <3>9
    <3>2. text \in DOMAIN RequestLines
      BY TextsKnown DEF ProxyTexts
    <3>3. proxy.at \in ProxyAddress /\ RequestLines[text].at \in ProxyAddress
      BY <1>0, <3>2, Strings DEF ProxyType
    <3>4. at \in ProxyAddress
      BY <3>3, ParsedType
    <3>5. modify_http_version(RequestLines[text]) \in Seq(Seq(Byte))
      BY Strings DEF modify_http_version
    <3>6. PICK out \in Seq(Seq(Byte)) :
            out = modify_http_version(RequestLines[text])
      BY <3>5
    <3>6a. PICK state : state = [proxy EXCEPT !.pc = "write", !.then = "headers", !.out = out, !.text = text, !.at = at]
      OBVIOUS
    <3>7. ProxyLike(state, proxy, "write", "headers")
      BY <1>0, <3>2, <3>4, <3>6, <3>6a, ProxyFormLine
    <3>8. ProxyGoesOn(state)
      BY <3>1, <3>6, <3>6a
    <3> QED
      BY <2>1, <3>7, <3>8, ProxyGoesOnKeeps DEF ProxyLike, PastConnect
  <2> QED
    BY <1>2, <2>2, <2>3, <2>4 DEF ProxyRequestLine
<1>3. CASE ProxyWrite
  <2>1. proxy.pc = "write" /\ proxy.out # <<>> /\ ~rio[Here].calling /\ ~rio[ReplyOf(proxy.c)].calling
        /\ proxy.c \in Proxied
    BY <1>3, <1>20 DEF ProxyWrite
  <2>2. PICK outcome \in WriteOutcomes(Here) :
         \/ /\ outcome[1] # "ECONNRESET"
            /\ Written(Here, Head(proxy.out), outcome)
            /\ proxy' = [proxy EXCEPT !.out = Tail(proxy.out)]
            /\ UNCHANGED <<rio, over, tinyVars, proxyQueue, asked, clientVars>>
         \/ outcome[1] = "ECONNRESET" /\ ProxyExits
    BY <1>3 DEF ProxyWrite
  <2>3. CASE ProxyExits
    BY <2>1, <2>3, ProxyExitsKeeps
  <2>4. CASE /\ Written(Here, Head(proxy.out), outcome)
             /\ proxy' = [proxy EXCEPT !.out = Tail(proxy.out)]
             /\ UNCHANGED <<rio, over, tinyVars, proxyQueue, asked, clientVars>>
    <3>1. Tail(proxy.out) \in Seq(Seq(Byte)) /\ Head(proxy.out) \in Seq(Byte)
      <4>1. \A q \in Seq(Seq(Byte)) : q # <<>> => Tail(q) \in Seq(Seq(Byte)) /\ Head(q) \in Seq(Byte)
        OBVIOUS
      <4>2. proxy.out \in Seq(Seq(Byte))
        BY <1>0 DEF ProxyType
      <4> QED
        BY <2>1, <4>1, <4>2
    <3>2. PICK rest \in Seq(Seq(Byte)), bytes \in Seq(Byte) : rest = Tail(proxy.out) /\ bytes = Head(proxy.out)
      BY <3>1
    <3>3. ProxyLike(proxy', proxy, "write", proxy.then)
      BY <1>0, <2>1, <2>4, <3>2, ProxyFormRest
    <3>4. Here \in Requests /\ ReplyTo(Here) \notin Streams
      BY <2>1, Names DEF Here
    <3>5. Written(Here, bytes, outcome) /\ rio' = rio
      BY <2>4, <3>2
    <3>6. /\ StreamsStep /\ sent' \in [Requests -> Seq(Byte)]
          /\ \A p \in Streams \ {Here} : peer'[p] = peer[p]
          /\ \A p \in Streams : p # ReplyTo(Here) => kernel'[p] = kernel[p]
          /\ peer'[Here] = "open" <=> peer[Here] = "open"
      <4>1. sent \in [Requests -> Seq(Byte)] /\ RioInv
        BY <1>0 DEF TypeInv
      <4>2. ReplyTo(Here) \in Streams => peer[ReplyTo(Here)] = "open"
        BY <3>4
      <4> HIDE DEF Here
      <4> QED
        BY <3>4, <3>5, <4>1, <4>2, OneWrite
    <3>7. /\ rio' = rio /\ over' = over /\ tiny' = tiny /\ tinyQueue' = tinyQueue /\ proxyQueue' = proxyQueue
          /\ asked' = asked /\ script' = script /\ phase' = phase
      BY <2>4 DEF tinyVars, clientVars
    <3>8. TypeInv'
      BY <1>0, <3>3, <3>6, <3>7 DEF TypeInv, ProxyLike
    <3>9. \A p \in Streams : ~AtHand(p) => Quiet(p)
      BY <3>4, <3>6, <3>7 DEF Quiet, AtHand
    <3>10. \A p \in Streams : peer'[p] = "open" <=> peer[p] = "open"
      BY <3>6
    <3>11. PastConnect(proxy') <=> PastConnect(proxy)
      BY <2>1, <3>3 DEF ProxyLike, PastConnect
    <3>12. ProxyMoves
      BY <2>1, <3>3, <3>7, <3>9, <3>10, <3>11 DEF ProxyMoves, ProxyLike
    <3> QED
      BY <3>6, <3>8, <3>12, ProxyMovesKeeps, Assembled
  <2> QED
    BY <2>2, <2>3, <2>4
<1>4. CASE ProxyWritten
  <2>1. proxy.pc = "write" /\ ~rio[Here].calling /\ ~rio[ReplyOf(proxy.c)].calling
    BY <1>4, <1>20 DEF ProxyWritten
  <2>2. CASE ProxyCloses
    BY <2>1, <2>2, ProxyClosesKeeps
  <2>5. CASE ProxyExits
    BY <2>1, <2>5, ProxyExitsKeeps
  <2>3. CASE proxy.then = "headers" /\ ProxyCalls(Here, [proxy EXCEPT !.pc = "headers", !.first = TRUE,
                     !.request = <<RequestLines[proxy.text].file>> \o CRLF])
    <3>1. <<RequestLines[proxy.text].file>> \o CRLF \in Seq(Byte)
      BY <1>0, Strings DEF ProxyType
    <3>2. PICK request \in Seq(Byte), f \in BOOLEAN :
            /\ request = <<RequestLines[proxy.text].file>> \o CRLF /\ f = TRUE
      BY <3>1
    <3>2a. PICK state : state = [proxy EXCEPT !.pc = "headers", !.first = f, !.request = request]
      OBVIOUS
    <3>3. ProxyLike(state, proxy, "headers", "headers")
      BY <1>0, <2>3, <3>2, <3>2a, ProxyFormHeaders
    <3>4. ProxyCalls(Here, state)
      BY <2>3, <3>2, <3>2a
    <3> QED
      BY <2>1, <2>3, <3>3, <3>4, ProxyCallsKeeps DEF ProxyLike, PastConnect
  <2>4. CASE proxy.then = "relay" /\ ProxyCalls(ReplyOf(proxy.c), [proxy EXCEPT !.pc = "relay"])
    <3>1. PICK state : state = [proxy EXCEPT !.pc = "relay"]
      OBVIOUS
    <3>2. ProxyLike(state, proxy, "relay", "relay")
      BY <1>0, <2>4, <3>1, ProxyFormPc
    <3>3. ProxyCalls(ReplyOf(proxy.c), state)
      BY <2>4, <3>1
    <3> QED
      BY <2>1, <2>4, <3>2, <3>3, ProxyCallsKeeps DEF ProxyLike, PastConnect
  <2> QED
    BY <1>4, <2>2, <2>3, <2>4, <2>5 DEF ProxyWritten
<1>5. CASE ProxyHeaders
  <2>1. proxy.pc = "headers" /\ ~rio[Here].calling /\ ~rio[ReplyOf(proxy.c)].calling /\ proxy.c \in Proxied
    BY <1>5, <1>20 DEF ProxyHeaders
  <2>2. CASE ProxyCloses
    BY <2>1, <2>2, ProxyClosesKeeps
  <2>5. proxy.request \in Seq(Byte) /\ rio[Here].got \in Seq(Byte)
    <3>1. Here \in Streams
      BY <2>1, Names DEF Here
    <3> QED
      BY <1>0, <3>1 DEF ProxyType, RioInv, RioCall
  <2>3. CASE ProxyGoesOn([proxy EXCEPT !.pc = "connect", !.request = WithAdded(proxy.request)])
    <3>1. PICK request \in Seq(Byte) :
            request = WithAdded(proxy.request)
      BY <2>5, WithAddedType
    <3>1a. PICK state : state = [proxy EXCEPT !.pc = "connect", !.request = request]
      OBVIOUS
    <3>2. ProxyLike(state, proxy, "connect", proxy.then)
      BY <1>0, <3>1, <3>1a, ProxyFormHeaders
    <3>3. ProxyGoesOn(state)
      BY <2>3, <3>1, <3>1a
    <3> QED
      BY <2>1, <3>2, <3>3, ProxyGoesOnKeeps DEF ProxyLike, PastConnect
  <2>4. CASE ProxyCalls(Here, [proxy EXCEPT !.first = FALSE, !.request = proxy.request \o rio[Here].got])
    <3>1. proxy.request \o rio[Here].got \in Seq(Byte)
      BY <2>5, ConcatProperties
    <3>2. PICK request \in Seq(Byte), f \in BOOLEAN :
            /\ request = proxy.request \o rio[Here].got /\ f = FALSE
      BY <3>1
    <3>2a. PICK state : state = [proxy EXCEPT !.first = f, !.request = request]
      OBVIOUS
    <3>3. ProxyLike(state, proxy, "headers", proxy.then)
      BY <1>0, <2>1, <3>2, <3>2a, ProxyFormHeaders
    <3>4. ProxyCalls(Here, state)
      BY <2>4, <3>2, <3>2a
    <3> QED
      BY <2>1, <3>3, <3>4, ProxyCallsKeeps DEF ProxyLike, PastConnect
  <2> QED
    BY <1>5, <2>2, <2>3, <2>4 DEF ProxyHeaders
<1>6. CASE ProxyConnect
  <2>1. proxy.pc = "connect" /\ ~rio[Here].calling /\ ~rio[ReplyOf(proxy.c)].calling
    BY <1>6, <1>20 DEF ProxyConnect
  <2>2. CASE ProxyExits
    BY <2>1, <2>2, ProxyExitsKeeps
  <2>3. CASE /\ tiny.pc # "down"
             /\ tinyQueue' = Append(tinyQueue, ForwardOf(proxy.c))
             /\ proxy' = [proxy EXCEPT !.pc = "send"]
             /\ UNCHANGED <<rioVars, connVars, tiny, proxyQueue, asked, clientVars>>
    BY <2>1, <2>3, ProxyConnected
  <2> QED
    BY <1>6, <2>2, <2>3 DEF ProxyConnect
<1>7. CASE ProxySend
  <2>1. proxy.pc = "send" /\ ~rio[Here].calling /\ ~rio[ReplyOf(proxy.c)].calling
    BY <1>7, <1>20 DEF ProxySend
  <2>2. CASE ProxyExits
    BY <2>1, <2>2, ProxyExitsKeeps
  <2>3. CASE \E outcome \in WriteOutcomes(ReplyOf(proxy.c)) :
            /\ asked' = [asked EXCEPT ![proxy.c] = proxy.request]
            /\ kernel' = IF outcome[2] = "open"
                         THEN [kernel EXCEPT ![ForwardOf(proxy.c)] = kernel[ForwardOf(proxy.c)] \o proxy.request]
                         ELSE kernel
            /\ peer' = [peer EXCEPT ![ReplyOf(proxy.c)] = outcome[2]]
            /\ proxy' = [proxy EXCEPT !.pc = "write", !.out = <<>>, !.then = "relay"]
            /\ UNCHANGED <<rio, connVars, tinyVars, proxyQueue, clientVars>>
    BY <2>1, <2>3, ProxySends
  <2> QED
    BY <1>7, <2>2, <2>3 DEF ProxySend
<1>8. CASE ProxyRelay
  <2>1. proxy.pc = "relay" /\ ~rio[Here].calling /\ ~rio[ReplyOf(proxy.c)].calling /\ proxy.c \in Proxied
    BY <1>8, <1>20 DEF ProxyRelay
  <2>2. CASE ProxyCloses
    BY <2>1, <2>2, ProxyClosesKeeps
  <2>3. CASE ProxyGoesOn([proxy EXCEPT !.pc = "write", !.then = "relay",
                        !.out = IF rio[ReplyOf(proxy.c)].rc = -1 THEN <<>> ELSE <<rio[ReplyOf(proxy.c)].got>>])
    <3>1. (IF rio[ReplyOf(proxy.c)].rc = -1 THEN <<>> ELSE <<rio[ReplyOf(proxy.c)].got>>) \in Seq(Seq(Byte))
      <4>1. rio[ReplyOf(proxy.c)].got \in Seq(Byte)
        BY <1>0, <2>1, Names DEF RioInv, RioCall
      <4>2. \A x \in Seq(Byte) : <<x>> \in Seq(Seq(Byte))
        OBVIOUS
      <4> QED
        BY <4>1, <4>2, Strings
    <3>2. PICK out \in Seq(Seq(Byte)) :
            out = IF rio[ReplyOf(proxy.c)].rc = -1 THEN <<>> ELSE <<rio[ReplyOf(proxy.c)].got>>
      BY <3>1
    <3>2a. PICK state : state = [proxy EXCEPT !.pc = "write", !.then = "relay", !.out = out]
      OBVIOUS
    <3>3. ProxyLike(state, proxy, "write", "relay")
      BY <1>0, <3>2, <3>2a, ProxyFormOut
    <3>4. ProxyGoesOn(state)
      BY <2>3, <3>2, <3>2a
    <3> QED
      BY <2>1, <3>3, <3>4, ProxyGoesOnKeeps DEF ProxyLike, PastConnect
  <2> QED
    BY <1>8, <2>2, <2>3 DEF ProxyRelay
<1>9. CASE /\ \/ proxy.pc \in {"requestline", "headers"} /\ Read(Here)
              \/ proxy.pc = "relay" /\ Read(ReplyOf(proxy.c))
           /\ UNCHANGED <<connVars, tinyVars, proxyVars, clientVars>>
  <2>1. /\ tiny' = tiny /\ tinyQueue' = tinyQueue
        /\ sent' = sent /\ over' = over /\ proxy' = proxy /\ proxyQueue' = proxyQueue /\ asked' = asked
        /\ script' = script /\ phase' = phase
    BY <1>9 DEF tinyVars, connVars, proxyVars, clientVars
  <2>2. /\ Here \in Streams /\ ReplyOf(proxy.c) \in Streams /\ Here # ReplyOf(proxy.c)
    BY <1>9, <1>20, Names DEF Here
  <2>6. PICK s \in Streams : /\ Read(s) /\ AtHand(s)
                             /\ \/ s = Here /\ proxy.pc \in {"requestline", "headers"}
                                \/ s = ReplyOf(proxy.c) /\ proxy.pc = "relay"
    BY <1>9, <2>2 DEF AtHand, PastConnect
  <2>3. /\ StreamsStep
        /\ \A p \in Streams \ {s} : Quiet(p)
        /\ peer'[s] = "open" <=> peer[s] = "open"
    BY <1>0, <2>6, OneRead
  <2>4. TypeInv'
    BY <1>0, <2>1 DEF TypeInv
  <2>7. proxy.pc \in {"requestline", "headers", "relay"}
    BY <1>9
  <2>8. /\ \A p \in Streams : ~AtHand(p) => Quiet(p)
        /\ \A p \in Streams : peer'[p] = "open" <=> peer[p] = "open"
    BY <2>3, <2>6 DEF Quiet
  <2>9. rio'[Here].calling => proxy'.pc \in {"requestline", "headers"}
    BY <1>20, <2>1, <2>2, <2>3, <2>6 DEF Quiet
  <2>10. rio'[ReplyOf(proxy.c)].calling => proxy'.pc = "relay"
    BY <1>20, <2>1, <2>2, <2>3, <2>6, <2>7 DEF Quiet
  <2>5. ProxyMoves
    BY <2>1, <2>7, <2>8, <2>9, <2>10 DEF ProxyMoves
  <2> QED
    BY <2>3, <2>4, <2>5, ProxyMovesKeeps, Assembled
<1> QED
  BY <1>1, <1>2, <1>3, <1>4, <1>5, <1>6, <1>7, <1>8, <1>9 DEF ProxyStep

-----------------------------------------------------------------------------
\* The first state.
LEMMA InitControl == Init => ControlInv
<1> SUFFICES ASSUME Init PROVE ControlInv
  OBVIOUS
<1>1. /\ kernel = [s \in Streams |-> <<>>] /\ peer = [s \in Streams |-> "open"] /\ rio = [s \in Streams |-> NoCall]
      /\ tiny = NotServing /\ tinyQueue = <<>>
      /\ sent = [s \in Requests |-> <<>>] /\ over = [s \in Requests |-> "no"]
      /\ proxy \in {[NotRequested EXCEPT !.at = start] : start \in AtStart}
      /\ proxyQueue = <<>> /\ asked = [c \in Proxied |-> <<>>]
      /\ script \in Scripts /\ phase = [c \in Clients |-> "new"]
  BY DEF Init, RioInit, TinyInit, ProxyInit
<1>2. tiny \in TinyType /\ tiny.pc = "accept"
  BY <1>1, NotServingIs
<1>3. proxy \in ProxyType /\ proxy.pc = "accept"
  <2>1. PICK start \in AtStart : proxy = [NotRequested EXCEPT !.at = start]
    BY <1>1
  <2>2. start \in ProxyAddress
    BY RequestPathAssumption, Strings
  <2> QED
    BY <2>1, <2>2, NotRequestedIs
<1>4. NoCall \in RioCall /\ ~NoCall.calling /\ NoCall.rc = 0
  BY DEF NoCall, RioCall
<1>5. ToSet(tinyQueue) = {} /\ ToSet(proxyQueue) = {} /\ Distinct(tinyQueue) /\ Distinct(proxyQueue)
      /\ tinyQueue \in Seq(Requests) /\ proxyQueue \in Seq(Requests)
  BY <1>1 DEF ToSet, Distinct
<1>6. \A s \in Streams : Untouched(s)
  BY <1>1 DEF Untouched
<1>7. \A s \in Requests : over[s] = "no"
  BY <1>1
<1>10. RioInv
  <2>1. /\ kernel \in [Streams -> Seq(Byte)] /\ peer \in [Streams -> Peer] /\ rio \in [Streams -> RioCall]
    BY <1>1, <1>4 DEF Peer
  <2>2. \A s \in Streams : CallOK(s, rio[s]) /\ rio[s].rc # -1
    BY <1>1, <1>4 DEF CallOK
  <2> QED
    BY <2>1, <2>2 DEF RioInv
<1>11. TypeInv
  <2>1. /\ sent \in [Requests -> Seq(Byte)]
        /\ over \in [Requests -> {"no", "served", "dropped"}]
        /\ asked \in [Proxied -> Seq(Byte)]
        /\ phase \in [Clients -> {"new", "sent", "left"}]
    BY <1>1
  <2>2. script \in [Clients -> [lines : Seq(Seq(Byte)), leaves : BOOLEAN]]
    <3>1. \A S, T : S \subseteq T => \A x \in Seq(Seq(S)) : x \in Seq(Seq(T))
      <4>1. \A S, T : S \subseteq T => Seq(S) \subseteq Seq(T)
        OBVIOUS
      <4> QED
        BY <4>1
    <3>2. PICK S : S = STRING
      OBVIOUS
    <3>3. S \subseteq Byte
      BY <3>2 DEF Byte
    <3>4. \A x \in Seq(Seq(S)) : x \in Seq(Seq(Byte))
      BY <3>1, <3>3
    <3>5. script \in [Clients -> [lines : Seq(Seq(S)), leaves : BOOLEAN]]
      BY <1>1, <3>2, RequestPathAssumption
    <3> QED
      BY <3>4, <3>5
  <2> QED
    BY <1>2, <1>3, <1>5, <2>1, <2>2 DEF TypeInv
<1>12. NewInv
  BY <1>2, <1>3, <1>5, <1>6, <1>7, Names DEF NewInv, TinyAt, ProxyAt
<1>13. UnconnectedInv
  BY <1>1, <1>2, <1>5, <1>6, Names DEF UnconnectedInv, TinyAt
<1>14. TinyQueueInv /\ ProxyQueueInv
  BY <1>5 DEF TinyQueueInv, ProxyQueueInv
<1>15. ServingInv
  BY <1>2, <1>3 DEF ServingInv
<1>16. CallingInv
  BY <1>1, <1>4, Names, Servers DEF CallingInv
<1>17. PeerInv
  BY <1>1, <1>2, <1>5, Names DEF PeerInv, TinyAt
<1>18. SendInv
  BY <1>3 DEF SendInv
<1> QED
  BY <1>10, <1>11, <1>12, <1>13, <1>14, <1>15, <1>16, <1>17, <1>18 DEF ControlInv

\* Every step keeps the invariant and the promise of Rio.
LEMMA StepControl ==
    ASSUME ControlInv, Next
    PROVE  StreamsStep /\ ControlInv'
  BY TinyKeeps, ProxyKeeps, SendKeeps, LeaveKeeps DEF Next

\* So does a step that changes nothing.
LEMMA StutterControl ==
    ASSUME ControlInv, UNCHANGED vars
    PROVE  StreamsStep /\ ControlInv'
<1>1. /\ kernel' = kernel /\ peer' = peer /\ rio' = rio /\ sent' = sent /\ over' = over
      /\ tiny' = tiny /\ tinyQueue' = tinyQueue /\ proxy' = proxy /\ proxyQueue' = proxyQueue
      /\ asked' = asked /\ script' = script /\ phase' = phase
  BY DEF vars, rioVars, connVars, tinyVars, proxyVars, clientVars
<1>2. StreamsStep
  BY <1>1, AllQuiet DEF ControlInv
<1>3. ControlInv'
  BY <1>1 DEF ControlInv, RioInv, TypeInv, NewInv, UnconnectedInv, TinyQueueInv, ProxyQueueInv, ServingInv,
              CallingInv, PeerInv, SendInv, Untouched, TinyAt, ProxyAt, TinyUp, ProxyUp, Connected, Here
<1> QED
  BY <1>2, <1>3
-----------------------------------------------------------------------------
\* In every state.
THEOREM ControlInvariant == FairSpec => []ControlInv
<1>1. ControlInv /\ [Next]_vars => ControlInv'
  BY StepControl, StutterControl
<1>2. FairSpec => Init /\ [][Next]_vars
  BY PTL DEF FairSpec
<1> QED
  BY InitControl, <1>1, <1>2, PTL

\* What the callers of Rio see, stream by stream.
LEMMA SeenIs == Seen = [s \in Streams |-> ViewOf(rio[s], kernel[s], peer[s])]
  BY DEF Seen, ViewOf, View

\* A step of the streams is a step of those that ByteStreams sees.
LEMMA SeenStep ==
    ASSUME RioInv, RioInv', StreamsStep
    PROVE  [Promise!Next]_Seen
<1>1. ASSUME NEW s \in Streams
      PROVE  \/ ViewOf(rio'[s], kernel'[s], peer'[s]) = ViewOf(rio[s], kernel[s], peer[s])
             \/ Promise!Step(s, ViewOf(rio[s], kernel[s], peer[s]), ViewOf(rio'[s], kernel'[s], peer'[s]))
  <2>0. PICK r \in RioCall, k \in Seq(Byte), p \in Peer, r2 \in RioCall, k2 \in Seq(Byte), p2 \in Peer :
          /\ r = rio[s] /\ k = kernel[s] /\ p = peer[s]
          /\ r2 = rio'[s] /\ k2 = kernel'[s] /\ p2 = peer'[s]
    BY DEF RioInv
  <2>1. CallOK(s, r) /\ CallOK(s, r2)
    BY <2>0 DEF RioInv
  <2>2. StreamStep(s)
    BY DEF StreamsStep
  <2>3. \/ k2 = k /\ r2 = r /\ p2 = p
        \/ k2 = k /\ r2 = r /\ p2 # "open"
        \/ p = "open" /\ p2 = p /\ r2 = r /\ \E bytes \in Seq(Byte) : k2 = k \o bytes
        \/ ~r.calling /\ CallsOn(s, r, r2) /\ k2 = k /\ p2 = p
        \/ r.calling /\ ReadsOn(s, r, k, r2, k2) /\ p2 = p
        \/ /\ r.calling /\ k = <<>> /\ p # "open" /\ p2 = p /\ k2 = k
           /\ ~r2.calling /\ r2.got = r.got /\ r2.buf = r.buf
        \/ /\ r.calling /\ k = <<>> /\ p # "open" /\ p2 # "open" /\ k2 = k
           /\ ~r2.calling /\ r2.got = <<>> /\ r2.buf = r.buf
    <3>1. CASE Quiet(s)
      BY <3>1, <2>0 DEF Quiet
    <3>2. CASE Closing(s)
      BY <3>2, <2>0 DEF Closing
    <3>3. CASE Growing(s)
      BY <3>3, <2>0 DEF Growing
    <3>4. CASE Calling(s)
      <4>1. CallsOn(s, r, Copied(s, [r EXCEPT !.got = <<>>]))
        BY CallIs
      <4> QED
        BY <3>4, <4>1, <2>0 DEF Calling
    <3>5. CASE Reading(s)
      <4>1. CASE ReadsOn(s, rio[s], kernel[s], rio'[s], kernel'[s]) /\ peer'[s] = peer[s]
        BY <3>5, <4>1, <2>0 DEF Reading
      <4>2. CASE /\ kernel[s] = <<>> /\ peer[s] \notin {"open", "reset"}
                 /\ rio'[s] = [rio[s] EXCEPT !.calling = FALSE, !.rc = Len(rio[s].got)]
                 /\ kernel'[s] = kernel[s] /\ peer'[s] = peer[s]
        <5>1. PICK n : r2 = [r EXCEPT !.calling = FALSE, !.rc = n]
          BY <4>2, <2>0
        <5>2. ~r2.calling /\ r2.got = r.got /\ r2.buf = r.buf
          BY <5>1 DEF RioCall
        <5> QED
          BY <3>5, <4>2, <5>2, <2>0 DEF Reading
      <4>3. CASE /\ kernel[s] = <<>> /\ peer[s] = "reset"
                 /\ rio'[s] = [rio[s] EXCEPT !.calling = FALSE, !.got = <<>>, !.rc = -1]
                 /\ kernel'[s] = kernel[s] /\ peer'[s] = "noticed"
        <5>1. PICK n, none : none = <<>> /\ r2 = [r EXCEPT !.calling = FALSE, !.got = none, !.rc = n]
          BY <4>3, <2>0
        <5>2. ~r2.calling /\ r2.got = none /\ r2.buf = r.buf
          BY <5>1 DEF RioCall
        <5> QED
          BY <3>5, <4>3, <5>1, <5>2, <2>0 DEF Reading
      <4> QED
        BY <3>5, <4>1, <4>2, <4>3 DEF Reading
    <3> QED
      BY <2>2, <3>1, <3>2, <3>3, <3>4, <3>5 DEF StreamStep
  <2>4. ViewOf(r2, k2, p2) = ViewOf(r, k, p) \/ Promise!Step(s, ViewOf(r, k, p), ViewOf(r2, k2, p2))
    BY <2>1, <2>3, StreamPromise
  <2> QED
    BY <2>0, <2>4, Zenon
<1>2. /\ \A s \in Streams : Seen[s] = ViewOf(rio[s], kernel[s], peer[s])
      /\ \A s \in Streams : Seen'[s] = ViewOf(rio'[s], kernel'[s], peer'[s])
  <2>1. Seen' = [s \in Streams |-> ViewOf(rio'[s], kernel'[s], peer'[s])]
    BY DEF Seen, ViewOf, View
  <2> QED
    BY <2>1, SeenIs
<1>3. \A s \in Streams : Seen'[s] = Seen[s] \/ Promise!Step(s, Seen[s], Seen'[s])
  BY <1>1, <1>2, Zenon
<1> QED
  BY <1>3 DEF Promise!Next

\* However the kernel cuts the streams into pieces, and whoever closes an end at
\* whatever time, the callers of Rio get their lines and blocks (ReadsInOrder).
THEOREM StreamsReadInOrder == FairSpec => ReadsInOrder
<1>1. Init => Promise!Init
  <2> SUFFICES ASSUME Init PROVE Seen = [s \in Streams |-> Promise!Fresh]
    BY DEF Promise!Init
  <2>1. \A s \in Streams : rio[s] = NoCall /\ kernel[s] = <<>> /\ peer[s] = "open"
    BY DEF Init, RioInit
  <2>2. ASSUME NEW s \in Streams PROVE ViewOf(rio[s], kernel[s], peer[s]) = Promise!Fresh
    <3>5. <<>> \in Seq(Byte) /\ \A q \in Seq(Byte) : q \o <<>> = q
      BY ConcatEmptySeq
    <3>1. PICK none \in Seq(Byte) : none = <<>> /\ (none \o none) \o none = none
      BY <3>5
    <3>2. PICK r, k, p : r = rio[s] /\ k = kernel[s] /\ p = peer[s]
      OBVIOUS
    <3>3. r.got = none /\ r.buf = none /\ r.calling = FALSE /\ k = none /\ p = "open"
      BY <2>1, <3>1, <3>2 DEF NoCall
    <3>4. ViewOf(r, k, p) = View((none \o none) \o none, none, FALSE, FALSE)
      BY <3>1, <3>3 DEF ViewOf
    <3> QED
      BY <3>1, <3>2, <3>4 DEF View, Promise!Fresh
  <2> QED
    BY <2>2, SeenIs
<1>2. ControlInv /\ ControlInv' /\ [Next]_vars => [Promise!Next]_Seen
  <2>1. ControlInv => RioInv
    BY DEF ControlInv
  <2>2. ControlInv' => RioInv'
    BY DEF ControlInv
  <2> QED
    BY <2>1, <2>2, StepControl, StutterControl, SeenStep
<1>3. FairSpec => Init /\ [][Next]_vars
  BY PTL DEF FairSpec
<1> QED
  BY <1>1, <1>2, <1>3, ControlInvariant, PTL DEF ReadsInOrder, Promise!Spec
-----------------------------------------------------------------------------
\* Who brings a server down (FaultsContained).  A server that fails when it reads
\* or writes does so because the other end is gone, and PeerInv says whose doing
\* that is.  The other failures, an empty file and a name that is not found, come
\* from a request line, and it must be shown that somebody has sent it.

\* A reset has been found, and nothing is left to read.
Hit(r, k, p) == r.buf = <<>> /\ k = <<>> /\ p = "noticed"

\* What the first call on a stream finds when bytes are all that was written to
\* it: nothing is lost before the call returns; then it has the first byte, or
\* there was none, or it was hit by a reset.
FirstCall(r, k, p, bytes) ==
    /\ r.calling => r.got \o k = bytes
    /\ ~r.calling =>
         \/ r.rc = 0
         \/ r.rc = -1 /\ Hit(r, k, p)
         \/ r.rc > 0 /\ r.got # <<>> /\ bytes # <<>> /\ r.got[1] = bytes[1]
OnFirstCall(s, bytes) == FirstCall(rio[s], kernel[s], peer[s], bytes)

FirstInv ==
    /\ TinyUp => \A c \in Direct : RequestOf(c) \in ToSet(tinyQueue) => kernel[RequestOf(c)] = Sends(c)
    /\ ProxyUp => \A c \in Proxied : RequestOf(c) \in ToSet(proxyQueue) => kernel[RequestOf(c)] = Sends(c)
    /\ \A c \in Direct : tiny.pc = "requestline" /\ tiny.s = RequestOf(c) => OnFirstCall(tiny.s, Sends(c))
    /\ proxy.pc = "requestline" => OnFirstCall(Here, Sends(proxy.c))
    /\ TinyUp /\ ProxyUp => \A c \in Proxied :
         /\ ForwardOf(c) \in ToSet(tinyQueue) => kernel[ForwardOf(c)] = asked[c]
         /\ tiny.pc = "requestline" /\ tiny.s = ForwardOf(c) => OnFirstCall(tiny.s, asked[c])

\* The request line that the proxy has accepted is its client's, unless a reset
\* has taken it: then the headers will not be read to their end.
HeadersNext == (proxy.pc = "write" /\ proxy.then = "headers") \/ proxy.pc = "headers"
Lost == /\ Hit(rio[Here], kernel[Here], peer[Here])
        /\ proxy.pc = "headers" =>
             rio[Here].got = <<>> /\ (~rio[Here].calling => rio[Here].rc = 0)
IsAsked == RequestLines[proxy.text] \in Gets(proxy.c)

TextInv ==
    /\ HeadersNext => IsAsked \/ Lost
    /\ proxy.pc \in {"connect", "send"} => IsAsked
    /\ proxy.pc \in {"headers", "connect", "send"} =>
         proxy.request # <<>> /\ proxy.request[1] = RequestLines[proxy.text].file
    /\ \A c \in Proxied : asked[c] # <<>> => \E r \in Gets(c) : asked[c][1] = r.file

\* Why a server may fail.
AsksForEmpty == \E c \in Clients : \E r \in Gets(c) : r.file = "empty"
SomeoneLeft(clients) == \E c \in clients : phase[c] = "left"
BadName == \E c \in Proxied : SpoiltName(c) \/ \E r \in Gets(c) : ~r.urlOK \/ r.at \notin TinysAddresses

EmptyInv == tiny.then = "mmap" => AsksForEmpty \/ ~ProxyUp

\* Neither array holds more than this client or one before has asked for, or than
\* it held at the start; and the address that is looked up is tiny's, or bad.
PastHost(p) == p.pc \in {"headers", "connect", "send", "relay"} \/ (p.pc = "write" /\ p.then # "close")
NameKnown(c, part) ==
    /\ over[RequestOf(c)] # "no" \/ (PastHost(proxy) /\ c = proxy.c)
    /\ \E r \in Gets(c) : Len(proxy.at[part]) <= Len(r.at[part])
FromStart(part) == \E start \in AtStart : Len(proxy.at[part]) <= Len(start[part])

HostInv ==
    \/ SomeoneLeft(Proxied)
    \/ /\ \A part \in {"host", "port"} : FromStart(part) \/ \E c \in Proxied : NameKnown(c, part)
       /\ HeadersNext \/ proxy.pc = "connect" => proxy.at \in TinysAddresses \/ BadName

FaultInv == ControlInv /\ FirstInv /\ TextInv /\ EmptyInv /\ HostInv /\ FaultsContained

\* Nothing that a client has asked for is taken back.
LEMMA GetsGrow ==
    ASSUME script' = script, NEW c, phase[c] # "new" => phase'[c] # "new"
    PROVE  Gets(c) \subseteq Gets(c)'
<1>1. Sends(c)' = Sends(c)
  BY DEF Sends, Lines
<1> QED
  BY <1>1 DEF Gets

\* The reasons for which a server may fail, once there, stay.
ReasonsStay ==
    /\ \A c \in Clients : Gets(c) \subseteq Gets(c)'
    /\ AsksForEmpty => AsksForEmpty'
    /\ \A cs \in SUBSET Clients : SomeoneLeft(cs) => SomeoneLeft(cs)'
    /\ BadName => BadName'

\* They do whenever clients only go on.
LEMMA Reasons ==
    ASSUME script' = script,
           \A c \in Clients : /\ phase[c] # "new" => phase'[c] # "new"
                              /\ phase[c] = "left" => phase'[c] = "left"
    PROVE  ReasonsStay
<1>1. \A c \in Clients : Gets(c) \subseteq Gets(c)'
  BY GetsGrow
<1>2. AsksForEmpty => AsksForEmpty'
  BY <1>1 DEF AsksForEmpty
<1>3. \A cs \in SUBSET Clients : SomeoneLeft(cs) => SomeoneLeft(cs)'
  BY DEF SomeoneLeft
<1>4. BadName => BadName'
  <2>1. \A c \in Proxied : SpoiltName(c) => SpoiltName(c)'
    BY <1>1, Names DEF SpoiltName
  <2>2. \A c \in Proxied : Gets(c) \subseteq Gets(c)'
    BY <1>1, Names
  <2> QED
    BY <2>1, <2>2 DEF BadName
<1> QED
  BY <1>1, <1>2, <1>3, <1>4 DEF ReasonsStay

\* What servers do leaves the clients as they are.
LEMMA ReasonsSame ==
    ASSUME script' = script, phase' = phase
    PROVE  ReasonsStay /\ \A c : Gets(c)' = Gets(c) /\ Sends(c)' = Sends(c)
<1>1. \A c : Gets(c)' = Gets(c) /\ Sends(c)' = Sends(c)
  BY DEF Gets, Sends, Lines
<1>2. ReasonsStay
  BY Reasons
<1> QED
  BY <1>1, <1>2

\* A first call goes on, and ends as it should.
LEMMA FirstCallKept ==
    ASSUME RioInv, NEW s \in Streams, NEW bytes, OnFirstCall(s, bytes),
           Quiet(s) \/ Closing(s) \/ Reading(s)
    PROVE  FirstCall(rio'[s], kernel'[s], peer'[s], bytes)
<1>0. PICK r \in RioCall, k \in Seq(Byte), p \in Peer : r = rio[s] /\ k = kernel[s] /\ p = peer[s]
  BY DEF RioInv
<1>1. FirstCall(r, k, p, bytes) /\ CallOK(s, r)
  BY <1>0 DEF OnFirstCall, RioInv
<1>2. CASE Quiet(s)
  BY <1>0, <1>1, <1>2 DEF Quiet
<1>3. CASE Closing(s)
  BY <1>0, <1>1, <1>3 DEF Closing, FirstCall, Hit
<1>4. CASE Reading(s)
  <2>1. r.calling /\ r.got \in Seq(Byte) /\ r.buf = <<>> /\ r.got \o k = bytes
    BY <1>0, <1>1, <1>4 DEF Reading, FirstCall, CallOK, RioCall
  <2>2. CASE ReadsOn(s, r, k, rio'[s], kernel'[s])
    <3>1. PICK r2 \in RioCall, k2 \in Seq(Byte) : r2 = rio'[s] /\ k2 = kernel'[s]
      BY <2>2 DEF ReadsOn, CallOK
    <3>2. ReadsOn(s, r, k, r2, k2)
      BY <2>2, <3>1
    <3>3. PICK got \in Seq(Byte), buf \in Seq(Byte) : got = r2.got /\ buf = r2.buf
      BY DEF RioCall
    <3>4. (got \o buf) \o k2 = bytes
      BY <2>1, <3>2, <3>3 DEF ReadsOn
    <3>5. CASE r2.calling
      <4>1. buf = <<>>
        BY <3>2, <3>3, <3>5 DEF ReadsOn, CallOK
      <4>2. got \o buf = got
        BY <4>1, ConcatEmptySeq
      <4> QED
        BY <3>1, <3>3, <3>4, <3>5, <4>2 DEF FirstCall
    <3>6. CASE ~r2.calling
      <4>1. got # <<>> /\ r2.rc = Len(got)
        BY <3>2, <3>3, <3>6 DEF ReadsOn, Piece
      <4>2. Len(got) > 0 /\ bytes # <<>> /\ bytes[1] = got[1]
        <5>1. PICK u \in Seq(Byte) : u = got \o buf
          BY ConcatProperties
        <5>2. Len(got) > 0 /\ Len(u) >= Len(got) /\ u[1] = got[1]
          BY <4>1, <5>1
        <5>3. bytes = u \o k2
          BY <3>4, <5>1
        <5>4. Len(u \o k2) > 0 /\ (u \o k2)[1] = u[1]
          BY <5>2
        <5> QED
          BY <5>2, <5>3, <5>4
      <4> QED
        BY <3>1, <3>3, <3>6, <4>1, <4>2 DEF FirstCall
    <3> QED
      BY <3>5, <3>6
  <2>3. CASE /\ k = <<>> /\ rio'[s] = [r EXCEPT !.calling = FALSE, !.rc = Len(r.got)]
    <3>1. PICK n : n = Len(r.got) /\ rio'[s] = [r EXCEPT !.calling = FALSE, !.rc = n]
      BY <2>3
    <3>2. ~rio'[s].calling /\ rio'[s].rc = n /\ rio'[s].got = r.got
      BY <3>1 DEF RioCall
    <3>3. PICK got \in Seq(Byte) : got = r.got
      BY <2>1
    <3>4. got = bytes
      BY <2>1, <2>3, <3>3, ConcatEmptySeq
    <3>5. n = 0 \/ (n > 0 /\ got # <<>>)
      BY <3>1, <3>3
    <3> QED
      BY <3>2, <3>3, <3>4, <3>5 DEF FirstCall
  <2>4. CASE /\ k = <<>> /\ rio'[s] = [r EXCEPT !.calling = FALSE, !.got = <<>>, !.rc = -1]
             /\ kernel'[s] = k /\ peer'[s] = "noticed"
    <3>1. PICK n, none : n = -1 /\ none = <<>> /\ rio'[s] = [r EXCEPT !.calling = FALSE, !.got = none, !.rc = n]
      BY <2>4
    <3>2. ~rio'[s].calling /\ rio'[s].rc = n /\ rio'[s].buf = r.buf
      BY <3>1 DEF RioCall
    <3> QED
      BY <2>1, <2>4, <3>1, <3>2 DEF FirstCall, Hit
  <2> QED
    BY <1>0, <1>4, <2>2, <2>3, <2>4 DEF Reading
<1> QED
  BY <1>2, <1>3, <1>4

\* A first call on a stream where nothing has been read has everything to come.
LEMMA FirstCallBegins ==
    ASSUME NEW s \in Streams, NEW k \in Seq(Byte), NEW p
    PROVE  FirstCall(Copied(s, [NoCall EXCEPT !.got = <<>>]), k, p, k)
<1>1. PICK c : c = Copied(s, [NoCall EXCEPT !.got = <<>>])
  OBVIOUS
<1>2. c.calling /\ c.got = <<>>
  BY <1>1, FirstCallWaits
<1>3. <<>> \o k = k
  BY ConcatEmptySeq
<1>4. c.got \o k = k
  BY <1>2, <1>3
<1> QED
  BY <1>1, <1>2, <1>4 DEF FirstCall

\* What is taken from a line depends on how it begins.
LEMMA SameTexts ==
    ASSUME NEW x, NEW y, x[1] = y[1]
    PROVE  Texts(x) = Texts(y)
  BY DEF Texts

-----------------------------------------------------------------------------
\* Which streams of requests a step of tiny touches, and what it does to the
\* first call on one of them.
TinyTouches ==
    /\ \A p \in Requests : ~TinyAt(p) /\ ~TinyAt(p)' => Quiet(p)
    /\ \A c \in Proxied : over'[RequestOf(c)] = over[RequestOf(c)]
    /\ TinyUp /\ (tinyQueue' = tinyQueue \/ (tinyQueue # <<>> /\ tinyQueue' = Tail(tinyQueue)))
    /\ tiny'.pc = "requestline" =>
         \/ tiny'.s = tiny.s /\ tiny.pc = "requestline" /\ Reading(tiny.s)
         \/ /\ tinyQueue # <<>> /\ tiny'.s = Head(tinyQueue)
            /\ rio'[tiny'.s] = Copied(tiny'.s, [rio[tiny'.s] EXCEPT !.got = <<>>])
            /\ kernel'[tiny'.s] = kernel[tiny'.s]

\* Closing connections touches no stream of requests.
LEMMA HangupQuiet ==
    ASSUME ControlInv, tiny.pc \notin {"accept", "down"}, TinyCloses \/ TinyExits
    PROVE  /\ \A p \in Requests : Quiet(p)
           /\ \A c \in Proxied : over'[RequestOf(c)] = over[RequestOf(c)]
           /\ tinyQueue' = tinyQueue /\ tiny'.pc \in {"accept", "down"}
<1>0. /\ RioInv /\ over \in [Requests -> {"no", "served", "dropped"}] /\ tiny \in TinyType
      /\ tiny.s \in TinysRequests /\ ToSet(tinyQueue) \subseteq TinysRequests
  BY DEF ControlInv, TypeInv, ServingInv, TinyQueueInv, TinyUp
<1>1. TinysRequests \subseteq Requests /\ \A c \in Proxied : RequestOf(c) \in Requests \ TinysRequests
  BY Servers, Names
<1>2. PICK dropped : /\ dropped \subseteq Requests
                     /\ peer' = Hangup({tiny.s}, dropped)
  <2>1. CASE TinyCloses
    BY <2>1 DEF TinyCloses
  <2>2. CASE TinyExits
    BY <2>2, <1>0, <1>1 DEF TinyExits
  <2> QED
    BY <2>1, <2>2
<1>3. \A p \in Requests : peer'[p] = peer[p]
  BY <1>0, <1>1, <1>2, HangupIs, Names
<1>4. kernel' = kernel /\ rio' = rio /\ tinyQueue' = tinyQueue
  BY DEF TinyCloses, TinyExits
<1>5. tiny'.pc \in {"accept", "down"}
  <2>1. CASE TinyCloses
    BY <2>1, NotServingIs DEF TinyCloses
  <2>2. CASE TinyExits
    <3>1. TinyLike([tiny EXCEPT !.pc = "down"], tiny, "down")
      BY <1>0, TinyFormPc
    <3> QED
      BY <2>2, <3>1 DEF TinyExits, TinyLike
  <2> QED
    BY <2>1, <2>2
<1>6. \A c \in Proxied : over'[RequestOf(c)] = over[RequestOf(c)]
  <2>1. CASE TinyCloses
    BY <2>1, <1>0, <1>1 DEF TinyCloses
  <2>2. CASE TinyExits
    BY <2>2, <1>0, <1>1 DEF TinyExits
  <2> QED
    BY <2>1, <2>2
<1> QED
  BY <1>3, <1>4, <1>5, <1>6, Names DEF Quiet

\* The streams of requests under tiny.
LEMMA TinyFrame ==
    ASSUME ControlInv, TinyStep
    PROVE  TinyTouches
<1>0. /\ RioInv /\ over \in [Requests -> {"no", "served", "dropped"}] /\ tiny \in TinyType
      /\ sent \in [Requests -> Seq(Byte)] /\ tinyQueue \in Seq(Requests)
      /\ (tiny.pc # "accept" => tiny.s \in Requests)
      /\ Requests \subseteq Streams
  BY Servers, Names DEF ControlInv, TypeInv, ServingInv
<1>1. CASE TinyAccept
  <2>1. PICK h \in Requests : h = Head(tinyQueue)
    <3>1. tinyQueue # <<>>
      BY <1>1 DEF TinyAccept
    <3> QED
      BY <1>0, <3>1
  <2>2. PICK t : t = [NotServing EXCEPT !.pc = "requestline", !.s = h]
    OBVIOUS
  <2>3. t.pc = "requestline" /\ t.s = h
    BY <2>2 DEF NotServing
  <2>4. /\ tiny' = t /\ rio' = Called(h) /\ kernel' = kernel /\ peer' = peer /\ over' = over
        /\ tiny.pc = "accept" /\ tinyQueue # <<>> /\ tinyQueue' = Tail(tinyQueue)
    BY <1>1, <2>1, <2>2 DEF TinyAccept, connVars
  <2>5. \A p \in Streams : p # h => rio'[p] = rio[p]
    BY <1>0, <2>4 DEF Called, RioInv
  <2>6. rio'[h] = Copied(h, [rio[h] EXCEPT !.got = <<>>])
    BY <1>0, <2>1, <2>4 DEF Called, RioInv
  <2>7. \A p \in Requests : ~TinyAt(p)' => Quiet(p)
    BY <1>0, <2>3, <2>4, <2>5 DEF TinyAt, Quiet
  <2> QED
    BY <2>1, <2>3, <2>4, <2>6, <2>7 DEF TinyTouches, TinyUp
<1>2. CASE TinyCloses /\ tiny.pc \notin {"accept", "down"}
  BY <1>2, HangupQuiet DEF TinyTouches, TinyUp
<1>3. CASE TinyExits /\ tiny.pc \notin {"accept", "down"}
  BY <1>3, HangupQuiet DEF TinyTouches, TinyUp
<1>4. ASSUME tiny.pc \notin {"accept", "down"}, NEW t, tiny' = t, t.pc \notin {"requestline", "accept"},
             \A p \in Streams \ {tiny.s} : rio'[p] = rio[p] /\ peer'[p] = peer[p],
             \A p \in Requests \ {tiny.s} : kernel'[p] = kernel[p],
             tinyQueue' = tinyQueue, over' = over
      PROVE  TinyTouches
  <2>1. \A p \in Requests : ~TinyAt(p) => Quiet(p)
    BY <1>0, <1>4 DEF TinyAt, Quiet
  <2> QED
    BY <1>4, <2>1 DEF TinyTouches, TinyUp
<1>5. ASSUME NEW call, TinyGoOn(call), call.pc \notin {"requestline", "accept"}, tiny.pc \notin {"accept", "down"}
      PROVE  TinyTouches
  BY <1>4, <1>5, <1>0 DEF TinyGoOn, rioVars, connVars
<1>6. ASSUME NEW call, Call(tiny.s, call), call.pc = "headers", tiny.pc \notin {"accept", "down"}
      PROVE  TinyTouches
  <2>1. rio' = Called(tiny.s) /\ kernel' = kernel /\ peer' = peer /\ tinyQueue' = tinyQueue /\ over' = over
        /\ tiny' = call
    BY <1>6 DEF Call, connVars
  <2>2. \A p \in Streams \ {tiny.s} : rio'[p] = rio[p]
    BY <1>0, <2>1 DEF Called, RioInv
  <2> QED
    BY <1>0, <1>4, <1>6, <2>1, <2>2
<1>7. ASSUME tiny.pc \in {"write", "wait"}, NEW t, tiny' = t, t.pc \notin {"requestline", "accept"},
             UNCHANGED <<rio, tinyQueue, over>>,
             NEW bytes, NEW outcome, Written(tiny.s, bytes, outcome)
      PROVE  TinyTouches
  <2>1. peer' = [peer EXCEPT ![tiny.s] = outcome[2]]
    BY <1>7 DEF Written
  <2>2. \A p \in Streams \ {tiny.s} : rio'[p] = rio[p] /\ peer'[p] = peer[p]
    BY <1>0, <1>7, <2>1 DEF RioInv
  <2>3. \A p \in Requests : kernel'[p] = kernel[p]
    <3>1. ASSUME ReplyTo(tiny.s) \in Streams PROVE ReplyTo(tiny.s) \notin Requests
      <4>1. tiny.s \in Requests
        BY <1>0, <1>7
      <4> QED
        BY <3>1, <4>1, Servers, Names
    <3> QED
      BY <3>1, <1>0, <1>7 DEF Written, RioInv
  <2> QED
    BY <1>4, <1>7, <2>2, <2>3
<1>8. CASE TinyRequestLine
  <2>1. tiny.pc = "requestline"
    BY <1>8 DEF TinyRequestLine
  <2>2. CASE TinyGoOn([tiny EXCEPT !.pc = "write", !.out = clienterror, !.then = "close"])
    <3>0. PICK out \in Seq(Seq(Byte)) : out = clienterror
      BY TinyWrites
    <3>1. PICK call : call = [tiny EXCEPT !.pc = "write", !.out = out, !.then = "close"]
      OBVIOUS
    <3>2. TinyLike(call, tiny, "write")
      BY <1>0, <3>1, TinyFormOut
    <3> QED
      BY <2>1, <2>2, <3>0, <3>1, <3>2, <1>5 DEF TinyLike
  <2>3. CASE \E file :
               Call(tiny.s, [tiny EXCEPT !.pc = "headers", !.first = TRUE,
                                         !.out = ReplyFor(file).out, !.then = ReplyFor(file).then])
    <3>1. PICK out \in Seq(Seq(Byte)), then \in {"none", "close", "mmap", "wait"} :
            Call(tiny.s, [tiny EXCEPT !.pc = "headers", !.first = TRUE, !.out = out, !.then = then])
      BY <2>3, TinyWrites
    <3>2. PICK call : call = [tiny EXCEPT !.pc = "headers", !.first = TRUE, !.out = out, !.then = then]
      OBVIOUS
    <3>3. TinyLike(call, tiny, "headers")
      BY <1>0, <3>1, <3>2, TinyFormHeaders
    <3> QED
      BY <2>1, <3>1, <3>2, <3>3, <1>6 DEF TinyLike
  <2> QED
    BY <1>8, <2>1, <2>2, <2>3, <1>2, <1>3 DEF TinyRequestLine
<1>9. CASE TinyHeaders
  <2>1. tiny.pc = "headers"
    BY <1>9 DEF TinyHeaders
  <2>2. CASE TinyGoOn([tiny EXCEPT !.pc = "write"])
    <3>1. PICK call : call = [tiny EXCEPT !.pc = "write"]
      OBVIOUS
    <3>2. TinyLike(call, tiny, "write")
      BY <1>0, <3>1, TinyFormPc
    <3> QED
      BY <2>1, <2>2, <3>1, <3>2, <1>5 DEF TinyLike
  <2>3. PICK call : call = [tiny EXCEPT !.first = FALSE]
    OBVIOUS
  <2>4. TinyLike(call, tiny, "headers")
    BY <1>0, <2>1, <2>3, TinyFormFirst
  <2>5. CASE TinyGoOn([tiny EXCEPT !.first = FALSE])
    BY <2>1, <2>3, <2>4, <2>5, <1>5 DEF TinyLike
  <2>6. CASE Call(tiny.s, [tiny EXCEPT !.first = FALSE])
    BY <2>1, <2>3, <2>4, <2>6, <1>6 DEF TinyLike
  <2> QED
    BY <1>9, <2>1, <2>2, <2>5, <2>6, <1>3 DEF TinyHeaders
<1>10. CASE TinyWrite
  <2>1. tiny.pc = "write" /\ tiny.out # <<>> /\ tiny.out \in Seq(Seq(Byte))
    BY <1>10, <1>0 DEF TinyWrite, TinyType
  <2>2. CASE TinyExits
    BY <2>1, <2>2, <1>3
  <2>3. CASE \E outcome \in WriteOutcomes(tiny.s) :
               /\ Written(tiny.s, Head(tiny.out), outcome)
               /\ tiny' = [tiny EXCEPT !.out = Tail(@)]
               /\ UNCHANGED <<rio, tinyQueue, over>>
    <3>0. PICK out \in Seq(Seq(Byte)) : out = Tail(tiny.out)
      <4>1. \A q \in Seq(Seq(Byte)) : q # <<>> => Tail(q) \in Seq(Seq(Byte))
        OBVIOUS
      <4> QED
        BY <2>1, <4>1
    <3>1. PICK call : call = [tiny EXCEPT !.out = out]
      OBVIOUS
    <3>2. TinyLike(call, tiny, "write")
      BY <1>0, <2>1, <3>1, TinyFormRest
    <3>3. tiny' = call /\ UNCHANGED <<rio, tinyQueue, over>>
      BY <2>3, <3>0, <3>1
    <3>4. PICK bytes, outcome : Written(tiny.s, bytes, outcome)
      BY <2>3
    <3> QED
      BY <2>1, <3>2, <3>3, <3>4, <1>7 DEF TinyLike
  <2> QED
    BY <1>10, <2>2, <2>3 DEF TinyWrite
<1>11. CASE TinyFinish
  <2>1. tiny.pc = "write"
    BY <1>11 DEF TinyFinish
  <2>2. CASE TinyGoOn([tiny EXCEPT !.pc = "wait"])
    <3>1. PICK call : call = [tiny EXCEPT !.pc = "wait"]
      OBVIOUS
    <3>2. TinyLike(call, tiny, "wait")
      BY <1>0, <3>1, TinyFormPc
    <3> QED
      BY <2>1, <2>2, <3>1, <3>2, <1>5 DEF TinyLike
  <2> QED
    BY <1>11, <2>1, <2>2, <1>2, <1>3 DEF TinyFinish
<1>12. CASE CgiProgram
  <2>1. PICK call : call = [tiny EXCEPT !.pc = "write", !.then = "close"]
    OBVIOUS
  <2>2. TinyLike(call, tiny, "write") /\ call.pc = "write"
    BY <1>0, <2>1, TinyFormThen DEF TinyLike
  <2>3. tiny.pc = "wait" /\ tiny' = call /\ UNCHANGED <<rio, tinyQueue, over>>
    BY <1>12, <2>1 DEF CgiProgram
  <2>4. CASE UNCHANGED <<kernel, peer, sent>>
    BY <2>2, <2>3, <2>4, <1>4, <1>0
  <2>5. CASE \E outcome \in WriteOutcomes(tiny.s) : Written(tiny.s, <<"sum">>, outcome)
    BY <2>2, <2>3, <2>5, <1>7
  <2> QED
    BY <1>12, <2>4, <2>5 DEF CgiProgram
<1>13. CASE tiny.pc \in {"requestline", "headers"} /\ Read(tiny.s) /\ UNCHANGED <<tinyVars, connVars>>
  <2>1. /\ Reading(tiny.s) /\ \A p \in Streams \ {tiny.s} : Quiet(p)
    BY <1>0, <1>13, OneRead
  <2>2. tiny' = tiny /\ tinyQueue' = tinyQueue /\ over' = over
    BY <1>13 DEF tinyVars, connVars
  <2>3. \A p \in Requests : ~TinyAt(p) => Quiet(p)
    BY <1>0, <1>13, <2>1 DEF TinyAt
  <2> QED
    BY <1>13, <2>1, <2>2, <2>3 DEF TinyTouches, TinyUp
<1> QED
  BY <1>1, <1>8, <1>9, <1>10, <1>11, <1>12, <1>13 DEF TinyStep

\* The streams from the proxy's clients are not among those that tiny touches.
LEMMA TinyLeavesProxys ==
    ASSUME ControlInv, ControlInv', TinyTouches
    PROVE  \A c \in Proxied : Quiet(RequestOf(c))
<1>1. \A c \in Proxied : RequestOf(c) \in Requests \ TinysRequests
  BY Servers, Names
<1>2. \A s : TinyAt(s) \/ TinyAt(s)' => s \in TinysRequests
  BY DEF ControlInv, ServingInv, TinyAt
<1> QED
  BY <1>1, <1>2 DEF TinyTouches

\* Under tiny the first calls stay as they should be.
LEMMA TinyFirst ==
    ASSUME ControlInv, ControlInv', FirstInv, TinyTouches, UNCHANGED <<proxyVars, clientVars>>
    PROVE  FirstInv'
<1>0. /\ proxy' = proxy /\ proxyQueue' = proxyQueue /\ asked' = asked
      /\ script' = script /\ phase' = phase
      /\ \A c : Sends(c)' = Sends(c)
  BY ReasonsSame DEF proxyVars, clientVars
<1>1. RioInv /\ TinyUp /\ tinyQueue \in Seq(Requests) /\ kernel \in [Streams -> Seq(Byte)]
  BY DEF ControlInv, TypeInv, TinyTouches, RioInv
<1>2. /\ Distinct(tinyQueue) /\ ToSet(tinyQueue) \subseteq TinysRequests
      /\ \A s \in ToSet(tinyQueue) : ~TinyAt(s) /\ rio[s] = NoCall
  BY <1>1 DEF ControlInv, TinyQueueInv
<1>3. tiny'.pc # "down" => \A s \in ToSet(tinyQueue') : ~TinyAt(s)'
  BY DEF ControlInv, TinyQueueInv, TinyUp
<1>4. ToSet(tinyQueue') \subseteq ToSet(tinyQueue)
      /\ (tinyQueue # <<>> => Head(tinyQueue) \in ToSet(tinyQueue))
  <2>1. tinyQueue # <<>> => ToSet(Tail(tinyQueue)) \subseteq ToSet(tinyQueue) /\ Head(tinyQueue) \in ToSet(tinyQueue)
    BY <1>1, <1>2, QueueTaken
  <2> QED
    BY <2>1 DEF TinyTouches
<1>5. TinysRequests \subseteq Requests /\ Requests \subseteq Streams
  BY Servers, Names
<1>6. tiny'.pc # "down" => \A s \in ToSet(tinyQueue') : s \in ToSet(tinyQueue) /\ kernel'[s] = kernel[s]
  BY <1>2, <1>3, <1>4, <1>5 DEF TinyTouches, Quiet
<1>7. \A c \in Proxied : Quiet(RequestOf(c))
  BY TinyLeavesProxys
<1>8. ASSUME NEW bytes, tiny'.pc = "requestline",
             tiny.pc = "requestline" /\ tiny.s = tiny'.s => OnFirstCall(tiny'.s, bytes),
             tiny'.s \in ToSet(tinyQueue) => kernel[tiny'.s] = bytes
      PROVE  FirstCall(rio'[tiny'.s], kernel'[tiny'.s], peer'[tiny'.s], bytes)
  <2>1. tiny'.s \in Streams
    BY <1>5, <1>8 DEF ControlInv, ServingInv
  <2>2. CASE tiny'.s = tiny.s /\ tiny.pc = "requestline" /\ Reading(tiny.s)
    BY <1>1, <1>8, <2>1, <2>2, FirstCallKept
  <2>3. CASE /\ tinyQueue # <<>> /\ tiny'.s = Head(tinyQueue)
             /\ rio'[tiny'.s] = Copied(tiny'.s, [rio[tiny'.s] EXCEPT !.got = <<>>])
             /\ kernel'[tiny'.s] = kernel[tiny'.s]
    <3>1. PICK s \in Streams : s = tiny'.s
      BY <2>1
    <3>2. s \in ToSet(tinyQueue) /\ rio[s] = NoCall /\ kernel[s] = bytes /\ kernel'[s] = bytes
      BY <1>2, <1>4, <1>8, <2>3, <3>1
    <3>2a. PICK p : p = peer'[s]
      OBVIOUS
    <3>3. PICK k \in Seq(Byte) : k = bytes
      BY <1>1, <3>2
    <3>4. FirstCall(Copied(s, [NoCall EXCEPT !.got = <<>>]), k, p, k)
      BY FirstCallBegins
    <3> QED
      BY <2>3, <3>1, <3>2, <3>2a, <3>3, <3>4
  <2> QED
    BY <1>8, <2>2, <2>3 DEF TinyTouches
<1>9. \A c \in Direct : tiny'.pc # "down" /\ RequestOf(c) \in ToSet(tinyQueue') => kernel'[RequestOf(c)] = Sends(c)
  BY <1>1, <1>6 DEF FirstInv
<1>10. proxy.pc # "down" => \A c \in Proxied : RequestOf(c) \in ToSet(proxyQueue) => kernel'[RequestOf(c)] = Sends(c)
  BY <1>7 DEF FirstInv, ProxyUp, Quiet
<1>11. ASSUME NEW c \in Direct, tiny'.pc = "requestline", tiny'.s = RequestOf(c)
       PROVE  FirstCall(rio'[tiny'.s], kernel'[tiny'.s], peer'[tiny'.s], Sends(c))
  BY <1>1, <1>8, <1>11 DEF FirstInv
<1>12. proxy.pc = "requestline" => FirstCall(rio'[Here], kernel'[Here], peer'[Here], Sends(proxy.c))
  <2>1. proxy.pc = "requestline" => proxy.c \in Proxied
    BY DEF ControlInv, ServingInv
  <2> QED
    BY <1>7, <2>1 DEF FirstInv, OnFirstCall, Quiet, Here
<1>13. ASSUME NEW c \in Proxied, tiny'.pc # "down", proxy.pc # "down"
       PROVE  /\ ForwardOf(c) \in ToSet(tinyQueue') => kernel'[ForwardOf(c)] = asked[c]
              /\ tiny'.pc = "requestline" /\ tiny'.s = ForwardOf(c) =>
                   FirstCall(rio'[tiny'.s], kernel'[tiny'.s], peer'[tiny'.s], asked[c])
  <2>1. /\ ForwardOf(c) \in ToSet(tinyQueue) => kernel[ForwardOf(c)] = asked[c]
        /\ tiny.pc = "requestline" /\ tiny.s = ForwardOf(c) => OnFirstCall(tiny.s, asked[c])
    BY <1>1, <1>13 DEF FirstInv, ProxyUp
  <2>2. ForwardOf(c) \in ToSet(tinyQueue') => kernel'[ForwardOf(c)] = asked[c]
    BY <2>1, <1>6, <1>13
  <2> QED
    BY <2>1, <2>2, <1>8
<1> QED
  BY <1>0, <1>9, <1>10, <1>11, <1>12, <1>13 DEF FirstInv, TinyUp, ProxyUp, OnFirstCall, Here

\* What a client gets is one of the requests that there are.
LEMMA GetsKnown ==
    ASSUME NEW c, NEW r \in Gets(c)
    PROVE  \E text \in DOMAIN RequestLines : r = RequestLines[text] /\ r.method = "GET"
  BY TextsKnown DEF Gets

\* A client whose line has been read gets what the line may say.
LEMMA LineGets ==
    ASSUME NEW c, phase[c] # "new", NEW got, got # <<>>, Sends(c) # <<>>, got[1] = Sends(c)[1],
           NEW text \in Texts(got), RequestLines[text].method = "GET"
    PROVE  RequestLines[text] \in Gets(c)
<1>1. text \in Texts(Sends(c))
  BY SameTexts
<1> QED
  BY <1>1 DEF Gets

\* tiny comes to call mmap only by a request line that asks for the empty file.
LEMMA TinyThen ==
    ASSUME ControlInv, TinyStep, tiny'.then = "mmap", tiny.then # "mmap"
    PROVE  /\ tiny.pc = "requestline" /\ ~rio[tiny.s].calling /\ rio[tiny.s].rc > 0
           /\ \E text \in Texts(rio[tiny.s].got) :
                RequestLines[text].method = "GET" /\ RequestLines[text].file = "empty"
<1>0. tiny \in TinyType
  BY DEF ControlInv, TypeInv
<1>1. ~TinyAccept /\ ~TinyCloses
  <2>1. \A s : [NotServing EXCEPT !.pc = "requestline", !.s = s].then = "none"
    BY DEF NotServing
  <2>2. NotServing.then = "none"
    BY DEF NotServing
  <2> QED
    BY <2>1, <2>2 DEF TinyAccept, TinyCloses
<1>2. ~TinyExits
  BY <1>0 DEF TinyExits, TinyType
<1>3. ~TinyHeaders /\ ~TinyWrite /\ ~TinyFinish
  BY <1>0, <1>1, <1>2 DEF TinyHeaders, TinyWrite, TinyFinish, TinyGoOn, Call, TinyType
<1>4. ~CgiProgram /\ tiny' # tiny
  BY <1>0 DEF CgiProgram, TinyType
<1>5. TinyRequestLine
  BY <1>1, <1>3, <1>4 DEF TinyStep, tinyVars
<1>6. PICK text \in Texts(rio[tiny.s].got) :
        /\ tiny.pc = "requestline" /\ ~rio[tiny.s].calling /\ rio[tiny.s].rc > 0
        /\ IF RequestLines[text].method # "GET"
           THEN TinyGoOn([tiny EXCEPT !.pc = "write", !.out = clienterror, !.then = "close"])
           ELSE Call(tiny.s, [tiny EXCEPT !.pc = "headers", !.first = TRUE,
                                          !.out = ReplyFor(RequestLines[text].file).out,
                                          !.then = ReplyFor(RequestLines[text].file).then])
  BY <1>1, <1>2, <1>5 DEF TinyRequestLine
<1>7. RequestLines[text].method = "GET"
  <2>1. PICK out \in Seq(Seq(Byte)) : out = clienterror
    BY TinyWrites
  <2>2. [tiny EXCEPT !.pc = "write", !.out = out, !.then = "close"].then = "close"
    BY <1>0 DEF TinyType
  <2> QED
    BY <1>6, <2>1, <2>2 DEF TinyGoOn
<1>8. ReplyFor(RequestLines[text].file).then = "mmap"
  <2>1. PICK file : file = RequestLines[text].file
    OBVIOUS
  <2>2. PICK out \in Seq(Seq(Byte)), then \in {"none", "close", "mmap", "wait"} :
          out = ReplyFor(file).out /\ then = ReplyFor(file).then
    BY TinyWrites
  <2>3. tiny' = [tiny EXCEPT !.pc = "headers", !.first = TRUE, !.out = out, !.then = then]
    BY <1>6, <1>7, <2>1, <2>2 DEF Call
  <2>4. tiny'.then = then
    BY <1>0, <2>3 DEF TinyType
  <2> QED
    BY <2>1, <2>2, <2>4
<1>9. RequestLines[text].file = "empty"
  BY <1>8 DEF ReplyFor
<1> QED
  BY <1>6, <1>7, <1>9

\* Somebody has asked for it.
LEMMA TinyEmpty ==
    ASSUME ControlInv, FirstInv, TextInv, EmptyInv, TinyStep, UNCHANGED <<proxyVars, clientVars>>
    PROVE  EmptyInv'
<1>0. proxy' = proxy /\ script' = script /\ phase' = phase /\ ReasonsStay
  BY ReasonsSame DEF proxyVars, clientVars
<1>1. CASE tiny.then = "mmap"
  BY <1>0, <1>1 DEF EmptyInv, ProxyUp, ReasonsStay
<1>2. CASE tiny'.then = "mmap" /\ tiny.then # "mmap" /\ ProxyUp
  <2>1. /\ tiny.pc = "requestline" /\ ~rio[tiny.s].calling /\ rio[tiny.s].rc > 0
        /\ tiny.s \in TinysRequests
    BY <1>2, TinyThen DEF ControlInv, ServingInv
  <2>2. PICK text \in Texts(rio[tiny.s].got) :
          RequestLines[text].method = "GET" /\ RequestLines[text].file = "empty"
    BY <1>2, TinyThen
  <2>3. ASSUME NEW bytes, OnFirstCall(tiny.s, bytes)
        PROVE  rio[tiny.s].got # <<>> /\ bytes # <<>> /\ rio[tiny.s].got[1] = bytes[1]
    BY <2>1, <2>3 DEF OnFirstCall, FirstCall
  <2>4. CASE \E c \in Direct : tiny.s = RequestOf(c)
    <3>1. PICK c \in Direct : tiny.s = RequestOf(c)
      BY <2>4
    <3>2. phase[c] # "new" /\ c \in Clients
      BY <2>1, <3>1, Names DEF ControlInv, NewInv, TinyAt
    <3>3. OnFirstCall(tiny.s, Sends(c))
      BY <2>1, <3>1 DEF FirstInv
    <3>4. RequestLines[text] \in Gets(c)
      BY <2>2, <2>3, <3>2, <3>3, LineGets
    <3>5. AsksForEmpty
      BY <2>2, <3>2, <3>4 DEF AsksForEmpty
    <3> QED
      BY <1>0, <3>5 DEF EmptyInv, ReasonsStay
  <2>5. CASE \E c \in Proxied : tiny.s = ForwardOf(c)
    <3>1. PICK c \in Proxied : tiny.s = ForwardOf(c)
      BY <2>5
    <3>2. OnFirstCall(tiny.s, asked[c])
      BY <1>2, <2>1, <3>1 DEF FirstInv, TinyUp
    <3>3. PICK got : got = rio[tiny.s].got
      OBVIOUS
    <3>4. asked[c] # <<>> /\ got[1] = asked[c][1]
      BY <2>3, <3>2, <3>3
    <3>5. PICK r \in Gets(c) : asked[c][1] = r.file
      BY <3>4 DEF TextInv
    <3>6. PICK t \in DOMAIN RequestLines : r = RequestLines[t]
      BY GetsKnown
    <3>7. r.file \in DOMAIN RequestLines /\ RequestLines[r.file].file = r.file
      BY <3>6, RequestPathAssumption
    <3>8. Texts(got) = {r.file}
      <4>1. got[1] = r.file /\ got[1] \in DOMAIN RequestLines
        BY <3>4, <3>5, <3>7, Zenon
      <4>2. {"cr", "lf"} \cap DOMAIN RequestLines = {}
        BY RequestPathAssumption
      <4>3. got[1] \notin {"cr", "lf"}
        BY <4>1, <4>2
      <4> QED
        BY <4>1, <4>3 DEF Texts
    <3>9. r.file = "empty" /\ c \in Clients
      BY <2>2, <3>3, <3>7, <3>8, Names
    <3>10. AsksForEmpty
      BY <3>9 DEF AsksForEmpty
    <3> QED
      BY <1>0, <3>10 DEF EmptyInv, ReasonsStay
  <2> QED
    BY <2>1, <2>4, <2>5, Servers
<1> QED
  BY <1>0, <1>1, <1>2 DEF EmptyInv, ProxyUp

\* The proxy's request line and its array are as they were.
LEMMA TinyText ==
    ASSUME ControlInv, ControlInv', TextInv, HostInv, TinyTouches, UNCHANGED <<proxyVars, clientVars>>
    PROVE  TextInv' /\ HostInv'
<1>0. /\ proxy' = proxy /\ asked' = asked /\ phase' = phase /\ script' = script
      /\ \A c : Gets(c)' = Gets(c)
      /\ ReasonsStay
  BY ReasonsSame DEF proxyVars, clientVars
<1>1. \A c \in Proxied : Quiet(RequestOf(c)) /\ over'[RequestOf(c)] = over[RequestOf(c)]
  BY TinyLeavesProxys DEF TinyTouches
<1>2. HeadersNext => proxy.c \in Proxied
  BY DEF HeadersNext, ControlInv, ServingInv
<1>3. HeadersNext /\ Lost => Lost'
  BY <1>0, <1>1, <1>2 DEF Lost, Quiet, Here
<1>4. IsAsked' <=> IsAsked
  BY <1>0 DEF IsAsked
<1>5. TextInv'
  BY <1>0, <1>3, <1>4 DEF TextInv, HeadersNext
<1>6. \A part : /\ FromStart(part) => FromStart(part)'
                /\ \A c \in Proxied : NameKnown(c, part) => NameKnown(c, part)'
  BY <1>0, <1>1 DEF NameKnown, FromStart
<1>7. HostInv'
  BY <1>0, <1>6, Names DEF HostInv, HeadersNext, ReasonsStay
<1> QED
  BY <1>5, <1>7

\* tiny goes down only by its own client, an empty file, or the proxy.
LEMMA TinyFault ==
    ASSUME ControlInv, EmptyInv, FaultsContained, TinyStep, UNCHANGED <<proxyVars, clientVars>>
    PROVE  FaultsContained'
<1>0. /\ proxy' = proxy /\ phase' = phase /\ \A c : Gets(c)' = Gets(c)
      /\ tiny.pc # "down" /\ tiny \in TinyType /\ RioInv
  <2>1. tiny.pc # "down"
    BY DEF TinyStep, TinyAccept, TinyRequestLine, TinyHeaders, TinyWrite, TinyFinish, CgiProgram
  <2> QED
    BY <2>1, ReasonsSame DEF proxyVars, clientVars, ControlInv, TypeInv
<1>1. \A c \in Proxied : SpoiltName(c)' <=> SpoiltName(c)
  BY <1>0 DEF SpoiltName
<1>2. ASSUME tiny'.pc = "down"
      PROVE  \/ rio[tiny.s].rc = -1 /\ tiny.pc \in {"requestline", "headers"}
             \/ peer[tiny.s] # "open" /\ tiny.pc = "write"
             \/ tiny.then = "mmap" /\ tiny.pc = "write"
  <2>1. ~TinyAccept /\ ~TinyCloses
    <3>1. \A s : [NotServing EXCEPT !.pc = "requestline", !.s = s].pc = "requestline"
      BY DEF NotServing
    <3>2. NotServing.pc = "accept"
      BY DEF NotServing
    <3> QED
      BY <1>2, <3>1, <3>2 DEF TinyAccept, TinyCloses
  <2>3. CASE TinyRequestLine
    <3>1. tiny.pc = "requestline"
      BY <2>3 DEF TinyRequestLine
    <3>2. ~TinyGoOn([tiny EXCEPT !.pc = "write", !.out = clienterror, !.then = "close"])
      <4>1. PICK out \in Seq(Seq(Byte)) : out = clienterror
        BY TinyWrites
      <4>2. [tiny EXCEPT !.pc = "write", !.out = out, !.then = "close"].pc = "write"
        BY <1>0 DEF TinyType
      <4> QED
        BY <1>2, <4>1, <4>2 DEF TinyGoOn
    <3>3. ASSUME NEW file
          PROVE  ~Call(tiny.s, [tiny EXCEPT !.pc = "headers", !.first = TRUE,
                                            !.out = ReplyFor(file).out, !.then = ReplyFor(file).then])
      <4>1. PICK out \in Seq(Seq(Byte)), then \in {"none", "close", "mmap", "wait"} :
              out = ReplyFor(file).out /\ then = ReplyFor(file).then
        BY TinyWrites
      <4>2. [tiny EXCEPT !.pc = "headers", !.first = TRUE, !.out = out, !.then = then].pc = "headers"
        BY <1>0 DEF TinyType
      <4> QED
        BY <1>2, <4>1, <4>2 DEF Call
    <3> QED
      BY <2>1, <2>3, <3>1, <3>2, <3>3 DEF TinyRequestLine
  <2>4. CASE TinyHeaders
    <3>1. tiny.pc = "headers"
      BY <2>4 DEF TinyHeaders
    <3>2. [tiny EXCEPT !.pc = "write"].pc = "write" /\ [tiny EXCEPT !.first = FALSE].pc = "headers"
      BY <1>0, <3>1 DEF TinyType
    <3>3. ~TinyGoOn([tiny EXCEPT !.pc = "write"]) /\ ~TinyGoOn([tiny EXCEPT !.first = FALSE])
          /\ ~Call(tiny.s, [tiny EXCEPT !.first = FALSE])
      BY <1>2, <3>2 DEF TinyGoOn, Call
    <3> QED
      BY <2>4, <3>1, <3>3 DEF TinyHeaders
  <2>5. CASE TinyWrite
    <3>1. tiny.pc = "write"
      BY <2>5 DEF TinyWrite
    <3>2. tiny' # [tiny EXCEPT !.out = Tail(tiny.out)]
      BY <1>0, <1>2, <3>1 DEF TinyType
    <3>3. PICK outcome \in WriteOutcomes(tiny.s) : outcome[1] # "ok"
      BY <2>5, <3>2 DEF TinyWrite
    <3>4. tiny.s \in Streams
      BY <3>1, Servers, Names DEF ControlInv, ServingInv
    <3> QED
      BY <1>0, <3>1, <3>3, <3>4, WriteOutcome
  <2>6. CASE TinyFinish
    <3>1. tiny.pc = "write"
      BY <2>6 DEF TinyFinish
    <3>2. [tiny EXCEPT !.pc = "wait"].pc = "wait"
      BY <1>0 DEF TinyType
    <3>3. ~TinyGoOn([tiny EXCEPT !.pc = "wait"])
      BY <1>2, <3>2 DEF TinyGoOn
    <3> QED
      BY <2>1, <2>6, <3>1, <3>3 DEF TinyFinish
  <2>7. ~CgiProgram
    <3>1. [tiny EXCEPT !.pc = "write", !.then = "close"].pc = "write"
      BY <1>0 DEF TinyType
    <3> QED
      BY <1>2, <3>1 DEF CgiProgram
  <2>8. tiny' # tiny
    BY <1>0, <1>2
  <2> QED
    BY <2>1, <2>3, <2>4, <2>5, <2>6, <2>7, <2>8 DEF TinyStep, tinyVars
<1>3. ASSUME tiny'.pc = "down", tiny.then # "mmap" \/ tiny.pc # "write"
      PROVE  (\E c \in Direct : phase[c] = "left") \/ proxy.pc = "down"
  <2>1. tiny.s \in TinysRequests /\ tiny.s \in Streams
    BY <1>2, <1>3, Servers, Names DEF ControlInv, ServingInv
  <2>2. peer[tiny.s] # "open"
    BY <1>0, <1>2, <1>3, <2>1 DEF RioInv
  <2>3. CASE \E c \in Direct : tiny.s = RequestOf(c)
    BY <2>2, <2>3, Names DEF ControlInv, PeerInv
  <2>4. CASE \E c \in Proxied : tiny.s = ForwardOf(c)
    BY <2>2, <2>4 DEF ControlInv, PeerInv, ProxyUp
  <2> QED
    BY <2>1, <2>3, <2>4, Servers
<1>4. ASSUME tiny'.pc = "down", tiny.then = "mmap"
      PROVE  (\E c \in Clients : \E r \in Gets(c) : r.file = "empty") \/ proxy.pc = "down"
  BY <1>4 DEF EmptyInv, AsksForEmpty, ProxyUp
<1>5. proxy.pc = "down" =>
         \E c \in Proxied :
               \/ phase[c] = "left"
               \/ \E r \in Gets(c) : ~r.urlOK \/ r.at \notin TinysAddresses
               \/ SpoiltName(c)
  BY <1>0 DEF FaultsContained
<1>6. tiny'.pc = "down" =>
         \/ \E c \in Direct : phase[c] = "left"
         \/ \E c \in Clients : \E r \in Gets(c) : r.file = "empty"
         \/ proxy.pc = "down"
  BY <1>3, <1>4
<1> QED
  BY <1>0, <1>1, <1>5, <1>6 DEF FaultsContained

-----------------------------------------------------------------------------
\* What the proxy's record says, in parts.
ProxyAs(q, pc, c, then, text, request, at) ==
    /\ q.pc = pc /\ q.c = c /\ q.then = then
    /\ q.text = text /\ q.request = request /\ q.at = at

\* The record in each of the forms in which it changes.
LEMMA ProxyParts ==
    ASSUME NEW p \in ProxyType
    PROVE  /\ \A pc : ProxyAs([p EXCEPT !.pc = pc], pc, p.c, p.then, p.text, p.request, p.at)
           /\ \A c : ProxyAs([p EXCEPT !.pc = "requestline", !.c = c],
                             "requestline", c, p.then, p.text, p.request, p.at)
           /\ \A out, then : ProxyAs([p EXCEPT !.pc = "write", !.out = out, !.then = then],
                                     "write", p.c, then, p.text, p.request, p.at)
           /\ \A out, then : ProxyAs([p EXCEPT !.pc = "write", !.then = then, !.out = out],
                                     "write", p.c, then, p.text, p.request, p.at)
           /\ \A out : ProxyAs([p EXCEPT !.out = out], p.pc, p.c, p.then, p.text, p.request, p.at)
  BY DEF ProxyAs, ProxyType

\* The same for the request line and the headers.
LEMMA ProxyPartsRead ==
    ASSUME NEW p \in ProxyType
    PROVE  /\ \A out, text, at :
                ProxyAs([p EXCEPT !.pc = "write", !.then = "headers", !.out = out, !.text = text, !.at = at],
                        "write", p.c, "headers", text, p.request, at)
           /\ \A f, request : ProxyAs([p EXCEPT !.pc = "headers", !.first = f, !.request = request],
                                      "headers", p.c, p.then, p.text, request, p.at)
           /\ \A f, request : ProxyAs([p EXCEPT !.first = f, !.request = request],
                                      p.pc, p.c, p.then, p.text, request, p.at)
           /\ \A request : ProxyAs([p EXCEPT !.pc = "connect", !.request = request],
                                   "connect", p.c, p.then, p.text, request, p.at)
  BY DEF ProxyAs, ProxyType

\* The record between two clients keeps the name.
LEMMA NotRequestedParts ==
    \A at : /\ [NotRequested EXCEPT !.at = at].pc = "accept"
              /\ [NotRequested EXCEPT !.at = at].at = at
  BY DEF NotRequested

\* Which streams of requests a step of the proxy touches, and what it does to the
\* first call on one of them.
ProxyTouches ==
    /\ \A c \in Clients : ~ProxyAt(c) /\ ~ProxyAt(c)' => Quiet(RequestOf(c))
    /\ proxy'.pc # "down" /\ proxy.pc # "send" =>
         asked' = asked /\ \A c \in Proxied : Quiet(ForwardOf(c))
    /\ ProxyUp /\ (proxyQueue' = proxyQueue \/ (proxyQueue # <<>> /\ proxyQueue' = Tail(proxyQueue)))
    /\ tiny' = tiny /\ script' = script /\ phase' = phase
    /\ \/ tinyQueue' = tinyQueue
       \/ proxy.pc = "connect" /\ tinyQueue' = Append(tinyQueue, ForwardOf(proxy.c))
    /\ proxy'.pc = "requestline" =>
         \/ proxy'.c = proxy.c /\ proxy.pc = "requestline" /\ Reading(Here)
         \/ /\ proxyQueue # <<>> /\ RequestOf(proxy'.c) = Head(proxyQueue)
            /\ rio'[Head(proxyQueue)] = Copied(Head(proxyQueue), [rio[Head(proxyQueue)] EXCEPT !.got = <<>>])
            /\ kernel'[Head(proxyQueue)] = kernel[Head(proxyQueue)]
    /\ \A c \in Proxied : over[RequestOf(c)] # "no" => over'[RequestOf(c)] # "no"

\* The name in the array is the same, and whoever has asked for it is known.
KeepsName ==
    /\ proxy'.at = proxy.at
    /\ PastHost(proxy) => (PastHost(proxy') /\ proxy'.c = proxy.c) \/ over'[Here] # "no"
    /\ (HeadersNext \/ proxy.pc = "connect")' => HeadersNext \/ proxy.pc = "connect"

\* Then the invariant about it stays.
LEMMA NameKept ==
    ASSUME ControlInv, HostInv, ProxyTouches, KeepsName
    PROVE  HostInv'
<1>0. ReasonsStay /\ \A c : Gets(c)' = Gets(c)
  BY ReasonsSame DEF ProxyTouches
<1>1. \A part : /\ FromStart(part) => FromStart(part)'
                /\ \A c \in Proxied : NameKnown(c, part) => NameKnown(c, part)'
  BY <1>0 DEF NameKnown, FromStart, KeepsName, ProxyTouches, Here
<1> QED
  BY <1>0, <1>1, Names DEF HostInv, KeepsName, ReasonsStay

\* A step of the proxy that goes on with its client.
LEMMA ProxyOn ==
    ASSUME ControlInv, NEW state, proxy' = state, state.c = proxy.c,
           proxy.pc \notin {"accept", "send", "down"}, state.pc \notin {"requestline", "accept", "down"},
           \A p \in Requests : p # Here => Quiet(p),
           asked' = asked, proxyQueue' = proxyQueue, tiny' = tiny, tinyQueue' = tinyQueue,
           over' = over, UNCHANGED clientVars
    PROVE  ProxyTouches
<1>0. proxy.c \in Clients
  BY Names DEF ControlInv, ServingInv
<1>1. \A c \in Clients : ~ProxyAt(c) => Quiet(RequestOf(c))
  BY <1>0, Names DEF ProxyAt, Here
<1>2. \A c \in Proxied : Quiet(ForwardOf(c))
  BY <1>0, Names DEF Here
<1> QED
  BY <1>1, <1>2 DEF ProxyTouches, ProxyUp, clientVars

\* Where the headers are not to be read and nothing is to be sent, TextInv says
\* only what has been sent.
LEMMA TextIdle ==
    ASSUME TextInv, phase' = phase, script' = script, asked' = asked,
           proxy'.pc \notin {"headers", "connect", "send"}, proxy'.pc = "write" => proxy'.then # "headers"
    PROVE  TextInv'
<1>1. \A c : Gets(c)' = Gets(c)
  BY ReasonsSame
<1>2. \A c \in Proxied : asked[c] # <<>> => \E r \in Gets(c) : asked[c][1] = r.file
  BY DEF TextInv
<1> QED
  BY <1>1, <1>2 DEF TextInv, HeadersNext

\* The proxy is done with its client, or goes down.
LEMMA ProxyLets ==
    ASSUME ControlInv, TextInv, ProxyCloses \/ ProxyExits, proxy.pc \notin {"accept", "down"}
    PROVE  ProxyTouches /\ TextInv' /\ KeepsName
<1>0. /\ RioInv /\ proxy \in ProxyType /\ over \in [Requests -> {"no", "served", "dropped"}]
      /\ Here \in Requests /\ proxy.c \in Proxied
      /\ tiny' = tiny /\ phase' = phase /\ script' = script /\ asked' = asked /\ tinyQueue' = tinyQueue
      /\ proxyQueue' = proxyQueue /\ rio' = rio /\ kernel' = kernel
  BY Names DEF ControlInv, TypeInv, ServingInv, ProxyCloses, ProxyExits, Here, rioVars, tinyVars, clientVars
<1>1. CASE ProxyCloses
  <2>1. /\ peer' = peer /\ over' = [over EXCEPT ![Here] = "served"]
        /\ proxy'.pc = "accept" /\ proxy'.at = proxy.at
    BY <1>1, NotRequestedParts DEF ProxyCloses, rioVars
  <2>2. \A p \in Requests : Quiet(p)
    BY <1>0, <2>1 DEF Quiet
  <2>3. over'[Here] # "no" /\ \A c \in Proxied : over[RequestOf(c)] # "no" => over'[RequestOf(c)] # "no"
    BY <1>0, <2>1, Names
  <2>4. ProxyTouches
    BY <1>0, <2>1, <2>2, <2>3, Names DEF ProxyTouches, ProxyUp
  <2>5. KeepsName
    BY <2>1, <2>3 DEF KeepsName, HeadersNext
  <2> QED
    BY <1>0, <2>1, <2>4, <2>5, TextIdle
<1>2. CASE ProxyExits
  <2>1. /\ over' = [s \in Requests |-> IF s = Here \/ s \in ToSet(proxyQueue) THEN "dropped" ELSE over[s]]
        /\ proxy' = [proxy EXCEPT !.pc = "down"]
        /\ \A p \in Streams : p # ForwardOf(proxy.c) => peer'[p] = peer[p]
    BY <1>0, <1>2 DEF ProxyExits, RioInv
  <2>2. proxy'.pc = "down" /\ proxy'.c = proxy.c /\ proxy'.at = proxy.at
    BY <1>0, <2>1, ProxyParts DEF ProxyAs
  <2>3. \A c \in Clients : Quiet(RequestOf(c))
    BY <1>0, <2>1, Names DEF Quiet
  <2>4. over'[Here] # "no" /\ \A c \in Proxied : over[RequestOf(c)] # "no" => over'[RequestOf(c)] # "no"
    BY <1>0, <2>1, Names
  <2>5. ProxyTouches
    BY <1>0, <2>2, <2>3, <2>4 DEF ProxyTouches, ProxyUp
  <2>6. KeepsName
    BY <2>2, <2>4 DEF KeepsName, HeadersNext
  <2> QED
    BY <1>0, <2>2, <2>5, <2>6, TextIdle
<1> QED
  BY <1>1, <1>2

\* The request line that the proxy takes is its client's, unless a reset took it.
LEMMA ProxyTakes ==
    ASSUME ControlInv, FirstInv, proxy.pc = "requestline", ~rio[Here].calling, rio[Here].rc # 0,
           NEW text \in ProxyTexts(rio[Here]), RequestLines[text].method = "GET"
    PROVE  \/ RequestLines[text] \in Gets(proxy.c)
           \/ phase[proxy.c] = "left" /\ Hit(rio[Here], kernel[Here], peer[Here])
<1>0. /\ proxy.c \in Proxied /\ proxy.c \in Clients /\ phase[proxy.c] # "new"
      /\ Here \in Streams /\ RioInv
  <2>1. proxy.c \in Proxied /\ ProxyAt(proxy.c)
    BY DEF ControlInv, ServingInv, ProxyAt
  <2> QED
    BY <2>1, Names DEF ControlInv, NewInv, Here
<1>1. FirstCall(rio[Here], kernel[Here], peer[Here], Sends(proxy.c))
  BY DEF FirstInv, OnFirstCall
<1>2. CASE rio[Here].rc = -1
  <2>1. peer[Here] # "open"
    BY <1>0, <1>2 DEF RioInv
  <2>2. phase[proxy.c] = "left"
    BY <1>0, <2>1 DEF ControlInv, PeerInv, Here
  <2> QED
    BY <1>1, <1>2, <2>2 DEF FirstCall
<1>3. CASE rio[Here].rc # -1
  <2>1. PICK got : got = rio[Here].got
    OBVIOUS
  <2>2. got # <<>> /\ Sends(proxy.c) # <<>> /\ got[1] = Sends(proxy.c)[1]
    BY <1>1, <1>3, <2>1 DEF FirstCall
  <2>3. text \in Texts(got)
    BY <1>3, <2>1 DEF ProxyTexts
  <2> QED
    BY <1>0, <2>2, <2>3, LineGets
<1> QED
  BY <1>2, <1>3

\* What may stand in the array behind a name: nothing more, or the end of the
\* name that was there, which was longer.
LEMMA CopyIs ==
    ASSUME NEW old \in Seq(Byte), NEW name \in Seq(Byte), NEW copy \in strncpy(name, old)
    PROVE  copy = name \/ (Len(old) > Len(name) /\ Len(copy) = Len(old))
<1>2. PICK tail \in {<<>>, SubSeq(old, Len(name) + 1, Len(old))} : copy = name \o tail
  BY DEF strncpy
<1>3. CASE tail = <<>>
  BY <1>2, <1>3, ConcatEmptySeq
<1>4. CASE tail = SubSeq(old, Len(name) + 1, Len(old)) /\ Len(old) <= Len(name)
  <2>1. tail = <<>>
    BY <1>4
  <2> QED
    BY <1>3, <2>1
<1>5. CASE tail = SubSeq(old, Len(name) + 1, Len(old)) /\ Len(old) > Len(name)
  <2>1. PICK a \in Nat, b \in Nat : a = Len(name) /\ b = Len(old)
    OBVIOUS
  <2>2. tail \in Seq(Byte) /\ Len(tail) = b - a
    BY <1>5, <2>1
  <2>3. PICK t \in Seq(Byte) : t = tail /\ Len(t) = b - a
    BY <2>2
  <2>4. name \o t \in Seq(Byte) /\ Len(name \o t) = Len(name) + Len(t)
    BY ConcatProperties
  <2>5. Len(copy) = b
    BY <1>2, <2>1, <2>3, <2>4
  <2> QED
    BY <1>5, <2>1, <2>5
<1> QED
  BY <1>2, <1>3, <1>4, <1>5

\* The same of the two arrays.
LEMMA ParsedIs ==
    ASSUME proxy.at \in ProxyAddress, NEW name \in ProxyAddress, NEW at \in parse_uri(name)
    PROVE  /\ \A part \in {"host", "port"} :
                \/ at[part] = name[part]
                \/ Len(proxy.at[part]) > Len(name[part]) /\ Len(at[part]) = Len(proxy.at[part])
           /\ at.host = name.host /\ at.port = name.port => at = name
<1>1. /\ proxy.at.host \in Seq(Byte) /\ proxy.at.port \in Seq(Byte)
      /\ name.host \in Seq(Byte) /\ name.port \in Seq(Byte)
      /\ name = [host |-> name.host, port |-> name.port]
  BY DEF ProxyAddress
<1>2. at.host = name.host \/ (Len(proxy.at.host) > Len(name.host) /\ Len(at.host) = Len(proxy.at.host))
  BY <1>1, ParsedParts, CopyIs
<1>3. at.port = name.port \/ (Len(proxy.at.port) > Len(name.port) /\ Len(at.port) = Len(proxy.at.port))
  BY <1>1, ParsedParts, CopyIs
<1>4. at.host = name.host /\ at.port = name.port => at = name
  BY <1>1, ParsedParts
<1> QED
  BY <1>2, <1>3, <1>4

\* What makes the invariant about the name true of the state after a step.
LEMMA HostAfter ==
    ASSUME \/ SomeoneLeft(Proxied)'
           \/ /\ \A part \in {"host", "port"} :
                   FromStart(part)' \/ \E c \in Proxied : NameKnown(c, part)'
              /\ proxy'.at \in TinysAddresses \/ BadName'
    PROVE  HostInv'
  BY DEF HostInv

\* The request line: what is in an array is this client's, or as long as what
\* somebody before has asked for or the array held at the start.
LEMMA LineKeeps ==
    ASSUME ControlInv, FirstInv, TextInv, HostInv, proxy.pc = "requestline", ~rio[Here].calling, rio[Here].rc # 0,
           NEW text \in ProxyTexts(rio[Here]), RequestLines[text].method = "GET",
           NEW at \in parse_uri(RequestLines[text].at), NEW q,
           ProxyAs(q, "write", proxy.c, "headers", text, proxy.request, at),
           proxy' = q, UNCHANGED <<rioVars, connVars, tinyVars, proxyQueue, asked, clientVars>>
    PROVE  ProxyTouches /\ TextInv' /\ HostInv'
<1>0. /\ kernel' = kernel /\ rio' = rio /\ peer' = peer /\ over' = over /\ tiny' = tiny /\ tinyQueue' = tinyQueue
      /\ proxyQueue' = proxyQueue /\ asked' = asked /\ phase' = phase /\ script' = script
      /\ \A c : Gets(c)' = Gets(c)
      /\ ReasonsStay
  BY ReasonsSame DEF rioVars, connVars, tinyVars, clientVars
<1>1. /\ proxy'.pc = "write" /\ proxy'.c = proxy.c /\ proxy'.then = "headers" /\ proxy'.text = text
      /\ proxy'.at = at /\ Here' = Here
  BY DEF ProxyAs, Here
<1>2. /\ proxy.c \in Proxied /\ over[Here] = "no" /\ proxy.at \in ProxyAddress
      /\ RequestLines[text].at \in ProxyAddress
  <2>1. text \in DOMAIN RequestLines
    BY TextsKnown DEF ProxyTexts
  <2> QED
    BY <2>1, Strings DEF ControlInv, ServingInv, TypeInv, ProxyType
<1>3. ProxyTouches
  BY <1>0, <1>1, ProxyOn DEF Quiet, clientVars
<1>4. \/ RequestLines[text] \in Gets(proxy.c)
      \/ phase[proxy.c] = "left" /\ Hit(rio[Here], kernel[Here], peer[Here])
  BY ProxyTakes
<1>5. IsAsked' \/ Lost'
  BY <1>0, <1>1, <1>4 DEF IsAsked, Lost
<1>6. TextInv'
  BY <1>0, <1>1, <1>5 DEF TextInv, HeadersNext
<1>7. CASE phase[proxy.c] = "left" \/ SomeoneLeft(Proxied)
  <2>1. SomeoneLeft(Proxied)'
    BY <1>0, <1>2, <1>7 DEF SomeoneLeft
  <2> QED
    BY <1>3, <1>6, <2>1, HostAfter
<1>8. CASE RequestLines[text] \in Gets(proxy.c) /\ ~SomeoneLeft(Proxied)
  <2>1. PICK r : r = RequestLines[text] /\ r \in Gets(proxy.c) /\ r.at \in ProxyAddress /\ at \in parse_uri(r.at)
    BY <1>2, <1>8
  <2>2. PastHost(proxy') /\ PastHost(proxy)' /\ ~PastHost(proxy)
    BY <1>1 DEF PastHost
  <2>3. ASSUME NEW part \in {"host", "port"}
        PROVE  /\ FromStart(part)' \/ \E c \in Proxied : NameKnown(c, part)'
               /\ at[part] = r.at[part] \/ BadName
    <3>1. PICK old \in Seq(Byte), name \in Seq(Byte) : old = proxy.at[part] /\ name = r.at[part]
      BY <1>2, <2>1 DEF ProxyAddress
    <3>2. CASE at[part] = name
      <4>1. PICK c \in Proxied : c = proxy.c
        BY <1>2
      <4>2. NameKnown(c, part)'
        BY <1>0, <1>1, <2>1, <2>2, <3>1, <3>2, <4>1 DEF NameKnown
      <4> QED
        BY <3>1, <3>2, <4>2
    <3>3. CASE Len(old) > Len(name) /\ Len(at[part]) = Len(old)
      <4>1. \A longer : Len(longer) \in Nat /\ Len(old) <= Len(longer) => Len(longer) > Len(r.at[part])
        BY <3>1, <3>3
      <4>2. CASE FromStart(part)
        <5>1. PICK start \in AtStart : Len(old) <= Len(start[part])
          BY <3>1, <4>2 DEF FromStart
        <5>2. start \in ProxyAddress
          BY RequestPathAssumption, Strings
        <5>3. Len(start[part]) \in Nat
          BY <5>2 DEF ProxyAddress
        <5>4. SpoiltName(proxy.c)
          BY <2>1, <4>1, <5>1, <5>3 DEF SpoiltName
        <5>5. FromStart(part)'
          BY <1>1, <3>3, <5>1 DEF FromStart
        <5> QED
          BY <1>2, <5>4, <5>5 DEF BadName
      <4>3. CASE \E c \in Proxied : NameKnown(c, part)
        <5>1. PICK c \in Proxied : NameKnown(c, part)
          BY <4>3
        <5>2. over[RequestOf(c)] # "no" /\ c # proxy.c
          BY <1>2, <2>2, <5>1 DEF NameKnown, Here
        <5>3. PICK q2 \in Gets(c) : Len(old) <= Len(q2.at[part])
          BY <3>1, <5>1 DEF NameKnown
        <5>4. NameKnown(c, part)'
          BY <1>0, <1>1, <3>3, <5>2, <5>3 DEF NameKnown
        <5>5. q2.at \in ProxyAddress
          <6>1. PICK t \in DOMAIN RequestLines : q2 = RequestLines[t]
            BY GetsKnown
          <6> QED
            BY <6>1, Strings
        <5>6. Len(q2.at[part]) \in Nat
          BY <5>5 DEF ProxyAddress
        <5>7. SpoiltName(proxy.c)
          BY <2>1, <4>1, <5>1, <5>2, <5>3, <5>6 DEF SpoiltName
        <5> QED
          BY <1>2, <5>1, <5>4, <5>7 DEF BadName
      <4> QED
        BY <1>8, <4>2, <4>3 DEF HostInv
    <3> QED
      BY <1>2, <2>1, <3>1, <3>2, <3>3, ParsedIs
  <2>4. at \in TinysAddresses \/ BadName
    <3>1. BadName \/ at = r.at
      BY <1>2, <2>1, <2>3, ParsedIs
    <3>2. r.at \in TinysAddresses \/ BadName
      BY <1>2, <2>1 DEF BadName
    <3> QED
      BY <3>1, <3>2
  <2> QED
    BY <1>0, <1>1, <1>3, <1>6, <2>3, <2>4, HostAfter DEF ReasonsStay
<1> QED
  BY <1>4, <1>7, <1>8

-----------------------------------------------------------------------------
\* What is to be shown of a step of the proxy.
ProxyDownFor == proxy'.pc = "down" => SomeoneLeft(Proxied) \/ BadName \/ tiny.pc = "down"
ProxyDoes == ProxyTouches /\ TextInv' /\ HostInv' /\ ProxyDownFor

\* It goes on, and reads no headers then.
LEMMA ProxyIdles ==
    ASSUME ControlInv, TextInv, HostInv, NEW state, proxy' = state, state.c = proxy.c, state.at = proxy.at,
           proxy.pc \notin {"accept", "send", "down"}, state.pc = "write",
           state.then # "headers", PastHost(proxy) => state.then # "close",
           \A p \in Requests : p # Here => Quiet(p),
           asked' = asked, proxyQueue' = proxyQueue, tiny' = tiny, tinyQueue' = tinyQueue,
           over' = over, UNCHANGED clientVars
    PROVE  ProxyDoes
<1>1. ProxyTouches
  BY ProxyOn
<1>2. TextInv'
  BY TextIdle DEF clientVars
<1>3. KeepsName
  BY DEF KeepsName, PastHost, HeadersNext
<1> QED
  BY <1>1, <1>2, <1>3, NameKept DEF ProxyDoes, ProxyDownFor

\* It is done with its client.
LEMMA ProxyDone ==
    ASSUME ControlInv, TextInv, HostInv, ProxyCloses, proxy.pc \notin {"accept", "down"}
    PROVE  ProxyDoes
<1>1. proxy'.pc = "accept"
  BY NotRequestedParts DEF ProxyCloses
<1> QED
  BY <1>1, ProxyLets, NameKept DEF ProxyDoes, ProxyDownFor

\* It goes down, for a reason that there is.
LEMMA ProxyFails ==
    ASSUME ControlInv, TextInv, HostInv, ProxyExits, proxy.pc \notin {"accept", "down"},
           SomeoneLeft(Proxied) \/ BadName \/ tiny.pc = "down"
    PROVE  ProxyDoes
  BY ProxyLets, NameKept DEF ProxyDoes, ProxyDownFor

\* It accepts a connection.
LEMMA AcceptDoes ==
    ASSUME ControlInv, TextInv, HostInv, ProxyAccept
    PROVE  ProxyDoes
<1>0. RioInv /\ proxy \in ProxyType /\ proxyQueue \in Seq(Requests)
  BY DEF ControlInv, TypeInv
<1>1. /\ proxy.pc = "accept" /\ proxyQueue' = Tail(proxyQueue) /\ proxyQueue # <<>>
      /\ kernel' = kernel /\ peer' = peer /\ over' = over
      /\ tiny' = tiny /\ tinyQueue' = tinyQueue /\ asked' = asked /\ script' = script /\ phase' = phase
  BY DEF ProxyAccept, connVars, tinyVars, clientVars
<1>2. PICK s : s = Head(proxyQueue)
  OBVIOUS
<1>3. PICK c \in Proxied : s = RequestOf(c)
  <2>1. Distinct(proxyQueue) /\ ToSet(proxyQueue) \subseteq ProxysRequests
    BY <1>1 DEF ControlInv, ProxyQueueInv, ProxyUp
  <2>2. s \in ToSet(proxyQueue)
    BY <1>0, <1>1, <1>2, <2>1, QueueTaken
  <2> QED
    BY <2>1, <2>2, Servers
<1>4. s[1] = c /\ s \in Streams /\ s \in Requests /\ c \in Clients
  BY <1>3, Names
<1>5. rio' = Called(s) /\ proxy' = [proxy EXCEPT !.pc = "requestline", !.c = c]
  BY <1>2, <1>3, <1>4 DEF ProxyAccept
<1>6. ProxyAs(proxy', "requestline", c, proxy.then, proxy.text, proxy.request, proxy.at)
  BY <1>0, <1>5, ProxyParts
<1>7. proxy'.pc = "requestline" /\ proxy'.c = c /\ proxy'.at = proxy.at
  BY <1>6 DEF ProxyAs
<1>8. /\ rio'[s] = Copied(s, [rio[s] EXCEPT !.got = <<>>])
      /\ \A p \in Streams : p # s => rio'[p] = rio[p]
  BY <1>0, <1>4, <1>5 DEF Called, RioInv
<1>9. \A d \in Clients : ~ProxyAt(d)' => Quiet(RequestOf(d))
  BY <1>1, <1>3, <1>4, <1>7, <1>8, Names DEF ProxyAt, Quiet
<1>10. \A d \in Proxied : Quiet(ForwardOf(d))
  BY <1>1, <1>3, <1>4, <1>8, Names DEF Quiet
<1>11. RequestOf(proxy'.c) = Head(proxyQueue)
       /\ rio'[Head(proxyQueue)] = Copied(Head(proxyQueue), [rio[Head(proxyQueue)] EXCEPT !.got = <<>>])
  BY <1>2, <1>3, <1>7, <1>8
<1>12. ProxyTouches
  BY <1>1, <1>9, <1>10, <1>11 DEF ProxyTouches, ProxyUp
<1>13. KeepsName
  BY <1>1, <1>7 DEF KeepsName, PastHost, HeadersNext
<1>14. TextInv'
  BY <1>1, <1>7, TextIdle
<1> QED
  BY <1>7, <1>12, <1>13, <1>14, NameKept DEF ProxyDoes, ProxyDownFor

\* It looks at the request line.
LEMMA RequestLineDoes ==
    ASSUME ControlInv, FirstInv, TextInv, HostInv, ProxyRequestLine
    PROVE  ProxyDoes
<1>0. proxy.pc = "requestline" /\ ~rio[Here].calling /\ proxy \in ProxyType
  BY DEF ProxyRequestLine, ControlInv, TypeInv
<1>1. CASE ProxyCloses
  BY <1>0, <1>1, ProxyDone
<1>2. CASE ProxyGoesOn([proxy EXCEPT !.pc = "write", !.out = reply_client_error, !.then = "close"])
  <2>1. PICK out : out = reply_client_error
    OBVIOUS
  <2>2. PICK state : state = [proxy EXCEPT !.pc = "write", !.out = out, !.then = "close"]
    OBVIOUS
  <2>3. ProxyAs(state, "write", proxy.c, "close", proxy.text, proxy.request, proxy.at)
    BY <1>0, <2>2, ProxyParts
  <2>4. ProxyGoesOn(state)
    BY <1>2, <2>1, <2>2
  <2>5. \A p : Quiet(p)
    BY <2>4 DEF ProxyGoesOn, rioVars, Quiet
  <2>6. ~PastHost(proxy)
    BY <1>0 DEF PastHost
  <2> QED
    BY <1>0, <2>3, <2>4, <2>5, <2>6, ProxyIdles DEF ProxyAs, ProxyGoesOn, connVars, tinyVars
<1>3. ASSUME rio[Here].rc # 0, NEW text \in ProxyTexts(rio[Here]), RequestLines[text].method = "GET",
             NEW at \in parse_uri(RequestLines[text].at),
             ProxyGoesOn([proxy EXCEPT !.pc = "write", !.then = "headers",
                                       !.out = modify_http_version(RequestLines[text]),
                                       !.text = text, !.at = at])
      PROVE  ProxyDoes
  <2>1. PICK out : out = modify_http_version(RequestLines[text])
    OBVIOUS
  <2>2. PICK state : state = [proxy EXCEPT !.pc = "write", !.then = "headers", !.out = out,
                                           !.text = text, !.at = at]
    OBVIOUS
  <2>3. ProxyAs(state, "write", proxy.c, "headers", text, proxy.request, at)
    BY <1>0, <2>2, ProxyPartsRead
  <2>4. ProxyGoesOn(state)
    BY <1>3, <2>1, <2>2
  <2>5. proxy' = state /\ UNCHANGED <<rioVars, connVars, tinyVars, proxyQueue, asked, clientVars>>
    BY <2>4 DEF ProxyGoesOn
  <2>6. ProxyTouches /\ TextInv' /\ HostInv'
    BY <1>0, <1>3, <2>3, <2>5, LineKeeps
  <2> QED
    BY <2>3, <2>5, <2>6 DEF ProxyDoes, ProxyDownFor, ProxyAs
<1> QED
  BY <1>1, <1>2, <1>3 DEF ProxyRequestLine

\* It writes to its client.
LEMMA WriteDoes ==
    ASSUME ControlInv, TextInv, HostInv, ProxyWrite
    PROVE  ProxyDoes
<1>0. /\ RioInv /\ proxy \in ProxyType /\ proxy.pc = "write" /\ proxy.c \in Proxied
      /\ sent \in [Requests -> Seq(Byte)]
      /\ Here \in Requests /\ Here \in Streams /\ ReplyTo(Here) = NoStream /\ NoStream \notin Streams
      /\ (peer[Here] = "open" <=> phase[proxy.c] # "left")
  <2>1. proxy.pc = "write"
    BY DEF ProxyWrite
  <2> QED
    BY <2>1, Names DEF ControlInv, TypeInv, ServingInv, PeerInv, Here
<1>1. PICK outcome \in WriteOutcomes(Here) :
         \/ /\ outcome[1] # "ECONNRESET"
            /\ Written(Here, Head(proxy.out), outcome)
            /\ proxy' = [proxy EXCEPT !.out = Tail(proxy.out)]
            /\ UNCHANGED <<rio, over, tinyVars, proxyQueue, asked, clientVars>>
         \/ outcome[1] = "ECONNRESET" /\ ProxyExits
  BY DEF ProxyWrite
<1>2. /\ peer[Here] = "noticed" => outcome[2] = "noticed"
      /\ outcome[1] = "ECONNRESET" => peer[Here] = "reset"
  <2> HIDE DEF Here
  <2> QED
    BY <1>0, WriteOutcome
<1>3. CASE outcome[1] = "ECONNRESET" /\ ProxyExits
  BY <1>0, <1>2, <1>3, ProxyFails DEF SomeoneLeft
<1>4. CASE /\ Written(Here, Head(proxy.out), outcome)
           /\ proxy' = [proxy EXCEPT !.out = Tail(proxy.out)]
           /\ UNCHANGED <<rio, over, tinyVars, proxyQueue, asked, clientVars>>
  <2>1. PICK out : out = Tail(proxy.out)
    OBVIOUS
  <2>2. proxy' = [proxy EXCEPT !.out = out]
    BY <1>4, <2>1
  <2>3. ProxyAs(proxy', "write", proxy.c, proxy.then, proxy.text, proxy.request, proxy.at)
    BY <1>0, <2>2, ProxyParts
  <2>4. /\ rio' = rio /\ over' = over /\ proxyQueue' = proxyQueue /\ asked' = asked
        /\ tiny' = tiny /\ tinyQueue' = tinyQueue /\ script' = script /\ phase' = phase
    BY <1>4 DEF tinyVars, clientVars
  <2>5. kernel' = kernel /\ peer' = [peer EXCEPT ![Here] = outcome[2]]
    BY <1>0, <1>4 DEF Written
  <2>6. \A p \in Streams : p # Here => Quiet(p)
    BY <1>0, <2>4, <2>5 DEF RioInv, Quiet
  <2>7. peer'[Here] = outcome[2] /\ kernel'[Here] = kernel[Here] /\ rio'[Here] = rio[Here] /\ Here' = Here
    BY <1>0, <2>3, <2>4, <2>5 DEF RioInv, Here, ProxyAs
  <2>8. ProxyTouches
    <3>1. PICK state : state = proxy'
      OBVIOUS
    <3>2. state.c = proxy.c /\ state.pc = "write"
      BY <2>3, <3>1 DEF ProxyAs
    <3> QED
      BY <1>0, <2>4, <2>6, <3>1, <3>2, ProxyOn, Names DEF clientVars
  <2>9. KeepsName
    BY <1>0, <2>3 DEF KeepsName, ProxyAs, PastHost, HeadersNext
  <2>10. HeadersNext' <=> HeadersNext
    BY <1>0, <2>3 DEF HeadersNext, ProxyAs
  <2>11. Lost => Lost'
    BY <1>0, <1>2, <2>3, <2>7 DEF Lost, Hit, ProxyAs
  <2>12. \A c : Gets(c)' = Gets(c)
    BY <2>4, ReasonsSame
  <2>13. IsAsked => IsAsked'
    BY <2>3, <2>12 DEF IsAsked, ProxyAs
  <2>14. TextInv'
    BY <1>0, <2>3, <2>4, <2>10, <2>11, <2>12, <2>13 DEF TextInv, ProxyAs
  <2> QED
    BY <2>3, <2>8, <2>9, <2>14, NameKept DEF ProxyDoes, ProxyDownFor, ProxyAs
<1> QED
  BY <1>1, <1>3, <1>4

\* A reset takes the headers too: the next call finds nothing.
LEMMA LostCalls ==
    ASSUME RioInv, NEW s \in Streams, Hit(rio[s], kernel[s], peer[s]), kernel' = kernel, peer' = peer,
           rio' = Called(s)
    PROVE  Hit(rio'[s], kernel'[s], peer'[s]) /\ rio'[s].calling /\ rio'[s].got = <<>>
<1>1. PICK r \in RioCall : r = rio[s]
  BY DEF RioInv
<1>2. PICK r2 : r2 = Copied(s, [r EXCEPT !.got = <<>>])
  OBVIOUS
<1>3. rio'[s] = r2
  BY <1>1, <1>2 DEF Called, RioInv
<1>4. CallsOn(s, r, r2)
  BY <1>2, CallIs
<1>5. PICK got \in Seq(Byte), buf \in Seq(Byte) : got = r2.got /\ buf = r2.buf
  BY <1>4 DEF CallsOn, CallOK, RioCall
<1>6. got \o buf = <<>>
  BY <1>1, <1>4, <1>5 DEF CallsOn, Hit
<1>7. got = <<>> /\ buf = <<>>
  <2>1. Len(got \o buf) = Len(got) + Len(buf)
    BY ConcatProperties
  <2>2. PICK a \in Nat, b \in Nat : a = Len(got) /\ b = Len(buf)
    OBVIOUS
  <2>3. a + b = 0
    BY <1>6, <2>1, <2>2
  <2> QED
    BY <2>2, <2>3
<1>8. r2.calling
  BY <1>4, <1>5, <1>7 DEF CallsOn, Piece
<1> QED
  BY <1>3, <1>5, <1>7, <1>8 DEF Hit

\* What TextInv says of the proxy alone.
AsksWell(p) == p.request # <<>> /\ p.request[1] = RequestLines[p.text].file

\* The proxy on its way through the headers: it keeps what TextInv says.
LEMMA TextGoesOn ==
    ASSUME TextInv, asked' = asked, phase' = phase, script' = script,
           proxy'.c = proxy.c, proxy'.text = proxy.text,
           proxy'.pc \in {"headers", "connect", "send"}, AsksWell(proxy'),
           IsAsked \/ (proxy'.pc = "headers" /\ Lost')
    PROVE  TextInv'
<1>1. \A c : Gets(c)' = Gets(c)
  BY ReasonsSame
<1>2. IsAsked => IsAsked'
  BY <1>1 DEF IsAsked
<1>3. \A c \in Proxied : asked'[c] # <<>> => \E r \in Gets(c)' : asked'[c][1] = r.file
  BY <1>1 DEF TextInv
<1>4. HeadersNext' => IsAsked' \/ Lost'
  BY <1>2
<1>5. proxy'.pc \in {"connect", "send"} => IsAsked'
  BY <1>2
<1> QED
  BY <1>3, <1>4, <1>5 DEF TextInv, AsksWell

\* It has written what it had to.
LEMMA WrittenDoes ==
    ASSUME ControlInv, TextInv, HostInv, ProxyWritten
    PROVE  ProxyDoes
<1>0. /\ RioInv /\ proxy \in ProxyType /\ proxy.pc = "write" /\ proxy.c \in Proxied /\ proxy.c \in Clients
      /\ Here \in Streams /\ ReplyOf(proxy.c) \in Streams /\ ReplyOf(proxy.c) \notin Requests
  <2>1. proxy.pc = "write"
    BY DEF ProxyWritten
  <2> QED
    BY <2>1, Names DEF ControlInv, TypeInv, ServingInv, Here
<1>1. CASE ProxyCloses
  BY <1>0, <1>1, ProxyDone
<1>2. CASE proxy.then = "headers" /\ ProxyCalls(Here, [proxy EXCEPT !.pc = "headers", !.first = TRUE,
                     !.request = <<RequestLines[proxy.text].file>> \o CRLF])
  <2>1. PICK file \in Byte : file = RequestLines[proxy.text].file
    BY <1>0, Strings DEF ProxyType
  <2>2. PICK request, f : request = <<file>> \o CRLF /\ f = TRUE
    OBVIOUS
  <2>3. PICK state : state = [proxy EXCEPT !.pc = "headers", !.first = f, !.request = request]
    OBVIOUS
  <2>4. ProxyCalls(Here, state)
    BY <1>2, <2>1, <2>2, <2>3
  <2>5. ProxyAs(state, "headers", proxy.c, "headers", proxy.text, request, proxy.at)
    BY <1>0, <1>2, <2>3, ProxyPartsRead
  <2>6. /\ proxy' = state /\ kernel' = kernel /\ peer' = peer /\ rio' = Called(Here) /\ over' = over
        /\ tiny' = tiny /\ tinyQueue' = tinyQueue /\ proxyQueue' = proxyQueue /\ asked' = asked
        /\ script' = script /\ phase' = phase
    BY <2>4 DEF ProxyCalls, connVars, tinyVars, clientVars
  <2>7. \A p \in Streams : p # Here => Quiet(p)
    BY <1>0, <2>6 DEF Called, RioInv, Quiet
  <2>8. ProxyTouches
    BY <1>0, <2>5, <2>6, <2>7, ProxyOn, Names DEF ProxyAs, clientVars
  <2>9. KeepsName
    BY <1>0, <1>2, <2>5, <2>6 DEF KeepsName, ProxyAs, PastHost, HeadersNext
  <2>10. AsksWell(proxy')
    <3>1. request # <<>> /\ request[1] = file
      BY <2>1, <2>2 DEF CRLF
    <3> QED
      BY <2>1, <2>5, <2>6, <3>1 DEF AsksWell, ProxyAs
  <2>11. IsAsked \/ Lost'
    <3>1. IsAsked \/ Lost
      BY <1>0, <1>2 DEF TextInv, HeadersNext
    <3>2. Here' = Here
      BY <2>5, <2>6 DEF Here, ProxyAs
    <3>3. ASSUME Lost PROVE Hit(rio'[Here], kernel'[Here], peer'[Here]) /\ rio'[Here].calling /\ rio'[Here].got = <<>>
      <4>1. Hit(rio[Here], kernel[Here], peer[Here])
        BY <3>3 DEF Lost
      <4> HIDE DEF Here
      <4> QED
        BY <1>0, <2>6, <4>1, LostCalls
    <3> QED
      BY <3>1, <3>2, <3>3 DEF Lost
  <2>12. TextInv'
    BY <2>5, <2>6, <2>10, <2>11, TextGoesOn DEF ProxyAs
  <2> QED
    BY <2>5, <2>6, <2>8, <2>9, <2>12, NameKept DEF ProxyDoes, ProxyDownFor, ProxyAs
<1>4. CASE proxy.then = "headers" /\ ~RequestLines[proxy.text].urlOK /\ ProxyExits
  <2>1. CASE IsAsked
    <3>1. BadName
      BY <1>0, <1>4, <2>1 DEF BadName, IsAsked
    <3> QED
      BY <1>0, <1>4, <3>1, ProxyFails
  <2>2. CASE Lost
    <3>1. phase[proxy.c] = "left"
      BY <1>0, <2>2 DEF Lost, Hit, ControlInv, PeerInv, Here
    <3> QED
      BY <1>0, <1>4, <3>1, ProxyFails DEF SomeoneLeft
  <2> QED
    BY <1>0, <1>4, <2>1, <2>2 DEF TextInv, HeadersNext
<1>3. CASE proxy.then = "relay" /\ ProxyCalls(ReplyOf(proxy.c), [proxy EXCEPT !.pc = "relay"])
  <2>1. PICK state : state = [proxy EXCEPT !.pc = "relay"]
    OBVIOUS
  <2>2. ProxyAs(state, "relay", proxy.c, "relay", proxy.text, proxy.request, proxy.at)
    BY <1>0, <1>3, <2>1, ProxyParts
  <2>3. /\ proxy' = state /\ kernel' = kernel /\ peer' = peer /\ rio' = Called(ReplyOf(proxy.c)) /\ over' = over
        /\ tiny' = tiny /\ tinyQueue' = tinyQueue /\ proxyQueue' = proxyQueue /\ asked' = asked
        /\ script' = script /\ phase' = phase
    BY <1>3, <2>1 DEF ProxyCalls, connVars, tinyVars, clientVars
  <2>4. \A p \in Requests : Quiet(p)
    BY <1>0, <2>3, Names DEF Called, RioInv, Quiet
  <2>5. ProxyTouches
    BY <1>0, <2>2, <2>3, <2>4, ProxyOn DEF ProxyAs, clientVars
  <2>6. KeepsName
    BY <1>0, <1>3, <2>2, <2>3 DEF KeepsName, ProxyAs, PastHost, HeadersNext
  <2>7. TextInv'
    BY <2>2, <2>3, TextIdle DEF ProxyAs
  <2> QED
    BY <2>2, <2>3, <2>5, <2>6, <2>7, NameKept DEF ProxyDoes, ProxyDownFor, ProxyAs
<1> QED
  BY <1>1, <1>2, <1>3, <1>4 DEF ProxyWritten

\* What follows the request line does not change it.
LEMMA BeginningKept ==
    ASSUME NEW x \in Seq(Byte), x # <<>>, NEW y \in Seq(Byte)
    PROVE  x \o y # <<>> /\ (x \o y)[1] = x[1]
<1>1. Len(x) > 0 /\ Len(x \o y) = Len(x) + Len(y)
  BY ConcatProperties
<1> QED
  BY <1>1

\* The headers that are added come after it.
LEMMA WithAddedBegins ==
    ASSUME NEW x \in Seq(Byte), x # <<>>
    PROVE  WithAdded(x) # <<>> /\ WithAdded(x)[1] = x[1]
<1>1. PICK names \in Seq(Byte) : names = Added
  BY Strings
<1>2. PICK extra : extra = [k \in DOMAIN names |-> IF names[k] \in ToSet(x) THEN <<>> ELSE <<names[k]>> \o CRLF]
  OBVIOUS
<1>3. extra \in Seq(Seq(Byte))
  <2>1. PICK n \in Nat : n = Len(names) /\ DOMAIN names = 1..n
    OBVIOUS
  <2>2. \A k \in 1..n : extra[k] \in Seq(Byte)
    BY <1>2, <2>1, Strings
  <2> QED
    BY <1>2, <2>1, <2>2
<1>4. PICK y \in Seq(Byte) : y = FlattenSeq(extra)
  BY <1>3, FlattenType
<1>5. WithAdded(x) = (x \o y) \o CRLF
  BY <1>1, <1>2, <1>4 DEF WithAdded
<1>6. x \o y \in Seq(Byte) /\ x \o y # <<>> /\ (x \o y)[1] = x[1]
  BY BeginningKept, ConcatProperties
<1>7. PICK u \in Seq(Byte), e \in Seq(Byte) : u = x \o y /\ e = CRLF
  BY <1>6, Strings
<1>8. u \o e # <<>> /\ (u \o e)[1] = u[1]
  BY <1>6, <1>7, BeginningKept
<1> QED
  BY <1>5, <1>6, <1>7, <1>8

\* It reads the headers.
LEMMA HeadersDoes ==
    ASSUME ControlInv, TextInv, HostInv, ProxyHeaders
    PROVE  ProxyDoes
<1>0. /\ RioInv /\ proxy \in ProxyType /\ proxy.pc = "headers" /\ ~rio[Here].calling /\ proxy.c \in Proxied
      /\ Here \in Streams /\ proxy.request \in Seq(Byte) /\ rio[Here].got \in Seq(Byte)
  <2>1. proxy.pc = "headers" /\ ~rio[Here].calling
    BY DEF ProxyHeaders
  <2>2. RioInv /\ proxy \in ProxyType /\ proxy.c \in Proxied /\ Here \in Streams
    BY <2>1, Names DEF ControlInv, TypeInv, ServingInv, Here
  <2> QED
    BY <2>1, <2>2 DEF RioInv, RioCall, ProxyType
<1>1. CASE ProxyCloses
  BY <1>0, <1>1, ProxyDone
<1>2. AsksWell(proxy) /\ (IsAsked \/ (rio[Here].rc = 0 /\ rio[Here].got = <<>>))
  BY <1>0 DEF TextInv, AsksWell, HeadersNext, Lost
<1>3. CASE /\ rio[Here].got = CRLF \/ (rio[Here].rc = -1 /\ proxy.first)
           /\ ProxyGoesOn([proxy EXCEPT !.pc = "connect", !.request = WithAdded(proxy.request)])
  <2>1. PICK request : request = WithAdded(proxy.request)
    OBVIOUS
  <2>2. PICK state : state = [proxy EXCEPT !.pc = "connect", !.request = request]
    OBVIOUS
  <2>3. ProxyAs(state, "connect", proxy.c, proxy.then, proxy.text, request, proxy.at)
    BY <1>0, <2>2, ProxyPartsRead
  <2>4. /\ proxy' = state /\ kernel' = kernel /\ peer' = peer /\ rio' = rio /\ over' = over
        /\ tiny' = tiny /\ tinyQueue' = tinyQueue /\ proxyQueue' = proxyQueue /\ asked' = asked
        /\ script' = script /\ phase' = phase
    BY <1>3, <2>1, <2>2 DEF ProxyGoesOn, rioVars, connVars, tinyVars, clientVars
  <2>5. ProxyTouches
    BY <1>0, <2>3, <2>4, ProxyOn DEF ProxyAs, Quiet, clientVars
  <2>6. KeepsName
    BY <1>0, <2>3, <2>4 DEF KeepsName, ProxyAs, PastHost, HeadersNext
  <2>7. AsksWell(proxy')
    BY <1>0, <1>2, <2>1, <2>3, <2>4, WithAddedBegins DEF AsksWell, ProxyAs
  <2>8. IsAsked
    <3>1. CRLF # <<>>
      BY DEF CRLF
    <3> QED
      BY <1>2, <1>3, <3>1
  <2>9. TextInv'
    BY <2>3, <2>4, <2>7, <2>8, TextGoesOn DEF ProxyAs
  <2> QED
    BY <2>3, <2>4, <2>5, <2>6, <2>9, NameKept DEF ProxyDoes, ProxyDownFor, ProxyAs
<1>4. CASE /\ rio[Here].rc # 0
           /\ ProxyCalls(Here, [proxy EXCEPT !.first = FALSE, !.request = proxy.request \o rio[Here].got])
  <2>1. PICK f, request : f = FALSE /\ request = proxy.request \o rio[Here].got
    OBVIOUS
  <2>2. PICK state : state = [proxy EXCEPT !.first = f, !.request = request]
    OBVIOUS
  <2>3. ProxyAs(state, "headers", proxy.c, proxy.then, proxy.text, request, proxy.at)
    BY <1>0, <2>2, ProxyPartsRead
  <2>4. /\ proxy' = state /\ kernel' = kernel /\ peer' = peer /\ rio' = Called(Here) /\ over' = over
        /\ tiny' = tiny /\ tinyQueue' = tinyQueue /\ proxyQueue' = proxyQueue /\ asked' = asked
        /\ script' = script /\ phase' = phase
    BY <1>4, <2>1, <2>2 DEF ProxyCalls, connVars, tinyVars, clientVars
  <2>5. \A p \in Streams : p # Here => Quiet(p)
    BY <1>0, <2>4 DEF Called, RioInv, Quiet
  <2>6. ProxyTouches
    BY <1>0, <2>3, <2>4, <2>5, ProxyOn, Names DEF ProxyAs, clientVars
  <2>7. KeepsName
    BY <1>0, <2>3, <2>4 DEF KeepsName, ProxyAs, PastHost, HeadersNext
  <2>8. AsksWell(proxy')
    <3>1. request # <<>> /\ request[1] = proxy.request[1]
      BY <1>0, <1>2, <2>1, BeginningKept DEF AsksWell
    <3>2. proxy'.request = request /\ proxy'.text = proxy.text
      BY <2>3, <2>4 DEF ProxyAs
    <3> QED
      BY <1>2, <3>1, <3>2 DEF AsksWell
  <2>9. TextInv'
    BY <1>2, <1>4, <2>3, <2>4, <2>8, TextGoesOn DEF ProxyAs
  <2> QED
    BY <2>3, <2>4, <2>6, <2>7, <2>9, NameKept DEF ProxyDoes, ProxyDownFor, ProxyAs
<1> QED
  BY <1>1, <1>3, <1>4 DEF ProxyHeaders

\* It connects to tiny, or finds nobody.
LEMMA ConnectDoes ==
    ASSUME ControlInv, TextInv, HostInv, ProxyConnect
    PROVE  ProxyDoes
<1>0. proxy.pc = "connect" /\ proxy \in ProxyType /\ proxy.c \in Proxied
  BY DEF ProxyConnect, ControlInv, TypeInv, ServingInv
<1>1. CASE ProxyExits /\ (proxy.at \notin TinysAddresses \/ tiny.pc = "down")
  BY <1>0, <1>1, ProxyFails DEF HostInv
<1>2. CASE /\ tinyQueue' = Append(tinyQueue, ForwardOf(proxy.c))
           /\ proxy' = [proxy EXCEPT !.pc = "send"]
           /\ UNCHANGED <<rioVars, connVars, tiny, proxyQueue, asked, clientVars>>
  <2>1. PICK state : state = [proxy EXCEPT !.pc = "send"]
    OBVIOUS
  <2>2. ProxyAs(state, "send", proxy.c, proxy.then, proxy.text, proxy.request, proxy.at)
    BY <1>0, <2>1, ProxyParts
  <2>3. /\ proxy' = state /\ kernel' = kernel /\ peer' = peer /\ rio' = rio /\ over' = over
        /\ tiny' = tiny /\ proxyQueue' = proxyQueue /\ asked' = asked
        /\ script' = script /\ phase' = phase
    BY <1>2, <2>1 DEF rioVars, connVars, clientVars
  <2>4. ProxyTouches
    BY <1>0, <1>2, <2>2, <2>3 DEF ProxyTouches, ProxyAs, ProxyUp, Quiet
  <2>5. KeepsName
    BY <1>0, <2>2, <2>3 DEF KeepsName, ProxyAs, PastHost, HeadersNext
  <2>6. AsksWell(proxy') /\ IsAsked
    BY <1>0, <2>2, <2>3 DEF TextInv, AsksWell, ProxyAs
  <2>7. TextInv'
    BY <2>2, <2>3, <2>6, TextGoesOn DEF ProxyAs
  <2> QED
    BY <2>2, <2>3, <2>4, <2>5, <2>7, NameKept DEF ProxyDoes, ProxyDownFor, ProxyAs
<1> QED
  BY <1>1, <1>2 DEF ProxyConnect

\* The request is sent.
RequestSent(outcome) ==
    /\ asked' = [asked EXCEPT ![proxy.c] = proxy.request]
    /\ kernel' = IF outcome[2] = "open"
                 THEN [kernel EXCEPT ![ForwardOf(proxy.c)] = kernel[ForwardOf(proxy.c)] \o proxy.request]
                 ELSE kernel
    /\ peer' = [peer EXCEPT ![ReplyOf(proxy.c)] = outcome[2]]
    /\ proxy' = [proxy EXCEPT !.pc = "write", !.out = <<>>, !.then = "relay"]
    /\ UNCHANGED <<rio, connVars, tinyVars, proxyQueue, clientVars>>

\* It sends the request to tiny, or fails because tiny is gone.
LEMMA SendDoes ==
    ASSUME ControlInv, TextInv, HostInv, ProxySend
    PROVE  ProxyDoes
<1>0. /\ RioInv /\ proxy.pc = "send" /\ proxy \in ProxyType /\ proxy.c \in Proxied
      /\ asked \in [Proxied -> Seq(Byte)] /\ ReplyOf(proxy.c) \in Streams
  <2>1. proxy.pc = "send"
    BY DEF ProxySend
  <2> QED
    BY <2>1, Names DEF ControlInv, TypeInv, ServingInv
<1>1. PICK outcome \in WriteOutcomes(ReplyOf(proxy.c)) :
         \/ outcome[1] # "ECONNRESET" /\ RequestSent(outcome)
         \/ outcome[1] = "ECONNRESET" /\ ProxyExits
  BY DEF ProxySend, RequestSent
<1>2. CASE outcome[1] = "ECONNRESET" /\ ProxyExits
  <2>1. peer[ReplyOf(proxy.c)] = "reset"
    BY <1>0, <1>2, WriteOutcome
  <2>2. tiny.pc = "down"
    <3>1. TinyUp => ForwardOf(proxy.c) \in ToSet(tinyQueue) \/ TinyAt(ForwardOf(proxy.c))
      BY <1>0 DEF ControlInv, SendInv
    <3>2. TinyUp => peer[ReplyOf(proxy.c)] = "open"
      BY <1>0, <3>1 DEF ControlInv, PeerInv
    <3> QED
      BY <2>1, <3>2 DEF TinyUp
  <2> QED
    BY <1>0, <1>2, <2>2, ProxyFails
<1>3. CASE RequestSent(outcome)
  <2>1. PICK out : out = <<>>
    OBVIOUS
  <2>2. proxy' = [proxy EXCEPT !.pc = "write", !.out = out, !.then = "relay"]
    BY <1>3, <2>1 DEF RequestSent
  <2>3. ProxyAs(proxy', "write", proxy.c, "relay", proxy.text, proxy.request, proxy.at)
    BY <1>0, <2>2, ProxyParts
  <2>4. /\ rio' = rio /\ over' = over /\ tiny' = tiny /\ tinyQueue' = tinyQueue
        /\ proxyQueue' = proxyQueue /\ script' = script /\ phase' = phase
    BY <1>3 DEF RequestSent, connVars, tinyVars, clientVars
  <2>5. \A p \in Streams : p \notin {ForwardOf(proxy.c), ReplyOf(proxy.c)} =>
            kernel'[p] = kernel[p] /\ peer'[p] = peer[p]
    <3>1. \A p \in Streams : p # ReplyOf(proxy.c) => peer'[p] = peer[p]
      BY <1>0, <1>3 DEF RequestSent, RioInv
    <3>2. \A p \in Streams : p # ForwardOf(proxy.c) => kernel'[p] = kernel[p]
      <4>1. CASE outcome[2] = "open"
        BY <1>0, <1>3, <4>1 DEF RequestSent, RioInv
      <4>2. CASE outcome[2] # "open"
        BY <1>3, <4>2 DEF RequestSent
      <4> QED
        BY <4>1, <4>2
    <3> QED
      BY <3>1, <3>2
  <2>6. \A c \in Clients : Quiet(RequestOf(c))
    BY <1>0, <2>4, <2>5, Names DEF Quiet
  <2>7. ProxyTouches
    BY <1>0, <2>3, <2>4, <2>6 DEF ProxyTouches, ProxyAs, ProxyUp
  <2>8. KeepsName
    BY <1>0, <2>3 DEF KeepsName, ProxyAs, PastHost, HeadersNext
  <2>9. \A c : Gets(c)' = Gets(c)
    BY <2>4, ReasonsSame
  <2>10. \A c \in Proxied : asked'[c] # <<>> => \E r \in Gets(c)' : asked'[c][1] = r.file
    <3> SUFFICES ASSUME NEW c \in Proxied, asked'[c] # <<>>
                 PROVE  \E r \in Gets(c) : asked'[c][1] = r.file
      BY <2>9
    <3>1. CASE c = proxy.c
      <4>1. asked'[c] = proxy.request
        BY <1>0, <1>3, <3>1 DEF RequestSent
      <4>2. IsAsked /\ AsksWell(proxy)
        BY <1>0 DEF TextInv, AsksWell
      <4> QED
        BY <3>1, <4>1, <4>2 DEF IsAsked, AsksWell
    <3>2. CASE c # proxy.c
      <4>1. asked'[c] = asked[c]
        BY <1>0, <1>3, <3>2 DEF RequestSent
      <4> QED
        BY <4>1 DEF TextInv
    <3> QED
      BY <3>1, <3>2
  <2>11. TextInv'
    BY <2>3, <2>10 DEF TextInv, HeadersNext, ProxyAs
  <2> QED
    BY <2>3, <2>7, <2>8, <2>11, NameKept DEF ProxyDoes, ProxyDownFor, ProxyAs
<1> QED
  BY <1>1, <1>2, <1>3

\* It passes on a block, or is done.
LEMMA RelayDoes ==
    ASSUME ControlInv, TextInv, HostInv, ProxyRelay
    PROVE  ProxyDoes
<1>0. proxy.pc = "relay" /\ proxy \in ProxyType
  BY DEF ProxyRelay, ControlInv, TypeInv
<1>1. CASE ProxyCloses
  BY <1>0, <1>1, ProxyDone
<1>2. CASE ProxyGoesOn([proxy EXCEPT !.pc = "write", !.then = "relay",
                        !.out = IF rio[ReplyOf(proxy.c)].rc = -1 THEN <<>> ELSE <<rio[ReplyOf(proxy.c)].got>>])
  <2>1. PICK out : out = IF rio[ReplyOf(proxy.c)].rc = -1 THEN <<>> ELSE <<rio[ReplyOf(proxy.c)].got>>
    OBVIOUS
  <2>2. PICK state : state = [proxy EXCEPT !.pc = "write", !.then = "relay", !.out = out]
    OBVIOUS
  <2>3. ProxyAs(state, "write", proxy.c, "relay", proxy.text, proxy.request, proxy.at)
    BY <1>0, <2>2, ProxyParts
  <2>4. ProxyGoesOn(state)
    BY <1>2, <2>1, <2>2
  <2>5. \A p : Quiet(p)
    BY <2>4 DEF ProxyGoesOn, rioVars, Quiet
  <2> QED
    BY <1>0, <2>3, <2>4, <2>5, ProxyIdles DEF ProxyAs, ProxyGoesOn, connVars, tinyVars
<1> QED
  BY <1>1, <1>2 DEF ProxyRelay

\* It reads from a stream.
LEMMA ReadDoes ==
    ASSUME ControlInv, TextInv, HostInv,
           \/ proxy.pc \in {"requestline", "headers"} /\ Read(Here)
           \/ proxy.pc = "relay" /\ Read(ReplyOf(proxy.c)),
           UNCHANGED <<connVars, tinyVars, proxyVars, clientVars>>
    PROVE  ProxyDoes
<1>0. /\ RioInv /\ proxy \in ProxyType /\ proxy.c \in Proxied /\ proxy.c \in Clients
      /\ Here \in Streams /\ ReplyOf(proxy.c) \in Streams /\ ReplyOf(proxy.c) \notin Requests
  BY Names DEF ControlInv, TypeInv, ServingInv, Here
<1>1. /\ tiny' = tiny /\ tinyQueue' = tinyQueue /\ over' = over /\ proxy' = proxy
      /\ proxyQueue' = proxyQueue /\ asked' = asked /\ script' = script /\ phase' = phase
      /\ Here' = Here
  BY DEF tinyVars, connVars, proxyVars, clientVars, Here
<1>2. CASE proxy.pc = "relay" /\ Read(ReplyOf(proxy.c))
  <2>1. \A p \in Requests : Quiet(p)
    BY <1>0, <1>2, OneRead, Names
  <2>2. ProxyTouches
    BY <1>1, <1>2, <2>1, Names DEF ProxyTouches, ProxyUp
  <2>3. TextInv'
    BY <1>1, <1>2, TextIdle
  <2>4. KeepsName
    BY <1>1, <1>2 DEF KeepsName, PastHost, HeadersNext
  <2> QED
    BY <1>1, <1>2, <2>2, <2>3, <2>4, NameKept DEF ProxyDoes, ProxyDownFor
<1>3. CASE proxy.pc \in {"requestline", "headers"} /\ Read(Here)
  <2>1. Reading(Here) /\ \A p \in Streams : p # Here => Quiet(p)
    <3> HIDE DEF Here
    <3> QED
      BY <1>0, <1>3, OneRead
  <2>2. \A c \in Clients : ~ProxyAt(c) => Quiet(RequestOf(c))
    BY <1>0, <1>3, <2>1, Names DEF ProxyAt, Here
  <2>3. \A c \in Proxied : Quiet(ForwardOf(c))
    BY <1>0, <2>1, Names DEF Here
  <2>4. ProxyTouches
    BY <1>1, <1>3, <2>1, <2>2, <2>3 DEF ProxyTouches, ProxyUp
  <2>5. KeepsName
    BY <1>1, <1>3 DEF KeepsName, PastHost, HeadersNext
  <2>6. TextInv'
    <3>1. CASE proxy.pc = "requestline"
      BY <1>1, <3>1, TextIdle
    <3>2. CASE proxy.pc = "headers"
      <4>1. AsksWell(proxy') /\ (IsAsked \/ Lost)
        BY <1>1, <3>2 DEF TextInv, AsksWell, HeadersNext
      <4>2. Lost => Lost'
        <5>1. SUFFICES ASSUME Lost PROVE Lost'
          OBVIOUS
        <5>2. PICK r \in RioCall : r = rio[Here]
          BY <1>0 DEF RioInv
        <5>3. r.buf = <<>> /\ r.got = <<>> /\ kernel[Here] = <<>> /\ peer[Here] = "noticed"
          BY <3>2, <5>1, <5>2 DEF Lost, Hit
        <5>4. PICK n : n = Len(r.got)
          OBVIOUS
        <5>5. /\ rio'[Here] = [r EXCEPT !.calling = FALSE, !.rc = n]
              /\ kernel'[Here] = kernel[Here] /\ peer'[Here] = peer[Here]
          BY <2>1, <5>2, <5>3, <5>4 DEF Reading
        <5>6. rio'[Here].buf = r.buf /\ rio'[Here].got = r.got /\ rio'[Here].rc = n
          BY <5>5 DEF RioCall
        <5>7. n = 0
          BY <5>3, <5>4
        <5> QED
          BY <1>1, <5>3, <5>5, <5>6, <5>7 DEF Lost, Hit
      <4> QED
        BY <1>1, <3>2, <4>1, <4>2, TextGoesOn
    <3> QED
      BY <1>3, <3>1, <3>2
  <2> QED
    BY <1>1, <1>3, <2>4, <2>5, <2>6, NameKept DEF ProxyDoes, ProxyDownFor
<1> QED
  BY <1>2, <1>3

\* Whatever the proxy does.
LEMMA ProxyFrame ==
    ASSUME ControlInv, FirstInv, TextInv, HostInv, ProxyStep
    PROVE  ProxyDoes
  BY AcceptDoes, RequestLineDoes, WriteDoes, WrittenDoes, HeadersDoes, ConnectDoes, SendDoes, RelayDoes, ReadDoes
  DEF ProxyStep

\* What is in a queue to which something is added.
LEMMA AppendedTo ==
    ASSUME NEW S, NEW q \in Seq(S), NEW x \in S
    PROVE  ToSet(Append(q, x)) \subseteq ToSet(q) \cup {x}
<1>1. PICK n \in Nat : n = Len(q) /\ DOMAIN q = 1..n
  OBVIOUS
<1>2. /\ DOMAIN Append(q, x) = 1..(n + 1)
      /\ \A i \in 1..(n + 1) : Append(q, x)[i] = IF i = n + 1 THEN x ELSE q[i]
  BY <1>1
<1> QED
  BY <1>1, <1>2 DEF ToSet

\* What tiny's first call finds when the proxy sends: nothing was on the stream,
\* and tiny has not read from it.
LEMMA SendFirst ==
    ASSUME ControlInv, FirstInv, NEW outcome \in WriteOutcomes(ReplyOf(proxy.c)), proxy.pc = "send", TinyUp,
           RequestSent(outcome), NEW c \in Proxied
    PROVE  /\ ForwardOf(c) \in ToSet(tinyQueue) => kernel'[ForwardOf(c)] = asked'[c]
           /\ tiny.pc = "requestline" /\ tiny.s = ForwardOf(c) =>
                FirstCall(rio'[ForwardOf(c)], kernel'[ForwardOf(c)], peer'[ForwardOf(c)], asked'[c])
<1>0. /\ RioInv /\ proxy.c \in Proxied /\ proxy.request \in Seq(Byte) /\ asked \in [Proxied -> Seq(Byte)]
      /\ ReplyOf(proxy.c) \in Streams /\ ForwardOf(proxy.c) \in Streams /\ ForwardOf(c) \in Streams
  BY Names DEF ControlInv, TypeInv, ServingInv, ProxyType
<1>1. /\ ForwardOf(c) \in ToSet(tinyQueue) => kernel[ForwardOf(c)] = asked[c]
      /\ tiny.pc = "requestline" /\ tiny.s = ForwardOf(c) => OnFirstCall(ForwardOf(c), asked[c])
  BY DEF FirstInv, ProxyUp
<1>2. peer'[ForwardOf(c)] = peer[ForwardOf(c)] /\ rio'[ForwardOf(c)] = rio[ForwardOf(c)]
  BY <1>0, Names DEF RequestSent, RioInv
<1>3. CASE c # proxy.c
  <2>1. kernel'[ForwardOf(c)] = kernel[ForwardOf(c)]
    <3>1. ForwardOf(c) # ForwardOf(proxy.c)
      BY <1>0, <1>3, Names
    <3>2. CASE outcome[2] = "open"
      BY <1>0, <3>1, <3>2 DEF RequestSent, RioInv
    <3>3. CASE outcome[2] # "open"
      BY <3>3 DEF RequestSent
    <3> QED
      BY <3>2, <3>3
  <2>2. asked'[c] = asked[c]
    BY <1>0, <1>3 DEF RequestSent
  <2> QED
    BY <1>1, <1>2, <2>1, <2>2 DEF OnFirstCall
<1>4. CASE c = proxy.c
  <2>1. /\ kernel[ForwardOf(c)] = <<>>
        /\ \/ ForwardOf(c) \in ToSet(tinyQueue)
           \/ /\ TinyAt(ForwardOf(c)) /\ tiny.pc = "requestline"
              /\ rio[ForwardOf(c)].calling /\ rio[ForwardOf(c)].got = <<>>
    BY <1>4 DEF ControlInv, SendInv
  <2>2. peer[ReplyOf(c)] = "open"
    BY <2>1 DEF ControlInv, PeerInv
  <2>3. outcome[2] = "open"
    BY <1>0, <1>4, <2>2, WriteOutcome
  <2>4. PICK k \in Seq(Byte) : k = proxy.request
    BY <1>0
  <2>5. asked'[c] = k
    BY <1>0, <1>4, <2>4 DEF RequestSent
  <2>6. kernel'[ForwardOf(c)] = k
    <3>1. kernel'[ForwardOf(c)] = kernel[ForwardOf(c)] \o k
      BY <1>0, <1>4, <2>3, <2>4 DEF RequestSent, RioInv
    <3>2. <<>> \o k = k
      BY ConcatEmptySeq
    <3> QED
      BY <2>1, <3>1, <3>2
  <2>7. tiny.pc = "requestline" /\ tiny.s = ForwardOf(c) =>
            rio[ForwardOf(c)].calling /\ rio[ForwardOf(c)].got = <<>>
    <3>1. tiny.pc = "requestline" /\ tiny.s = ForwardOf(c) => TinyAt(ForwardOf(c))
      BY DEF TinyAt
    <3>2. TinyAt(ForwardOf(c)) => ForwardOf(c) \notin ToSet(tinyQueue)
      BY DEF ControlInv, TinyQueueInv
    <3> QED
      BY <2>1, <3>1, <3>2
  <2>8. <<>> \o k = k
    BY ConcatEmptySeq
  <2> QED
    BY <1>2, <2>5, <2>6, <2>7, <2>8 DEF FirstCall
<1> QED
  BY <1>3, <1>4

\* Under the proxy the first calls stay as they should be.
LEMMA ProxyFirst ==
    ASSUME ControlInv, ControlInv', FirstInv, ProxyStep, ProxyTouches
    PROVE  FirstInv'
<1>0. /\ tiny' = tiny /\ script' = script /\ phase' = phase
      /\ \A c : Sends(c)' = Sends(c)
      /\ TinyUp' <=> TinyUp
      /\ ProxyUp
  BY ReasonsSame DEF ProxyTouches, TinyUp
<1>1. RioInv /\ proxyQueue \in Seq(Requests) /\ tinyQueue \in Seq(Requests) /\ kernel \in [Streams -> Seq(Byte)]
  BY DEF ControlInv, TypeInv, RioInv
<1>2. /\ Distinct(proxyQueue) /\ ToSet(proxyQueue) \subseteq ProxysRequests
      /\ \A c \in Proxied : RequestOf(c) \in ToSet(proxyQueue) => ~ProxyAt(c) /\ rio[RequestOf(c)] = NoCall
  BY <1>0 DEF ControlInv, ProxyQueueInv
<1>3. \A c \in Direct : Quiet(RequestOf(c))
  <2>1. \A c \in Direct : ~ProxyAt(c) /\ ~ProxyAt(c)' /\ c \in Clients
    BY Names DEF ControlInv, ServingInv, ProxyAt
  <2> QED
    BY <2>1 DEF ProxyTouches
<1>4. \A s : s \in ToSet(tinyQueue') =>
          \/ s \in ToSet(tinyQueue)
          \/ proxy.pc = "connect" /\ s = ForwardOf(proxy.c)
  <2>1. CASE tinyQueue' = tinyQueue
    BY <2>1
  <2>2. CASE proxy.pc = "connect" /\ tinyQueue' = Append(tinyQueue, ForwardOf(proxy.c))
    <3>1. PICK f \in Requests : f = ForwardOf(proxy.c)
      BY <2>2, Names DEF ControlInv, ServingInv
    <3>2. ToSet(Append(tinyQueue, f)) \subseteq ToSet(tinyQueue) \cup {f}
      BY <1>1, AppendedTo
    <3> QED
      BY <2>2, <3>1, <3>2
  <2> QED
    BY <2>1, <2>2 DEF ProxyTouches
<1>5. ASSUME TinyUp, NEW c \in Direct, RequestOf(c) \in ToSet(tinyQueue')
      PROVE  kernel'[RequestOf(c)] = Sends(c)
  <2>1. proxy.pc = "connect" => RequestOf(c) # ForwardOf(proxy.c)
    BY Names DEF ControlInv, ServingInv
  <2> QED
    BY <1>3, <1>4, <1>5, <2>1 DEF FirstInv, Quiet
<1>6. ASSUME proxy'.pc # "down", NEW c \in Proxied, RequestOf(c) \in ToSet(proxyQueue')
      PROVE  kernel'[RequestOf(c)] = Sends(c)
  <2>1. RequestOf(c) \in ToSet(proxyQueue)
    <3>1. CASE proxyQueue' = proxyQueue
      BY <1>6, <3>1
    <3>2. CASE proxyQueue # <<>> /\ proxyQueue' = Tail(proxyQueue)
      <4>1. ToSet(Tail(proxyQueue)) = ToSet(proxyQueue) \ {Head(proxyQueue)}
        BY <1>1, <1>2, <3>2, QueueTaken
      <4> QED
        BY <1>6, <3>2, <4>1
    <3> QED
      BY <3>1, <3>2 DEF ProxyTouches
  <2>2. ~ProxyAt(c) /\ ~ProxyAt(c)' /\ c \in Clients
    BY <1>2, <1>6, <2>1, Names DEF ControlInv, ProxyQueueInv, ProxyUp
  <2>3. kernel'[RequestOf(c)] = kernel[RequestOf(c)]
    BY <2>2 DEF ProxyTouches, Quiet
  <2> QED
    BY <1>0, <2>1, <2>3 DEF FirstInv
<1>7. ASSUME NEW c \in Direct, tiny.pc = "requestline", tiny.s = RequestOf(c)
      PROVE  FirstCall(rio'[tiny.s], kernel'[tiny.s], peer'[tiny.s], Sends(c))
  BY <1>3, <1>7 DEF FirstInv, OnFirstCall, Quiet
<1>8. ASSUME proxy'.pc = "requestline"
      PROVE  FirstCall(rio'[RequestOf(proxy'.c)], kernel'[RequestOf(proxy'.c)], peer'[RequestOf(proxy'.c)],
                       Sends(proxy'.c))
  <2>1. proxy'.c \in Proxied
    BY <1>8 DEF ControlInv, ServingInv
  <2>2. PICK c \in Proxied : c = proxy'.c
    BY <2>1
  <2>3. PICK s \in Streams : s = RequestOf(c)
    BY Names
  <2>4. CASE proxy'.c = proxy.c /\ proxy.pc = "requestline" /\ Reading(Here)
    <3>1. s = Here
      BY <2>2, <2>3, <2>4 DEF Here
    <3>2. OnFirstCall(s, Sends(c)) /\ Reading(s)
      BY <2>2, <2>4, <3>1 DEF FirstInv
    <3> QED
      BY <1>1, <2>2, <2>3, <3>2, FirstCallKept
  <2>5. CASE /\ proxyQueue # <<>> /\ s = Head(proxyQueue)
             /\ rio'[s] = Copied(s, [rio[s] EXCEPT !.got = <<>>])
             /\ kernel'[s] = kernel[s]
    <3>1. s \in ToSet(proxyQueue)
      BY <1>1, <1>2, <2>5, QueueTaken
    <3>2. rio[s] = NoCall /\ kernel[s] = Sends(c)
      BY <1>0, <1>2, <2>3, <3>1 DEF FirstInv
    <3>3. PICK k \in Seq(Byte) : k = kernel[s]
      BY <1>1
    <3>4. PICK p : p = peer'[s]
      OBVIOUS
    <3>5. FirstCall(Copied(s, [NoCall EXCEPT !.got = <<>>]), k, p, k)
      BY FirstCallBegins
    <3> QED
      BY <2>2, <2>3, <2>5, <3>2, <3>3, <3>4, <3>5
  <2> QED
    BY <1>8, <2>2, <2>3, <2>4, <2>5 DEF ProxyTouches
<1>9. ASSUME TinyUp, proxy'.pc # "down", NEW c \in Proxied
      PROVE  /\ ForwardOf(c) \in ToSet(tinyQueue') => kernel'[ForwardOf(c)] = asked'[c]
             /\ tiny.pc = "requestline" /\ tiny.s = ForwardOf(c) =>
                  FirstCall(rio'[tiny.s], kernel'[tiny.s], peer'[tiny.s], asked'[c])
  <2>0. /\ ForwardOf(c) \in ToSet(tinyQueue) => kernel[ForwardOf(c)] = asked[c]
        /\ tiny.pc = "requestline" /\ tiny.s = ForwardOf(c) => OnFirstCall(tiny.s, asked[c])
    BY <1>0, <1>9 DEF FirstInv
  <2>1. CASE proxy.pc # "send"
    <3>1. asked' = asked /\ Quiet(ForwardOf(c))
      BY <1>9, <2>1 DEF ProxyTouches
    <3>2. ASSUME proxy.pc = "connect", ForwardOf(c) = ForwardOf(proxy.c)
          PROVE  kernel[ForwardOf(c)] = asked[c]
      <4>1. c = proxy.c /\ over[RequestOf(c)] = "no"
        BY <3>2, Names DEF ControlInv, ServingInv, Here
      <4>2. ~Connected(c)
        BY <3>2 DEF Connected, PastConnect
      <4> QED
        BY <4>1, <4>2 DEF ControlInv, UnconnectedInv, Untouched
    <3> QED
      BY <1>4, <2>0, <3>1, <3>2 DEF Quiet, OnFirstCall
  <2>2. CASE proxy.pc = "send"
    <3>1. ProxySend
      BY <2>2 DEF ProxyStep, ProxyAccept, ProxyRequestLine, ProxyWrite, ProxyWritten, ProxyHeaders,
                  ProxyConnect, ProxyRelay
    <3>2. ~ProxyExits
      <4>1. proxy \in ProxyType
        BY DEF ControlInv, TypeInv
      <4>2. [proxy EXCEPT !.pc = "down"].pc = "down"
        BY <4>1 DEF ProxyType
      <4> QED
        BY <1>9, <4>2 DEF ProxyExits
    <3>3. PICK outcome \in WriteOutcomes(ReplyOf(proxy.c)) : RequestSent(outcome)
      BY <3>1, <3>2 DEF ProxySend, RequestSent
    <3>4. tinyQueue' = tinyQueue
      BY <3>3 DEF RequestSent, tinyVars
    <3> QED
      BY <1>9, <2>2, <3>3, <3>4, SendFirst
  <2> QED
    BY <2>1, <2>2
<1> QED
  BY <1>0, <1>5, <1>6, <1>7, <1>8, <1>9 DEF FirstInv, TinyUp, ProxyUp, OnFirstCall, Here

\* Nobody else has asked tiny for anything.
LEMMA ProxyEmpty ==
    ASSUME EmptyInv, ProxyTouches
    PROVE  EmptyInv'
<1>1. tiny' = tiny /\ ProxyUp /\ ReasonsStay
  BY ReasonsSame DEF ProxyTouches
<1>2. tiny'.then = "mmap" => AsksForEmpty'
  BY <1>1 DEF EmptyInv, ReasonsStay
<1> QED
  BY <1>2 DEF EmptyInv

\* Why a server is down, in short.
LEMMA FaultsAre ==
    FaultsContained <=>
        /\ tiny.pc = "down" => SomeoneLeft(Direct) \/ AsksForEmpty \/ proxy.pc = "down"
        /\ proxy.pc = "down" => SomeoneLeft(Proxied) \/ BadName \/ tiny.pc = "down"
<1>1. (\E c \in Proxied : \/ phase[c] = "left"
                          \/ \E r \in Gets(c) : ~r.urlOK \/ r.at \notin TinysAddresses
                          \/ SpoiltName(c)) <=> SomeoneLeft(Proxied) \/ BadName
  BY DEF SomeoneLeft, BadName
<1>2. (\E c \in Direct : phase[c] = "left") <=> SomeoneLeft(Direct)
  BY DEF SomeoneLeft
<1>3. (\E c \in Clients : \E r \in Gets(c) : r.file = "empty") <=> AsksForEmpty
  BY DEF AsksForEmpty
<1> QED
  BY <1>1, <1>2, <1>3 DEF FaultsContained

\* The same of the next state.
LEMMA FaultsWillBe ==
    ASSUME /\ tiny'.pc = "down" => SomeoneLeft(Direct)' \/ AsksForEmpty' \/ proxy'.pc = "down"
           /\ proxy'.pc = "down" => SomeoneLeft(Proxied)' \/ BadName' \/ tiny'.pc = "down"
    PROVE  FaultsContained'
<1>1. (\E c \in Proxied : \/ phase'[c] = "left"
                          \/ \E r \in Gets(c)' : ~r.urlOK \/ r.at \notin TinysAddresses
                          \/ SpoiltName(c)') <=> SomeoneLeft(Proxied)' \/ BadName'
  BY DEF SomeoneLeft, BadName
<1>2. (\E c \in Direct : phase'[c] = "left") <=> SomeoneLeft(Direct)'
  BY DEF SomeoneLeft
<1>3. (\E c \in Clients : \E r \in Gets(c)' : r.file = "empty") <=> AsksForEmpty'
  BY DEF AsksForEmpty
<1> QED
  BY <1>1, <1>2, <1>3 DEF FaultsContained

\* The proxy goes down only for one of the reasons.
LEMMA ProxyFault ==
    ASSUME FaultsContained, ProxyTouches, ProxyDownFor
    PROVE  FaultsContained'
<1>1. tiny' = tiny /\ ProxyUp /\ ReasonsStay /\ Direct \in SUBSET Clients /\ Proxied \in SUBSET Clients
  BY ReasonsSame, Names DEF ProxyTouches
<1> QED
  BY <1>1, FaultsAre, FaultsWillBe DEF ReasonsStay, ProxyUp, ProxyDownFor

-----------------------------------------------------------------------------
\* What comes into a queue is the connection of a client that has just connected,
\* with all that it sends.
Arriving(queue) ==
    \A s \in ToSet(queue)' : \/ s \in ToSet(queue)
                             \/ \E c \in Clients : s = RequestOf(c) /\ phase[c] = "new" /\ kernel'[s] = Sends(c)

\* What a client does, or nothing: a stream that is in use it can only close.
ClientTouches ==
    /\ proxy' = proxy /\ tiny' = tiny /\ rio' = rio /\ over' = over /\ asked' = asked /\ script' = script
    /\ \A c \in Clients : /\ phase[c] # "new" => phase'[c] # "new"
                          /\ phase[c] = "left" => phase'[c] = "left"
                          /\ phase[c] # "new" => Quiet(RequestOf(c)) \/ Closing(RequestOf(c))
    /\ \A c \in Proxied : Quiet(ForwardOf(c))
    /\ Arriving(tinyQueue) /\ Arriving(proxyQueue)

\* A client connects.
LEMMA SendTouches ==
    ASSUME ControlInv, NEW c0 \in Clients, Send(c0)
    PROVE  ClientTouches
<1>0. /\ RioInv /\ tinyQueue \in Seq(Requests) /\ proxyQueue \in Seq(Requests)
      /\ phase \in [Clients -> {"new", "sent", "left"}]
  BY DEF ControlInv, TypeInv
<1>1. PICK s \in Streams : s = RequestOf(c0) /\ s \in Requests
  BY Names
<1>2. /\ phase[c0] = "new" /\ peer' = peer /\ rio' = rio /\ over' = over /\ tiny' = tiny
      /\ proxy' = proxy /\ asked' = asked /\ script' = script
      /\ kernel' = [kernel EXCEPT ![s] = Sends(c0)]
      /\ phase' = [phase EXCEPT ![c0] = "sent"]
  BY <1>1 DEF Send, connVars, Sends, Lines
<1>3. kernel'[s] = Sends(c0) /\ \A p \in Streams : p # s => Quiet(p)
  BY <1>0, <1>1, <1>2 DEF RioInv, Quiet
<1>4. \A c \in Clients : /\ phase[c] # "new" => phase'[c] # "new"
                         /\ phase[c] = "left" => phase'[c] = "left"
                         /\ phase[c] # "new" => Quiet(RequestOf(c))
  <2> SUFFICES ASSUME NEW c \in Clients
               PROVE  /\ phase[c] # "new" => phase'[c] # "new"
                      /\ phase[c] = "left" => phase'[c] = "left"
                      /\ phase[c] # "new" => Quiet(RequestOf(c))
    OBVIOUS
  <2>1. CASE c = c0
    BY <1>0, <1>2, <2>1
  <2>2. CASE c # c0
    BY <1>0, <1>1, <1>2, <1>3, <2>2, Names
  <2> QED
    BY <2>1, <2>2
<1>5. \A c \in Proxied : Quiet(ForwardOf(c))
  BY <1>1, <1>3, Names
<1>6. ASSUME NEW q \in Seq(Requests), NEW p \in ToSet(Append(q, s))
      PROVE  \/ p \in ToSet(q)
             \/ \E c \in Clients : p = RequestOf(c) /\ phase[c] = "new" /\ kernel'[p] = Sends(c)
  <2>1. p \in ToSet(q) \/ p = s
    BY <1>1, <1>6, AppendedTo
  <2> QED
    BY <1>1, <1>2, <1>3, <2>1
<1>7. /\ tinyQueue' = tinyQueue \/ tinyQueue' = Append(tinyQueue, s)
      /\ proxyQueue' = proxyQueue \/ proxyQueue' = Append(proxyQueue, s)
  BY <1>1 DEF Send
<1>8. Arriving(tinyQueue)
  <2>1. CASE tinyQueue' = tinyQueue
    BY <2>1 DEF Arriving
  <2>2. CASE tinyQueue' = Append(tinyQueue, s)
    BY <1>0, <1>6, <2>2 DEF Arriving
  <2> QED
    BY <1>7, <2>1, <2>2
<1>9. Arriving(proxyQueue)
  <2>1. CASE proxyQueue' = proxyQueue
    BY <2>1 DEF Arriving
  <2>2. CASE proxyQueue' = Append(proxyQueue, s)
    BY <1>0, <1>6, <2>2 DEF Arriving
  <2> QED
    BY <1>7, <2>1, <2>2
<1> QED
  BY <1>2, <1>4, <1>5, <1>8, <1>9 DEF ClientTouches

\* A client leaves.
LEMMA LeaveTouches ==
    ASSUME ControlInv, NEW c0 \in Clients, Leave(c0)
    PROVE  ClientTouches
<1>0. RioInv /\ phase \in [Clients -> {"new", "sent", "left"}]
  BY DEF ControlInv, TypeInv
<1>1. PICK s \in Streams : s = RequestOf(c0)
  BY Names
<1>2. PICK end : end \in {"closed", "reset"} /\ peer' = [peer EXCEPT ![s] = end]
  BY <1>1 DEF Leave
<1>3. /\ peer[s] = "open" /\ kernel' = kernel /\ rio' = rio /\ over' = over /\ tiny' = tiny
      /\ proxy' = proxy /\ asked' = asked /\ script' = script
      /\ tinyQueue' = tinyQueue /\ proxyQueue' = proxyQueue /\ phase' = [phase EXCEPT ![c0] = "left"]
  BY <1>1 DEF Leave, connVars, tinyVars, proxyVars
<1>4. Closing(s) /\ \A p \in Streams : p # s => Quiet(p)
  BY <1>0, <1>1, <1>2, <1>3 DEF RioInv, Quiet, Closing, Peer
<1>5. \A c \in Clients : /\ phase[c] # "new" => phase'[c] # "new"
                         /\ phase[c] = "left" => phase'[c] = "left"
                         /\ Quiet(RequestOf(c)) \/ Closing(RequestOf(c))
  <2> SUFFICES ASSUME NEW c \in Clients
               PROVE  /\ phase[c] # "new" => phase'[c] # "new"
                      /\ phase[c] = "left" => phase'[c] = "left"
                      /\ Quiet(RequestOf(c)) \/ Closing(RequestOf(c))
    OBVIOUS
  <2>1. CASE c = c0
    BY <1>0, <1>1, <1>3, <1>4, <2>1
  <2>2. CASE c # c0
    BY <1>0, <1>1, <1>3, <1>4, <2>2, Names
  <2> QED
    BY <2>1, <2>2
<1>6. \A c \in Proxied : Quiet(ForwardOf(c))
  BY <1>1, <1>4, Names
<1> QED
  BY <1>3, <1>5, <1>6 DEF ClientTouches, Arriving

\* Nothing happens.
LEMMA StutterTouches ==
    ASSUME UNCHANGED vars
    PROVE  ClientTouches
  BY DEF vars, rioVars, connVars, tinyVars, proxyVars, clientVars, ClientTouches, Arriving, Quiet

\* A first call is not disturbed by clients.
LEMMA ClientFirst ==
    ASSUME ControlInv, FirstInv, ClientTouches
    PROVE  FirstInv'
<1>0. /\ proxy' = proxy /\ tiny' = tiny /\ rio' = rio /\ asked' = asked /\ script' = script
      /\ \A c : Sends(c)' = Sends(c)
      /\ RioInv
  BY DEF ClientTouches, Sends, Lines, ControlInv
<1>1. ASSUME NEW c \in Clients,
             \/ RequestOf(c) \in ToSet(tinyQueue) \cup ToSet(proxyQueue)
             \/ TinyAt(RequestOf(c)) \/ ProxyAt(c)
      PROVE  Quiet(RequestOf(c)) \/ Closing(RequestOf(c))
  BY <1>1 DEF ControlInv, NewInv, ClientTouches
<1>2. ASSUME NEW c \in Clients, NEW q, q \in {tinyQueue, proxyQueue}, RequestOf(c) \in ToSet(q)
      PROVE  kernel'[RequestOf(c)] = kernel[RequestOf(c)]
  BY <1>1, <1>2 DEF Quiet, Closing
<1>3. ASSUME TinyUp, NEW c \in Direct, RequestOf(c) \in ToSet(tinyQueue')
      PROVE  kernel'[RequestOf(c)] = Sends(c)
  <2>1. CASE RequestOf(c) \in ToSet(tinyQueue)
    BY <1>2, <1>3, <2>1, Names DEF FirstInv
  <2>2. CASE \E d \in Clients : /\ RequestOf(c) = RequestOf(d) /\ phase[d] = "new"
                                /\ kernel'[RequestOf(c)] = Sends(d)
    BY <2>2, Names
  <2> QED
    BY <1>3, <2>1, <2>2 DEF ClientTouches, Arriving
<1>4. ASSUME ProxyUp, NEW c \in Proxied, RequestOf(c) \in ToSet(proxyQueue')
      PROVE  kernel'[RequestOf(c)] = Sends(c)
  <2>1. CASE RequestOf(c) \in ToSet(proxyQueue)
    BY <1>2, <1>4, <2>1, Names DEF FirstInv
  <2>2. CASE \E d \in Clients : /\ RequestOf(c) = RequestOf(d) /\ phase[d] = "new"
                                /\ kernel'[RequestOf(c)] = Sends(d)
    BY <2>2, Names
  <2> QED
    BY <1>4, <2>1, <2>2 DEF ClientTouches, Arriving
<1>5. ASSUME NEW s \in Streams, NEW bytes, OnFirstCall(s, bytes), Quiet(s) \/ Closing(s)
      PROVE  FirstCall(rio'[s], kernel'[s], peer'[s], bytes)
  BY <1>0, <1>5, FirstCallKept
<1>6. ASSUME NEW c \in Direct, tiny.pc = "requestline", tiny.s = RequestOf(c)
      PROVE  FirstCall(rio'[tiny.s], kernel'[tiny.s], peer'[tiny.s], Sends(c))
  <2>1. c \in Clients /\ tiny.s \in Streams
    BY <1>6, Names
  <2>2. Quiet(tiny.s) \/ Closing(tiny.s)
    BY <1>1, <1>6, <2>1 DEF TinyAt
  <2> QED
    BY <1>5, <1>6, <2>1, <2>2 DEF FirstInv
<1>7. ASSUME proxy.pc = "requestline"
      PROVE  FirstCall(rio'[Here], kernel'[Here], peer'[Here], Sends(proxy.c))
  <2>1. proxy.c \in Clients /\ Here \in Streams
    BY <1>7, Names DEF Here, ControlInv, ServingInv
  <2>2. Quiet(Here) \/ Closing(Here)
    BY <1>1, <1>7, <2>1 DEF ProxyAt, Here
  <2> QED
    BY <1>5, <1>7, <2>1, <2>2 DEF FirstInv
<1>8. ASSUME TinyUp, ProxyUp, NEW c \in Proxied
      PROVE  /\ ForwardOf(c) \in ToSet(tinyQueue') => kernel'[ForwardOf(c)] = asked[c]
             /\ tiny.pc = "requestline" /\ tiny.s = ForwardOf(c) =>
                  FirstCall(rio'[tiny.s], kernel'[tiny.s], peer'[tiny.s], asked[c])
  <2>1. ForwardOf(c) \in ToSet(tinyQueue') => ForwardOf(c) \in ToSet(tinyQueue)
    BY <1>8, Names DEF ClientTouches, Arriving
  <2>2. Quiet(ForwardOf(c)) /\ ForwardOf(c) \in Streams
    BY <1>8, Names DEF ClientTouches
  <2> QED
    BY <1>8, <2>1, <2>2 DEF FirstInv, Quiet, OnFirstCall
<1> QED
  BY <1>0, <1>3, <1>4, <1>6, <1>7, <1>8 DEF FirstInv, TinyUp, ProxyUp, OnFirstCall, Here

\* Nor is anything else that leads to a failure.
LEMMA ClientKeeps ==
    ASSUME ControlInv, TextInv, EmptyInv, HostInv, FaultsContained, ClientTouches
    PROVE  TextInv' /\ EmptyInv' /\ HostInv' /\ FaultsContained'
<1>0. /\ proxy' = proxy /\ tiny' = tiny /\ rio' = rio /\ over' = over /\ asked' = asked /\ script' = script
      /\ Here' = Here
  BY DEF ClientTouches, Here
<1>1. ReasonsStay
  BY Reasons DEF ClientTouches
<1>2. Proxied \in SUBSET Clients /\ Direct \in SUBSET Clients
  BY Names
<1>3. FaultsContained'
  BY <1>0, <1>1, <1>2, FaultsAre, FaultsWillBe DEF ReasonsStay
<1>4. EmptyInv'
  BY <1>0, <1>1 DEF EmptyInv, ReasonsStay, ProxyUp
<1>5. \A c \in Proxied : Gets(c) \subseteq Gets(c)'
  BY <1>1, <1>2 DEF ReasonsStay
<1>6. \A part : /\ FromStart(part) => FromStart(part)'
                /\ \A c \in Proxied : NameKnown(c, part) => NameKnown(c, part)'
  BY <1>0, <1>5 DEF NameKnown, FromStart
<1>7. HostInv'
  <2>1. CASE SomeoneLeft(Proxied)
    BY <1>1, <1>2, <2>1, HostAfter DEF ReasonsStay
  <2>2. CASE ~SomeoneLeft(Proxied)
    BY <1>0, <1>1, <1>6, <2>2 DEF HostInv, ReasonsStay, HeadersNext
  <2> QED
    BY <2>1, <2>2
<1>8. TextInv'
  <2>1. HeadersNext' => HeadersNext
    BY <1>0 DEF HeadersNext
  <2>2. HeadersNext \/ proxy.pc \in {"connect", "send"} => proxy.c \in Proxied /\ ProxyAt(proxy.c)
    BY DEF HeadersNext, ControlInv, ServingInv, ProxyAt
  <2>3. HeadersNext \/ proxy.pc \in {"connect", "send"} => (IsAsked => IsAsked')
    BY <1>0, <1>5, <2>2 DEF IsAsked
  <2>4. HeadersNext /\ Lost => Lost'
    <3> SUFFICES ASSUME HeadersNext, Lost PROVE Lost'
      OBVIOUS
    <3>1. Quiet(Here) \/ Closing(Here)
      BY <2>2, <1>2, Names DEF ControlInv, NewInv, ClientTouches, Here
    <3>2. peer[Here] = "noticed"
      BY DEF Lost, Hit
    <3>3. Quiet(Here)
      BY <3>1, <3>2 DEF Closing
    <3> QED
      BY <1>0, <3>3 DEF Lost, Quiet
  <2>5. \A c \in Proxied : asked[c] # <<>> => \E r \in Gets(c)' : asked[c][1] = r.file
    BY <1>5 DEF TextInv
  <2> QED
    BY <1>0, <2>1, <2>3, <2>4, <2>5 DEF TextInv
<1> QED
  BY <1>3, <1>4, <1>7, <1>8

\* The first state.
LEMMA InitFault == Init => FaultInv
<1> SUFFICES ASSUME Init PROVE FaultInv
  OBVIOUS
<1>0. PICK start \in AtStart : proxy = [NotRequested EXCEPT !.at = start]
  BY DEF Init, ProxyInit
<1>1. /\ tiny.pc = "accept" /\ tiny.then = "none" /\ proxy.pc = "accept" /\ proxy.at = start
      /\ tinyQueue = <<>> /\ proxyQueue = <<>> /\ asked = [c \in Proxied |-> <<>>]
  BY <1>0, NotRequestedParts DEF Init, TinyInit, ProxyInit, NotServing
<1>2. ControlInv
  BY InitControl
<1>3. ToSet(tinyQueue) = {} /\ ToSet(proxyQueue) = {}
  BY <1>1 DEF ToSet
<1>4. FirstInv
  BY <1>1, <1>3 DEF FirstInv
<1>5. TextInv
  BY <1>1 DEF TextInv, HeadersNext
<1>6. \A part \in {"host", "port"} : FromStart(part)
  <2>1. start \in ProxyAddress
    BY RequestPathAssumption, Strings
  <2>2. \A part \in {"host", "port"} : Len(start[part]) \in Nat
    BY <2>1 DEF ProxyAddress
  <2> QED
    BY <1>1, <2>2 DEF FromStart
<1>7. EmptyInv /\ HostInv /\ FaultsContained
  BY <1>1, <1>6 DEF EmptyInv, HostInv, HeadersNext, FaultsContained
<1> QED
  BY <1>2, <1>4, <1>5, <1>7 DEF FaultInv

\* Every step keeps the whole.
LEMMA StepFault ==
    ASSUME FaultInv, [Next]_vars
    PROVE  FaultInv'
<1>1. ControlInv'
  BY StepControl, StutterControl DEF FaultInv
<1>2. CASE TinyStep /\ UNCHANGED <<proxyVars, clientVars>>
  BY <1>1, <1>2, TinyFrame, TinyFirst, TinyText, TinyEmpty, TinyFault DEF FaultInv
<1>3. CASE ProxyStep
  BY <1>1, <1>3, ProxyFrame, ProxyFirst, ProxyEmpty, ProxyFault DEF FaultInv, ProxyDoes
<1>4. CASE ClientTouches
  BY <1>1, <1>4, ClientFirst, ClientKeeps DEF FaultInv
<1> QED
  BY <1>2, <1>3, <1>4, SendTouches, LeaveTouches, StutterTouches DEF Next, FaultInv

\* FaultsContained: tiny ends only with a client of its own that left, an empty
\* file, or the proxy; the proxy ends only with a client that left before it was
\* answered, a URL that parse_uri cannot take apart, an address that is not tiny's
\* or is spoilt, or tiny.
THEOREM FaultsAreContained == FairSpec => []FaultsContained
<1>1. FairSpec => Init /\ [][Next]_vars
  BY PTL DEF FairSpec
<1>2. FaultInv => FaultsContained
  BY DEF FaultInv
<1> QED
  BY <1>1, <1>2, InitFault, StepFault, PTL
=============================================================================
