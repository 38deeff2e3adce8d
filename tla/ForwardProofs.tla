---------------------------- MODULE ForwardProofs ----------------------------
(***************************************************************************)
(* What tiny answers reaches the clients of the proxy, and what it is      *)
(* asked is what they have sent (RequestPath: ReplyRelayed and             *)
(* RequestForwarded), for every script, every number of clients and every  *)
(* size of the buffers.                                                    *)
(*                                                                         *)
(* The proxy relays a reply block by block, and most of the first proof is *)
(* about why no block is missing: tiny must not leave a request unread, or *)
(* the kernel would end its connection with a RST and drop what the proxy  *)
(* has not read.  That tiny reads it all is a fact about the lines that the *)
(* proxy forwards and about those who read them, so ForwardInv follows a   *)
(* request from the line on which the proxy was called to the empty line   *)
(* that tiny waits for, and the reply from there back to the client.       *)
(*                                                                         *)
(* The second proof compares what the proxy has kept with what its client  *)
(* has said: PlaceInv says where, in the lines of the script, a call of Rio *)
(* begins.                                                                 *)
(***************************************************************************)
EXTENDS RequestPathProofs

-----------------------------------------------------------------------------
\* What the client is told (ReplyRelayed).  The proxy and tiny read the same
\* lines, because what the one forwards are whole lines as Rio_readlineb
\* returned them: the other cannot take an earlier one for the end of the
\* headers, so it reads all, and closes the connection with a FIN and not a RST,
\* which might cost the proxy the last block of the reply.

\* What a call of Rio_readlineb returns when nothing goes wrong.
IsLine(x) ==
    /\ x # <<>> /\ Len(x) < MAXLINE
    /\ \A p \in 1..Len(x) - 1 : x[p] # NewLine
    /\ Len(x) = MAXLINE - 1 \/ x[Len(x)] = NewLine

\* b is made of lines that end at the places in D, none of which ends the headers.
CutAt(b, D) ==
    /\ D \subseteq 0..Len(b) /\ 0 \in D /\ Len(b) \in D
    /\ \A d \in D : d # Len(b) =>
         \E e \in D : d < e /\ IsLine(SubSeq(b, d + 1, e)) /\ SubSeq(b, d + 1, e) # CRLF
InPieces(b) == \E D \in SUBSET (0..Len(b)) : CutAt(b, D)

\* A request from its first line to the end of its headers, and no further.
Body(b) == SubSeq(b, 1, Len(b) - 2)
IsWhole(b) == Len(b) > 1 /\ b = Body(b) \o CRLF /\ InPieces(Body(b))

Present(c) == phase[c] # "left"

\* What is left of a stream from the beginning of the call, or of its result.
Rest(s) == rio[s].got \o rio[s].buf \o kernel[s]
HasLine(r) == r.rc > 0 /\ IsLine(r.got)

\* The lines that the proxy takes over, and what it asks for.
TakenInv ==
    /\ proxy.pc \in {"requestline", "headers"} /\ Present(proxy.c) /\ ~rio[Here].calling =>
         HasLine(rio[Here])
    /\ proxy.pc = "headers" /\ Present(proxy.c) => InPieces(proxy.request)
    /\ proxy.pc \in {"connect", "send"} /\ Present(proxy.c) => IsWhole(proxy.request)
    /\ \A c \in Proxied : asked[c] # <<>> /\ Present(c) => IsWhole(asked[c])

\* The response of tiny is on its way through the proxy.
Relaying(c) == proxy.c = c /\ (proxy.pc = "relay" \/ (proxy.pc = "write" /\ proxy.then = "relay"))

\* Where tiny is when it reads what the proxy forwards.
AtLine(s, b) ==
    \E D \in SUBSET (0..Len(Body(b))) :
        /\ CutAt(Body(b), D)
        /\ \E d \in D : Rest(s) = SubSeq(b, d + 1, Len(b))

TinyReadsInv ==
    TinyUp => \A c \in Proxied :
        Relaying(c) /\ Present(c) /\ TinyAt(ForwardOf(c)) =>
            LET s == ForwardOf(c) IN
            /\ tiny.pc \in {"requestline", "headers"} => AtLine(s, asked[c])
            /\ tiny.pc \in {"requestline", "headers"} /\ ~rio[s].calling => HasLine(rio[s])
            /\ tiny.pc \in {"write", "wait"} => kernel[s] = <<>>

\* tiny is done with a connection that the proxy has closed, and has not begun
\* with one over which nothing was asked.
DoneInv ==
    /\ \A c \in Proxied : over[RequestOf(c)] = "served" \/ (asked[c] = <<>> /\ ~Connected(c)) =>
         (TinyUp => ForwardOf(c) \notin ToSet(tinyQueue) /\ ~TinyAt(ForwardOf(c)))
    /\ \A c \in Proxied : asked[c] = <<>> =>
         sent[ForwardOf(c)] = <<>> /\ kernel[ReplyOf(c)] = <<>> /\ rio[ReplyOf(c)].buf = <<>>
    /\ \A c \in Proxied : Relaying(c) => asked[c] # <<>>
    /\ proxy.pc = "relay" /\ ~rio[ReplyOf(proxy.c)].calling /\ rio[ReplyOf(proxy.c)].rc <= 0 =>
         /\ peer[ReplyOf(proxy.c)] # "open" /\ kernel[ReplyOf(proxy.c)] = <<>>
         /\ rio[ReplyOf(proxy.c)].got = <<>> /\ rio[ReplyOf(proxy.c)].buf = <<>>

\* The proxy gives up only a client that left, once it has asked tiny.
DroppedInv == \A c \in Proxied : asked[c] # <<>> /\ over[RequestOf(c)] = "dropped" => ~Present(c)

\* tiny resets a connection only when it goes down.
ResetInv ==
    /\ TinyUp => \A c \in Proxied : over[ForwardOf(c)] # "dropped"
    /\ \A c \in Proxied : Relaying(c) /\ Present(c) /\ peer[ReplyOf(c)] = "reset" => over[ForwardOf(c)] = "dropped"

\* What the client is told before the response of tiny.
Own(r) == FlattenSeq(modify_http_version(r))
OwnInv ==
    /\ \A c \in Proxied : over[RequestOf(c)] = "no" /\ ~(ProxyAt(c) /\ proxy.pc # "requestline") =>
         sent[RequestOf(c)] = <<>>
    /\ proxy.pc # "accept" /\ Present(proxy.c) =>
        /\ proxy.pc = "write" /\ proxy.then = "headers" =>
             sent[Here] \o FlattenSeq(proxy.out) = Own(RequestLines[proxy.text])
        /\ proxy.pc \in {"headers", "connect", "send"} => sent[Here] = Own(RequestLines[proxy.text])

\* What the proxy has in hand of the response.
InHand(c) ==
    IF Relaying(c)
    THEN (IF proxy.pc = "relay" THEN rio[ReplyOf(c)].got ELSE FlattenSeq(proxy.out))
         \o rio[ReplyOf(c)].buf \o kernel[ReplyOf(c)]
    ELSE <<>>

\* The client has a beginning of it; the rest is in hand, but for what a reset
\* has cost.
RelayInv ==
    \A c \in Proxied : asked[c] # <<>> /\ Present(c) =>
        \E r \in Gets(c) : \E x, y \in Seq(Byte) :
            /\ sent[RequestOf(c)] = Own(r) \o x
            /\ sent[ForwardOf(c)] = x \o InHand(c) \o y
            /\ y = <<>> \/ over[ForwardOf(c)] = "dropped"

ForwardInv == TakenInv /\ TinyReadsInv /\ DoneInv /\ DroppedInv /\ ResetInv /\ OwnInv /\ RelayInv
-----------------------------------------------------------------------------
\* Lines, and how a sequence is cut into them.
LEMMA PieceIsLine ==
    ASSUME NEW s \in Requests, NEW got \in Seq(Byte), Piece(s, got)
    PROVE  IsLine(got)
<1>1. s \in LineStreams /\ Full(s) = MAXLINE - 1 /\ MAXLINE \in Nat /\ Len(got) \in Nat
  BY RequestPathAssumption, RioAssumption DEF Full
<1> QED
  BY <1>1 DEF Piece, IsLine, Complete, Last

\* The empty line is one.
LEMMA CRLFIsLine == CRLF \in Seq(Byte) /\ Len(CRLF) = 2 /\ IsLine(CRLF) /\ CRLF[1] = "cr" /\ CRLF[2] = "lf"
<1>1. CRLF \in Seq(Byte)
  BY Strings
<1>2. Len(CRLF) = 2 /\ CRLF[1] = "cr" /\ CRLF[2] = "lf" /\ CRLF # <<>>
  BY DEF CRLF
<1>3. MAXLINE \in Nat /\ MAXLINE > 2
  BY RequestPathAssumption, RioAssumption
<1>4. "cr" # "lf"
  OBVIOUS
<1> HIDE DEF CRLF
<1> QED
  BY <1>1, <1>2, <1>3, <1>4 DEF IsLine, NewLine

\* No line is the beginning of another one.
LEMMA LineIsShortest ==
    ASSUME NEW x \in Seq(Byte), NEW y \in Seq(Byte), NEW b \in Seq(Byte), IsLine(x), IsLine(y),
           Len(x) <= Len(b), Len(y) <= Len(b),
           \A i \in 1..Len(x) : x[i] = b[i], \A i \in 1..Len(y) : y[i] = b[i]
    PROVE  Len(x) >= Len(y)
<1> SUFFICES ASSUME Len(x) < Len(y) PROVE FALSE
  OBVIOUS
<1>1. Len(x) \in Nat /\ Len(y) \in Nat /\ Len(x) > 0 /\ MAXLINE \in Nat
  BY RioAssumption DEF IsLine
<1>2. Len(x) \in 1..Len(y)-1 /\ Len(x) \in 1..Len(x) /\ Len(x) \in 1..Len(y)
  BY <1>1
<1>3. x[Len(x)] = y[Len(x)]
  BY <1>2
<1>4. y[Len(x)] # NewLine
  BY <1>2 DEF IsLine
<1>5. Len(x) = MAXLINE - 1 /\ Len(y) < MAXLINE
  BY <1>3, <1>4 DEF IsLine
<1> QED
  BY <1>1, <1>5

\* So what a sequence begins with is one line at most.
LEMMA LineUnique ==
    ASSUME NEW x \in Seq(Byte), NEW y \in Seq(Byte), NEW u \in Seq(Byte), NEW v \in Seq(Byte),
           x \o u = y \o v, IsLine(x), IsLine(y)
    PROVE  x = y /\ u = v
<1>0. PICK b : b = x \o u /\ b = y \o v
  OBVIOUS
<1>1. b \in Seq(Byte) /\ Len(b) = Len(x) + Len(u) /\ Len(b) = Len(y) + Len(v)
      /\ Len(x) \in Nat /\ Len(y) \in Nat /\ Len(u) \in Nat /\ Len(v) \in Nat
  BY <1>0, ConcatProperties
<1>2. \A i \in 1..Len(x) : x[i] = b[i]
  BY <1>0, ConcatProperties
<1>3. \A i \in 1..Len(y) : y[i] = b[i]
  BY <1>0, ConcatProperties
<1>4. SubSeq(b, 1, Len(x)) = x /\ SubSeq(b, Len(x) + 1, Len(b)) = u
  BY <1>0, SplitAt
<1>5. SubSeq(b, 1, Len(y)) = y /\ SubSeq(b, Len(y) + 1, Len(b)) = v
  BY <1>0, SplitAt
<1>6. Len(x) >= Len(y) /\ Len(y) >= Len(x)
  <2>1. Len(x) <= Len(b) /\ Len(y) <= Len(b)
    BY <1>1
  <2>2. Len(x) >= Len(y)
    BY <2>1, <1>1, <1>2, <1>3, LineIsShortest, Zenon
  <2>3. Len(y) >= Len(x)
    BY <2>1, <1>1, <1>2, <1>3, LineIsShortest, Zenon
  <2> QED
    BY <2>2, <2>3
<1>7. Len(x) = Len(y)
  BY <1>1, <1>6
<1> QED
  BY <1>4, <1>5, <1>7

\* A line may be added.
LEMMA CutAppend ==
    ASSUME NEW b \in Seq(Byte), InPieces(b), NEW x \in Seq(Byte), IsLine(x), x # CRLF
    PROVE  b \o x \in Seq(Byte) /\ InPieces(b \o x)
<1>1. PICK D \in SUBSET (0..Len(b)) : CutAt(b, D)
  BY DEF InPieces
<1>2. PICK w \in Seq(Byte) : w = b \o x
  BY ConcatProperties
<1>3. Len(w) = Len(b) + Len(x) /\ Len(b) \in Nat /\ Len(x) \in Nat /\ Len(x) > 0 /\ Len(w) \in Nat
  BY <1>2, ConcatProperties DEF IsLine
<1>4. SubSeq(w, 1, Len(b)) = b /\ SubSeq(w, Len(b) + 1, Len(w)) = x
  BY <1>2, SplitAt
<1>5. \A d, e \in 0..Len(b) : SubSeq(w, d + 1, e) = SubSeq(b, d + 1, e)
  <2> SUFFICES ASSUME NEW d \in 0..Len(b), NEW e \in 0..Len(b)
               PROVE  SubSeq(w, d + 1, e) = SubSeq(b, d + 1, e)
    OBVIOUS
  <2>1. \A i \in 1..Len(b) : w[i] = b[i]
    BY <1>2, ConcatProperties
  <2> QED
    BY <2>1, <1>3
<1> DEFINE E == D \cup {Len(w)}
<1>6. E \in SUBSET (0..Len(w)) /\ 0 \in E /\ Len(w) \in E
  <2>1. 0 \in D /\ D \subseteq 0..Len(b)
    BY <1>1 DEF CutAt
  <2>2. 0..Len(b) \subseteq 0..Len(w) /\ Len(w) \in 0..Len(w)
    BY <1>3
  <2> QED
    BY <2>1, <2>2, Zenon
<1>7. ASSUME NEW d \in E, d # Len(w)
      PROVE \E e \in E : d < e /\ IsLine(SubSeq(w, d + 1, e)) /\ SubSeq(w, d + 1, e) # CRLF
  <2>1. CASE d = Len(b)
    <3>1. Len(w) \in E /\ d < Len(w)
      BY <2>1, <1>3
    <3>2. SubSeq(w, d + 1, Len(w)) = x
      BY <2>1, <1>4
    <3> HIDE DEF E
    <3> QED
      BY <3>1, <3>2
  <2>2. CASE d # Len(b)
    <3>1. PICK e \in D : d < e /\ IsLine(SubSeq(b, d + 1, e)) /\ SubSeq(b, d + 1, e) # CRLF
      BY <2>2, <1>1, <1>7 DEF CutAt
    <3>2. d \in 0..Len(b) /\ e \in 0..Len(b)
      BY <1>7, <1>1, <3>1
    <3> QED
      BY <3>1, <3>2, <1>5
  <2> QED
    BY <2>1, <2>2
<1>8. CutAt(w, E)
  <2> HIDE DEF E
  <2> QED
    BY <1>6, <1>7 DEF CutAt
<1> QED
  BY <1>2, <1>6, <1>8 DEF InPieces

\* Nothing at all is cut already.
LEMMA NothingCut == <<>> \in Seq(Byte) /\ InPieces(<<>>)
<1>0. <<>> \in Seq(Byte)
  OBVIOUS
<1>1. PICK b \in Seq(Byte) : b = <<>>
  BY <1>0, Zenon
<1>2. Len(b) = 0
  BY <1>1
<1>3. CutAt(b, {0}) /\ {0} \in SUBSET (0..Len(b))
  BY <1>2 DEF CutAt
<1> QED
  BY <1>1, <1>3 DEF InPieces

\* Three bytes, put together from two sequences.
LEMMA TwoAnd ==
    ASSUME NEW u \in Seq(Byte), NEW v \in Seq(Byte), Len(u) + Len(v) = 3
    PROVE  /\ Len(u \o v) = 3
           /\ Len(u) = 1 => (u \o v)[1] = u[1] /\ (u \o v)[2] = v[1] /\ (u \o v)[3] = v[2]
           /\ Len(u) = 2 => (u \o v)[1] = u[1] /\ (u \o v)[2] = u[2] /\ (u \o v)[3] = v[1]
<1>1. Len(u) \in Nat /\ Len(v) \in Nat
  OBVIOUS
<1>2. PICK w : w = u \o v
  OBVIOUS
<1>3. Len(w) = 3 /\ \A i \in 1..3 : w[i] = IF i <= Len(u) THEN u[i] ELSE v[i - Len(u)]
  BY <1>2, ConcatProperties
<1>4. w[1] = IF 1 <= Len(u) THEN u[1] ELSE v[1 - Len(u)]
  BY <1>3
<1>5. w[2] = IF 2 <= Len(u) THEN u[2] ELSE v[2 - Len(u)]
  BY <1>3
<1>6. w[3] = IF 3 <= Len(u) THEN u[3] ELSE v[3 - Len(u)]
  BY <1>3
<1>7. Len(u) = 1 => w[1] = u[1] /\ w[2] = v[1] /\ w[3] = v[2]
  BY <1>4, <1>5, <1>6
<1>8. Len(u) = 2 => w[1] = u[1] /\ w[2] = u[2] /\ w[3] = v[1]
  BY <1>4, <1>5, <1>6
<1> QED
  BY <1>2, <1>3, <1>7, <1>8

\* A line of one text and its end, in one piece or two.
LEMMA NameAppend ==
    ASSUME NEW b \in Seq(Byte), InPieces(b), NEW name \in Byte, name # "cr", name # "lf"
    PROVE  b \o (<<name>> \o CRLF) \in Seq(Byte) /\ InPieces(b \o (<<name>> \o CRLF))
<1>1. MAXLINE \in Nat /\ MAXLINE > 2
  BY RequestPathAssumption, RioAssumption
<1>2. PICK x \in Seq(Byte) : x = <<name>> \o CRLF
  BY Strings
<1>3. Len(x) = 3 /\ x[1] = name /\ x[2] = "cr" /\ x[3] = "lf"
  <2>0. <<name>> \in Seq(Byte)
    OBVIOUS
  <2>1. PICK u \in Seq(Byte) : u = <<name>>
    BY <2>0, Zenon
  <2>2. Len(u) = 1 /\ u[1] = name
    BY <2>1
  <2>3. x = u \o CRLF
    BY <1>2, <2>1
  <2>4. Len(CRLF) = 2 /\ CRLF[1] = "cr" /\ CRLF[2] = "lf" /\ CRLF \in Seq(Byte)
    BY CRLFIsLine
  <2>5. PICK v \in Seq(Byte) : v = CRLF
    BY <2>4, Zenon
  <2>6. Len(v) = 2 /\ v[1] = "cr" /\ v[2] = "lf" /\ x = u \o v
    BY <2>3, <2>4, <2>5, Zenon
  <2>7. Len(u) + Len(v) = 3
    BY <2>2, <2>6
  <2>8. /\ Len(u \o v) = 3
        /\ Len(u) = 1 => (u \o v)[1] = u[1] /\ (u \o v)[2] = v[1] /\ (u \o v)[3] = v[2]
    BY <2>7, TwoAnd, Zenon
  <2> QED
    BY <2>2, <2>6, <2>8, Zenon
<1>4. CASE MAXLINE > 3
  <2>1. IsLine(x) /\ x # CRLF
    <3>1. \A p \in 1..2 : x[p] # "lf"
      <4>1. "cr" # "lf"
        OBVIOUS
      <4> QED
        BY <1>3, <4>1
    <3> QED
      BY <1>1, <1>3, <1>4, <3>1, CRLFIsLine DEF IsLine, NewLine
  <2> QED
    BY <1>2, <2>1, CutAppend
<1>5. CASE MAXLINE = 3
  <2>0. {"cr", "lf"} \subseteq Byte
    BY DEF Byte
  <2>0a. \A a1 \in Byte : <<a1>> \in Seq(Byte)
    OBVIOUS
  <2>0c. \A S, a1, a2 : a1 \in S /\ a2 \in S => <<a1, a2>> \in Seq(S)
    OBVIOUS
  <2>0b. <<name, "cr">> \in Seq(Byte) /\ <<"lf">> \in Seq(Byte)
    <3>1. "cr" \in Byte /\ "lf" \in Byte
      BY <2>0
    <3> QED
      BY <3>1, <2>0a, <2>0c, Zenon
  <2>1. PICK y \in Seq(Byte) : y = <<name, "cr">>
    BY <2>0b, Zenon
  <2>2. PICK z \in Seq(Byte) : z = <<"lf">>
    BY <2>0b, Zenon
  <2>3. Len(y) = 2 /\ y[1] = name /\ y[2] = "cr" /\ Len(z) = 1 /\ z[1] = "lf" /\ y # <<>> /\ z # <<>>
    BY <2>1, <2>2
  <2>4. x = y \o z
    <3>1. PICK w \in Seq(Byte) : w = y \o z
      BY ConcatProperties
    <3>2. Len(w) = 3 /\ w[1] = name /\ w[2] = "cr" /\ w[3] = "lf"
      <4>1. Len(y) + Len(z) = 3
        BY <2>3
      <4>2. /\ Len(y \o z) = 3
            /\ Len(y) = 2 => (y \o z)[1] = y[1] /\ (y \o z)[2] = y[2] /\ (y \o z)[3] = z[1]
        BY <4>1, TwoAnd, Zenon
      <4> QED
        BY <3>1, <2>3, <4>2, Zenon
    <3>3. \A i \in 1..Len(x) : x[i] = w[i]
      BY <1>3, <3>2
    <3>4. x = w
      BY <1>3, <3>2, <3>3, SeqEqual
    <3> QED
      BY <3>1, <3>4
  <2>5. IsLine(y) /\ y # CRLF
    <3>1. y[1] # "cr"
      BY <2>3
    <3>2. \A p \in 1..1 : y[p] # "lf"
      BY <2>3
    <3> QED
      BY <1>5, <2>3, <3>1, <3>2, CRLFIsLine DEF IsLine, NewLine
  <2>6. IsLine(z) /\ z # CRLF
    BY <1>5, <2>3, CRLFIsLine DEF IsLine, NewLine
  <2>7. b \o y \in Seq(Byte) /\ InPieces(b \o y)
    BY <2>5, CutAppend
  <2>8. (b \o y) \o z \in Seq(Byte) /\ InPieces((b \o y) \o z)
    BY <2>6, <2>7, CutAppend
  <2>9. (b \o y) \o z = b \o x
    BY <2>4, ConcatAssociative
  <2> QED
    BY <1>2, <2>8, <2>9
<1> QED
  BY <1>1, <1>4, <1>5

\* What is put together sequence by sequence is what is flattened.
LEMMA FlattenIs ==
    ASSUME NEW q \in Seq(Seq(Byte)), NEW n \in Nat, n = Len(q), n # 0, NEW g, g[1] = q[1],
           \A k \in 1..n-1 : g[k+1] = g[k] \o q[k+1]
    PROVE  FlattenSeq(q) = g[n]
<1>1. PICK f \in [1..Len(q) -> Seq(Byte)] :
           /\ f[1] = q[1]
           /\ \A k \in 1..Len(q)-1 : f[k+1] = f[k] \o q[k+1]
           /\ FlattenSeq(q) = f[Len(q)]
  BY FlattenUpTo, Zenon
<1> DEFINE T == {k \in Nat : k # 0 => f[k] = g[k]}
<1>2. 0 \in T
  OBVIOUS
<1>3. \A k \in 0..n-1 : k \in T => k + 1 \in T
  <2> SUFFICES ASSUME NEW k \in 0..n-1, k \in T PROVE k + 1 \in T
    OBVIOUS
  <2>1. CASE k = 0
    <3>1. f[k+1] = g[k+1] /\ k + 1 \in Nat
      BY <2>1, <1>1
    <3> QED
      BY <3>1
  <2>2. CASE k # 0
    <3>1. k \in 1..n-1 /\ k + 1 \in Nat /\ f[k] = g[k]
      BY <2>2
    <3>2. f[k+1] = f[k] \o q[k+1] /\ g[k+1] = g[k] \o q[k+1]
      BY <3>1, <1>1
    <3> QED
      BY <3>1, <3>2
  <2> QED
    BY <2>1, <2>2
<1>4. 0..n \subseteq T
  <2> HIDE DEF T
  <2> QED
    BY <1>2, <1>3, UpTo
<1> QED
  BY <1>1, <1>4

\* The elements of a sequence of sequences.
LEMMA FlattenNone == FlattenSeq(<<>>) = <<>>
BY DEF FlattenSeq

\* The first comes first.
LEMMA FlattenHead ==
    ASSUME NEW q \in Seq(Seq(Byte)), q # <<>>
    PROVE  /\ Head(q) \in Seq(Byte) /\ Tail(q) \in Seq(Seq(Byte))
           /\ FlattenSeq(Tail(q)) \in Seq(Byte) /\ FlattenSeq(q) = Head(q) \o FlattenSeq(Tail(q))
<1>0. Tail(q) \in Seq(Seq(Byte))
  OBVIOUS
<1>1. PICK t \in Seq(Seq(Byte)) : t = Tail(q)
  BY <1>0, Zenon
<1>2. PICK n \in Nat : n = Len(q)
  OBVIOUS
<1>3. n # 0 /\ Len(t) = n - 1 /\ Head(q) = q[1] /\ q[1] \in Seq(Byte)
  BY <1>1, <1>2
<1>4. \A k \in 1..n-1 : t[k] = q[k+1]
  BY <1>1, <1>2
<1>5. FlattenSeq(t) \in Seq(Byte)
  BY FlattenType
<1>6. FlattenSeq(q) = q[1] \o FlattenSeq(t)
  <2>1. CASE n = 1
    <3>1. t = <<>>
      BY <2>1, <1>3
    <3>2. q[1] \o FlattenSeq(t) = q[1]
      BY <3>1, <1>3, FlattenNone, ConcatEmptySeq
    <3>3. PICK g : g = [k \in {1} |-> q[1]]
      OBVIOUS
    <3>4. g[1] = q[1] /\ \A k \in 1..n-1 : g[k+1] = g[k] \o q[k+1]
      BY <2>1, <3>3
    <3>5. FlattenSeq(q) = g[n]
      BY <1>2, <1>3, <3>4, FlattenIs
    <3> QED
      BY <2>1, <3>2, <3>4, <3>5
  <2>2. CASE n # 1
    <3>1. PICK m \in Nat : m = Len(t) /\ m = n - 1 /\ m # 0
      BY <2>2, <1>3
    <3>2. PICK f \in [1..Len(t) -> Seq(Byte)] :
             /\ f[1] = t[1]
             /\ \A k \in 1..Len(t)-1 : f[k+1] = f[k] \o t[k+1]
             /\ FlattenSeq(t) = f[Len(t)]
      BY <3>1, FlattenUpTo, Zenon
    <3> DEFINE g == [k \in 1..n |-> IF k = 1 THEN q[1] ELSE q[1] \o f[k-1]]
    <3>3. g[1] = q[1]
      BY <1>3
    <3>4. \A k \in 1..n-1 : g[k+1] = q[1] \o f[k]
      <4> SUFFICES ASSUME NEW k \in 1..n-1 PROVE g[k+1] = q[1] \o f[k]
        OBVIOUS
      <4>1. k + 1 \in 1..n /\ k + 1 # 1 /\ (k + 1) - 1 = k
        OBVIOUS
      <4>2. g[k+1] = q[1] \o f[(k+1)-1]
        BY <4>1, Zenon
      <4> HIDE DEF g
      <4> QED
        BY <4>1, <4>2
    <3>5. \A k \in 1..n-1 : g[k+1] = g[k] \o q[k+1]
      <4> SUFFICES ASSUME NEW k \in 1..n-1 PROVE g[k+1] = g[k] \o q[k+1]
        OBVIOUS
      <4>1. g[k+1] = q[1] \o f[k]
        BY <3>4
      <4>2. CASE k = 1
        <5>1. f[k] = q[k+1]
          BY <4>2, <3>2, <1>4
        <5> HIDE DEF g
        <5> QED
          BY <4>1, <4>2, <5>1, <3>3
      <4>3. CASE k # 1
        <5>1. PICK j \in 1..m-1 : j + 1 = k
          BY <4>3, <3>1
        <5>2. f[k] = f[j] \o t[k] /\ t[k] = q[k+1] /\ g[k] = q[1] \o f[j]
          <6>1. f[j+1] = f[j] \o t[j+1]
            BY <5>1, <3>1, <3>2
          <6>2. g[j+1] = q[1] \o f[j]
            <7>1. j \in 1..n-1
              BY <5>1, <3>1
            <7> HIDE DEF g
            <7> QED
              BY <7>1, <3>4
          <6> HIDE DEF g
          <6> QED
            BY <5>1, <6>1, <6>2, <1>4, <3>1
        <5>3. f[j] \in Seq(Byte) /\ t[k] \in Seq(Byte)
          <6>1. j \in 1..Len(t) /\ k \in 1..Len(t)
            BY <3>1, <5>1
          <6>2. f[j] \in Seq(Byte)
            BY <6>1, <3>2
          <6>3. t[k] \in Seq(Byte)
            BY <6>1
          <6> QED
            BY <6>2, <6>3
        <5>4. (q[1] \o f[j]) \o t[k] = q[1] \o (f[j] \o t[k])
          <6> HIDE DEF g
          <6>1. PICK y \in Seq(Byte) : y = f[j]
            BY <5>3
          <6>2. PICK z \in Seq(Byte) : z = t[k]
            BY <5>3
          <6>3. PICK x \in Seq(Byte) : x = q[1]
            BY <1>3
          <6>4. (x \o y) \o z = x \o (y \o z)
            BY Associative
          <6> QED
            BY <6>1, <6>2, <6>3, <6>4
        <5> HIDE DEF g
        <5> QED
          BY <4>1, <5>2, <5>4
      <4> QED
        BY <4>2, <4>3
    <3>6. FlattenSeq(q) = g[n]
      <4> HIDE DEF g
      <4> QED
        BY <1>2, <1>3, <3>3, <3>5, FlattenIs
    <3>7. g[n] = q[1] \o f[m]
      <4>1. m \in 1..n-1 /\ m + 1 = n
        BY <3>1
      <4> HIDE DEF g
      <4> QED
        BY <4>1, <3>4
    <3> HIDE DEF g
    <3> QED
      BY <3>1, <3>2, <3>6, <3>7
  <2> QED
    BY <2>1, <2>2
<1> QED
  BY <1>1, <1>3, <1>5, <1>6

\* A sequence alone.
LEMMA FlattenOne == \A x \in Seq(Byte) : <<x>> \in Seq(Seq(Byte)) /\ FlattenSeq(<<x>>) = x
<1> SUFFICES ASSUME NEW x \in Seq(Byte) PROVE <<x>> \in Seq(Seq(Byte)) /\ FlattenSeq(<<x>>) = x
  OBVIOUS
<1>1. <<x>> \in Seq(Seq(Byte))
  OBVIOUS
<1>2. PICK q \in Seq(Seq(Byte)) : q = <<x>>
  BY <1>1, Zenon
<1>3. q # <<>> /\ Head(q) = x /\ Tail(q) = <<>>
  BY <1>2
<1>4. FlattenSeq(q) = x \o <<>>
  BY <1>3, FlattenHead, FlattenNone
<1> QED
  BY <1>1, <1>2, <1>4, ConcatEmptySeq

\* The beginnings of a sequence of sequences, one longer than the other.
LEMMA FlattenLast ==
    ASSUME NEW q \in Seq(Seq(Byte)), NEW n \in 0..Len(q)-1
    PROVE  /\ SubSeq(q, 1, n) \in Seq(Seq(Byte)) /\ SubSeq(q, 1, n+1) \in Seq(Seq(Byte))
           /\ FlattenSeq(SubSeq(q, 1, n+1)) = FlattenSeq(SubSeq(q, 1, n)) \o q[n+1]
<1>0. n \in Nat /\ Len(q) \in Nat /\ n + 1 <= Len(q) /\ q[n+1] \in Seq(Byte)
  OBVIOUS
<1>1. SubSeq(q, 1, n) \in Seq(Seq(Byte)) /\ SubSeq(q, 1, n+1) \in Seq(Seq(Byte))
  BY <1>0
<1>2. PICK a \in Seq(Seq(Byte)) : a = SubSeq(q, 1, n)
  BY <1>1
<1>3. PICK b \in Seq(Seq(Byte)) : b = SubSeq(q, 1, n+1)
  BY <1>1
<1>4. /\ Len(a) = n /\ \A k \in 1..n : a[k] = q[k]
      /\ Len(b) = n + 1 /\ \A k \in 1..n+1 : b[k] = q[k]
  BY <1>0, <1>2, <1>3
<1>5. PICK g \in [1..n+1 -> Seq(Byte)] :
         /\ g[1] = b[1]
         /\ \A k \in 1..n : g[k+1] = g[k] \o b[k+1]
         /\ FlattenSeq(b) = g[n+1]
  <2>1. Len(b) # 0 /\ Len(b) - 1 = n
    BY <1>0, <1>4
  <2>2. \E g \in [1..Len(b) -> Seq(Byte)] :
         /\ g[1] = b[1]
         /\ \A k \in 1..Len(b)-1 : g[k+1] = g[k] \o b[k+1]
         /\ FlattenSeq(b) = g[Len(b)]
    BY <2>1, FlattenUpTo, Zenon
  <2> QED
    BY <2>1, <2>2, <1>4
<1>6. FlattenSeq(b) = FlattenSeq(a) \o q[n+1]
  <2>1. CASE n = 0
    <3>1. a = <<>>
      BY <2>1, <1>4
    <3>2. FlattenSeq(b) = q[n+1]
      <4>1. FlattenSeq(b) = g[1] /\ g[1] = b[1] /\ n + 1 = 1
        BY <2>1, <1>5
      <4>2. b[1] = q[1]
        BY <2>1, <1>4
      <4> QED
        BY <4>1, <4>2
    <3> QED
      BY <3>1, <3>2, <1>0, FlattenNone, ConcatEmptySeq
  <2>2. CASE n # 0
    <3>1. g[1] = a[1] /\ n = Len(a)
      <4>1. 1 \in 1..n /\ 1 \in 1..n+1
        BY <2>2, <1>0
      <4>2. a[1] = q[1] /\ b[1] = q[1] /\ g[1] = b[1]
        BY <4>1, <1>4, <1>5
      <4> QED
        BY <4>2, <1>4
    <3>2. \A k \in 1..n-1 : g[k+1] = g[k] \o a[k+1]
      <4> SUFFICES ASSUME NEW k \in 1..n-1 PROVE g[k+1] = g[k] \o a[k+1]
        OBVIOUS
      <4>1. k \in 1..n /\ k + 1 \in 1..n /\ k + 1 \in 1..n+1
        BY <1>0
      <4> QED
        BY <4>1, <1>4, <1>5
    <3>3. FlattenSeq(a) = g[n]
      BY <2>2, <1>0, <3>1, <3>2, FlattenIs
    <3>4. g[n+1] = g[n] \o b[n+1] /\ b[n+1] = q[n+1]
      <4>1. n \in 1..n /\ n + 1 \in 1..n+1
        BY <2>2, <1>0
      <4>2. g[n+1] = g[n] \o b[n+1]
        BY <4>1, <1>5
      <4>3. b[n+1] = q[n+1]
        BY <4>1, <1>4
      <4> QED
        BY <4>2, <4>3
    <3> QED
      BY <3>3, <3>4, <1>5
  <2> QED
    BY <2>1, <2>2
<1> QED
  BY <1>1, <1>2, <1>3, <1>6

-----------------------------------------------------------------------------
\* One step of tiny.  It takes a connection from the queue,
TinyTakes ==
    /\ tiny.pc = "accept" /\ tinyQueue # <<>> /\ Head(tinyQueue) \in Requests
    /\ tiny'.pc = "requestline" /\ tiny'.s = Head(tinyQueue) /\ tinyQueue' = Tail(tinyQueue)
    /\ rio' = Called(Head(tinyQueue)) /\ UNCHANGED <<kernel, peer, connVars>>
\* writes,
TinyPuts ==
    /\ tiny.pc \in {"write", "wait"} /\ tiny'.pc = "write" /\ tiny'.s = tiny.s
    /\ \E bytes \in Seq(Byte) : \E outcome \in WriteOutcomes(tiny.s) : Written(tiny.s, bytes, outcome)
    /\ UNCHANGED <<rio, tinyQueue, over>>
\* reads,
TinyHears ==
    /\ tiny.pc \in {"requestline", "headers"} /\ Read(tiny.s)
    /\ UNCHANGED <<tinyVars, connVars>>
\* asks for another line,
TinyAsks ==
    /\ tiny.pc \in {"requestline", "headers"} /\ tiny'.pc = "headers" /\ tiny'.s = tiny.s
    /\ ~rio[tiny.s].calling /\ rio[tiny.s].rc > 0
    /\ tiny.pc = "headers" => rio[tiny.s].got # CRLF
    /\ rio' = Called(tiny.s) /\ UNCHANGED <<kernel, peer, tinyQueue, connVars>>
\* turns to something else,
TinyTurns ==
    /\ tiny'.s = tiny.s /\ UNCHANGED <<rioVars, tinyQueue, connVars>>
    /\ \/ /\ tiny.pc = "requestline" /\ ~rio[tiny.s].calling /\ tiny'.pc = "write"
          /\ \E text \in Texts(rio[tiny.s].got) : RequestLines[text].method # "GET"
       \/ /\ tiny.pc = "headers" /\ ~rio[tiny.s].calling
          /\ \/ tiny'.pc = "write" /\ (rio[tiny.s].got = CRLF \/ rio[tiny.s].rc = 0)
             \/ tiny'.pc = "headers" /\ rio[tiny.s].rc = 0
       \/ tiny.pc \in {"write", "wait"} /\ tiny'.pc \in {"write", "wait"}
\* closes the connection, or ends.
TinyLeaves ==
    /\ tiny.pc \notin {"accept", "down"} /\ ~rio[tiny.s].calling
    /\ \/ TinyCloses /\ (tiny.pc = "write" \/ (tiny.pc = "requestline" /\ rio[tiny.s].rc = 0))
       \/ TinyExits
TinyDoes == TinyTakes \/ TinyPuts \/ TinyHears \/ TinyAsks \/ TinyTurns \/ TinyLeaves

\* A step of tiny is one of these.
LEMMA TinyIs ==
    ASSUME ControlInv, TinyStep
    PROVE  TinyDoes
<1>0. /\ RioInv /\ tiny \in TinyType /\ tinyQueue \in Seq(Requests)
      /\ tiny.pc \in {"write", "wait"} => tiny.s \in Requests /\ ~rio[tiny.s].calling
  BY Servers DEF ControlInv, TypeInv, ServingInv, CallingInv
<1>1. CASE TinyAccept
  <2>1. PICK h \in Requests : h = Head(tinyQueue)
    <3>1. tinyQueue # <<>>
      BY <1>1 DEF TinyAccept
    <3> QED
      BY <1>0, <3>1
  <2>2. PICK t : t = [NotServing EXCEPT !.pc = "requestline", !.s = h]
    OBVIOUS
  <2>3. t.pc = "requestline" /\ t.s = h
    BY <2>2 DEF NotServing
  <2>4. TinyTakes
    BY <1>1, <2>1, <2>2, <2>3 DEF TinyAccept, TinyTakes
  <2> QED
    BY <2>4 DEF TinyDoes
<1>2. CASE TinyRequestLine
  <2>1. tiny.pc = "requestline" /\ ~rio[tiny.s].calling
    BY <1>2 DEF TinyRequestLine
  <2>2. CASE rio[tiny.s].rc = 0 /\ TinyCloses
    BY <2>1, <2>2 DEF TinyLeaves, TinyDoes
  <2>3. CASE TinyExits
    BY <2>1, <2>3 DEF TinyLeaves, TinyDoes
  <2>4. CASE /\ \E text \in Texts(rio[tiny.s].got) : RequestLines[text].method # "GET"
             /\ TinyGoOn([tiny EXCEPT !.pc = "write", !.out = clienterror, !.then = "close"])
    <3>1. PICK out \in Seq(Seq(Byte)) : out = clienterror
      BY TinyWrites
    <3>1a. PICK call : call = [tiny EXCEPT !.pc = "write", !.out = out, !.then = "close"]
      OBVIOUS
    <3>2. call.pc = "write" /\ call.s = tiny.s
      BY <1>0, <3>1, <3>1a, TinyFormOut DEF TinyLike
    <3>3. TinyGoOn(call)
      BY <2>4, <3>1, <3>1a
    <3>4. TinyTurns
      BY <2>1, <2>4, <3>2, <3>3 DEF TinyGoOn, TinyTurns
    <3> QED
      BY <3>4 DEF TinyDoes
  <2>5. CASE /\ rio[tiny.s].rc > 0
             /\ \E file :
                  Call(tiny.s, [tiny EXCEPT !.pc = "headers", !.first = TRUE,
                                            !.out = ReplyFor(file).out, !.then = ReplyFor(file).then])
    <3>1. PICK out \in Seq(Seq(Byte)), then \in {"none", "close", "mmap", "wait"} :
            Call(tiny.s, [tiny EXCEPT !.pc = "headers", !.first = TRUE, !.out = out, !.then = then])
      BY <2>5, TinyWrites
    <3>1a. PICK call : call = [tiny EXCEPT !.pc = "headers", !.first = TRUE, !.out = out, !.then = then]
      OBVIOUS
    <3>1b. TinyLike(call, tiny, "headers")
      BY <1>0, <3>1, <3>1a, TinyFormHeaders
    <3>2. call.pc = "headers" /\ call.s = tiny.s
      BY <3>1b DEF TinyLike
    <3>3. Call(tiny.s, call)
      BY <3>1, <3>1a
    <3>4. TinyAsks
      BY <2>1, <2>5, <3>2, <3>3 DEF Call, TinyAsks
    <3> QED
      BY <3>4 DEF TinyDoes
  <2> QED
    BY <1>2, <2>2, <2>3, <2>4, <2>5 DEF TinyRequestLine
<1>3. CASE TinyHeaders
  <2>1. tiny.pc = "headers" /\ ~rio[tiny.s].calling
    BY <1>3 DEF TinyHeaders
  <2>3. CASE TinyExits
    BY <2>1, <2>3 DEF TinyLeaves, TinyDoes
  <2>4. CASE /\ rio[tiny.s].got = CRLF \/ rio[tiny.s].rc = 0
             /\ TinyGoOn([tiny EXCEPT !.pc = "write"])
    <3>1. PICK call : call = [tiny EXCEPT !.pc = "write"]
      OBVIOUS
    <3>2. call.pc = "write" /\ call.s = tiny.s
      BY <1>0, <3>1, TinyFormPc DEF TinyLike
    <3>3. TinyGoOn(call)
      BY <2>4, <3>1
    <3>4. TinyTurns
      BY <2>1, <2>4, <3>2, <3>3 DEF TinyGoOn, TinyTurns
    <3> QED
      BY <3>4 DEF TinyDoes
  <2>5. CASE rio[tiny.s].rc = 0 /\ TinyGoOn([tiny EXCEPT !.first = FALSE])
    <3>1. PICK call : call = [tiny EXCEPT !.first = FALSE]
      OBVIOUS
    <3>2. call.pc = "headers" /\ call.s = tiny.s
      BY <1>0, <2>1, <3>1, TinyFormFirst DEF TinyLike
    <3>3. TinyGoOn(call)
      BY <2>5, <3>1
    <3>4. TinyTurns
      BY <2>1, <2>5, <3>2, <3>3 DEF TinyGoOn, TinyTurns
    <3> QED
      BY <3>4 DEF TinyDoes
  <2>6. CASE /\ rio[tiny.s].rc > 0 /\ rio[tiny.s].got # CRLF
             /\ Call(tiny.s, [tiny EXCEPT !.first = FALSE])
    <3>1. PICK call : call = [tiny EXCEPT !.first = FALSE]
      OBVIOUS
    <3>2. call.pc = "headers" /\ call.s = tiny.s
      BY <1>0, <2>1, <3>1, TinyFormFirst DEF TinyLike
    <3>3. Call(tiny.s, call)
      BY <2>6, <3>1
    <3>4. TinyAsks
      BY <2>1, <2>6, <3>2, <3>3 DEF Call, TinyAsks
    <3> QED
      BY <3>4 DEF TinyDoes
  <2> QED
    BY <1>3, <2>3, <2>4, <2>5, <2>6 DEF TinyHeaders
<1>4. CASE TinyWrite
  <2>1. tiny.pc = "write" /\ tiny.out # <<>> /\ ~rio[tiny.s].calling
    BY <1>0, <1>4 DEF TinyWrite
  <2>2. PICK outcome \in WriteOutcomes(tiny.s) :
         \/ /\ outcome[1] = "ok"
            /\ Written(tiny.s, Head(tiny.out), outcome)
            /\ tiny' = [tiny EXCEPT !.out = Tail(tiny.out)]
            /\ UNCHANGED <<rio, tinyQueue, over>>
         \/ outcome[1] # "ok" /\ TinyExits
    BY <1>4 DEF TinyWrite
  <2>3. CASE TinyExits
    BY <2>1, <2>3 DEF TinyLeaves, TinyDoes
  <2>4. CASE /\ Written(tiny.s, Head(tiny.out), outcome)
             /\ tiny' = [tiny EXCEPT !.out = Tail(tiny.out)]
             /\ UNCHANGED <<rio, tinyQueue, over>>
    <3>1. tiny.out \in Seq(Seq(Byte))
      BY <1>0 DEF TinyType
    <3>2. PICK rest \in Seq(Seq(Byte)), bytes \in Seq(Byte) :
            /\ rest = Tail(tiny.out) /\ bytes = Head(tiny.out)
      <4>1. \A q \in Seq(Seq(Byte)) : q # <<>> => Tail(q) \in Seq(Seq(Byte)) /\ Head(q) \in Seq(Byte)
        OBVIOUS
      <4>2. Tail(tiny.out) \in Seq(Seq(Byte)) /\ Head(tiny.out) \in Seq(Byte)
        BY <2>1, <3>1, <4>1
      <4> QED
        BY <4>2
    <3>2a. PICK t : t = [tiny EXCEPT !.out = rest]
      OBVIOUS
    <3>3. t.pc = "write" /\ t.s = tiny.s
      BY <1>0, <2>1, <3>2, <3>2a, TinyFormRest DEF TinyLike
    <3>4. tiny' = t /\ Written(tiny.s, bytes, outcome) /\ UNCHANGED <<rio, tinyQueue, over>>
      BY <2>4, <3>2, <3>2a
    <3>5. TinyPuts
      BY <2>1, <3>3, <3>4 DEF TinyPuts
    <3> QED
      BY <3>5 DEF TinyDoes
  <2> QED
    BY <2>2, <2>3, <2>4
<1>5. CASE TinyFinish
  <2>1. tiny.pc = "write" /\ ~rio[tiny.s].calling
    BY <1>0, <1>5 DEF TinyFinish
  <2>2. CASE TinyCloses \/ TinyExits
    BY <2>1, <2>2 DEF TinyLeaves, TinyDoes
  <2>4. CASE TinyGoOn([tiny EXCEPT !.pc = "wait"])
    <3>1. PICK call : call = [tiny EXCEPT !.pc = "wait"]
      OBVIOUS
    <3>2. call.pc = "wait" /\ call.s = tiny.s
      BY <1>0, <3>1, TinyFormPc DEF TinyLike
    <3>3. TinyGoOn(call)
      BY <2>4, <3>1
    <3>4. TinyTurns
      BY <2>1, <3>2, <3>3 DEF TinyGoOn, TinyTurns
    <3> QED
      BY <3>4 DEF TinyDoes
  <2> QED
    BY <1>5, <2>2, <2>4 DEF TinyFinish
<1>6. CASE CgiProgram
  <2>1. tiny.pc = "wait" /\ UNCHANGED <<rio, tinyQueue, over>>
    BY <1>6 DEF CgiProgram
  <2>2. PICK t : t = [tiny EXCEPT !.pc = "write", !.then = "close"]
    OBVIOUS
  <2>3. t.pc = "write" /\ t.s = tiny.s /\ tiny' = t
    BY <1>0, <1>6, <2>2, TinyFormThen DEF CgiProgram, TinyLike
  <2>4. CASE \E outcome \in WriteOutcomes(tiny.s) : Written(tiny.s, <<"sum">>, outcome)
    <3>1. <<"sum">> \in Seq(Byte)
      <4>1. "sum" \in Byte
        BY DEF Byte
      <4> QED
        BY <4>1
    <3>2. PICK bytes \in Seq(Byte) : bytes = <<"sum">>
      BY <3>1
    <3>3. PICK outcome \in WriteOutcomes(tiny.s) : Written(tiny.s, bytes, outcome)
      BY <2>4, <3>2
    <3>4. TinyPuts
      BY <2>1, <2>3, <3>3 DEF TinyPuts
    <3> QED
      BY <3>4 DEF TinyDoes
  <2>5. CASE UNCHANGED <<kernel, peer, sent>>
    <3>1. TinyTurns
      BY <2>1, <2>3, <2>5 DEF TinyTurns, rioVars, connVars
    <3> QED
      BY <3>1 DEF TinyDoes
  <2> QED
    BY <1>6, <2>4, <2>5 DEF CgiProgram
<1>7. CASE TinyHears
  BY <1>7 DEF TinyDoes
<1> QED
  BY <1>1, <1>2, <1>3, <1>4, <1>5, <1>6, <1>7 DEF TinyStep, TinyHears

\* What it does to a client of the proxy, and to the connection that the proxy
\* makes for it.
Elsewhere(c) ==
    /\ Quiet(RequestOf(c)) /\ sent'[RequestOf(c)] = sent[RequestOf(c)]
    /\ over'[RequestOf(c)] = over[RequestOf(c)] /\ rio'[ReplyOf(c)] = rio[ReplyOf(c)]
TinyWritesTo(c) ==
    /\ TinyAt(ForwardOf(c)) /\ tiny.pc \in {"write", "wait"} /\ tiny'.pc = "write"
    /\ peer'[ReplyOf(c)] = peer[ReplyOf(c)] /\ over' = over
    /\ \E bytes \in Seq(Byte) :
         /\ sent'[ForwardOf(c)] = sent[ForwardOf(c)] \o bytes
         /\ peer[ForwardOf(c)] = "open" => kernel'[ReplyOf(c)] = kernel[ReplyOf(c)] \o bytes
ReplyStays(c) == kernel'[ReplyOf(c)] = kernel[ReplyOf(c)] /\ sent'[ForwardOf(c)] = sent[ForwardOf(c)]
TinyHangsUp(c) ==
    /\ TinyAt(ForwardOf(c)) /\ over'[ForwardOf(c)] = "served" /\ tiny'.pc = "accept"
    /\ tiny.pc = "write" \/ (tiny.pc = "requestline" /\ ~rio[ForwardOf(c)].calling /\ rio[ForwardOf(c)].rc = 0)
    /\ kernel[ForwardOf(c)] = <<>> => peer'[ReplyOf(c)] # "reset" \/ peer[ReplyOf(c)] = "reset"
TinyDies(c) ==
    /\ tiny'.pc = "down"
    /\ \/ over'[ForwardOf(c)] = "dropped"
       \/ over'[ForwardOf(c)] = over[ForwardOf(c)] /\ peer'[ReplyOf(c)] = peer[ReplyOf(c)]
TinyEffect(c) ==
    /\ Elsewhere(c)
    /\ \/ TinyWritesTo(c)
       \/ ReplyStays(c) /\ over'[ForwardOf(c)] = over[ForwardOf(c)] /\ peer'[ReplyOf(c)] = peer[ReplyOf(c)]
       \/ ReplyStays(c) /\ (TinyHangsUp(c) \/ TinyDies(c))
    /\ ForwardOf(c) \in ToSet(tinyQueue') => ForwardOf(c) \in ToSet(tinyQueue)
    /\ TinyAt(ForwardOf(c))' => TinyAt(ForwardOf(c)) \/ ForwardOf(c) \in ToSet(tinyQueue)

\* Every step of tiny does only that to the streams of a client of the proxy.
LEMMA TinyEffects ==
    ASSUME ControlInv, ControlInv', TinyStep, NEW c \in Proxied
    PROVE  TinyEffect(c)
<1> DEFINE F == ForwardOf(c)
           Y == ReplyOf(c)
           R == RequestOf(c)
<1>0. /\ RioInv /\ TypeInv /\ TinyUp /\ TinyTouches /\ TinyDoes
      /\ sent \in [Requests -> Seq(Byte)] /\ over \in [Requests -> {"no", "served", "dropped"}]
      /\ tiny.pc # "accept" => tiny.s \in TinysRequests
  BY TinyFrame, TinyIs DEF ControlInv, TypeInv, ServingInv, TinyTouches
<1>1. /\ F \in Requests /\ R \in Requests /\ F \in Streams /\ R \in Streams /\ Y \in Streams /\ Y \notin Requests
      /\ R \notin TinysRequests /\ F # R /\ F # Y /\ R # Y /\ ReplyTo(F) = Y
      /\ \A s \in TinysRequests : s \in Requests /\ s \in Streams /\ s # Y /\ s # R /\ (s # F => ReplyTo(s) # Y)
  <2>1. c \in Clients
    BY Names
  <2>2. /\ F \in Requests /\ R \in Requests /\ F \in Streams /\ R \in Streams /\ Y \in Streams /\ Y \notin Requests
        /\ R \notin TinysRequests /\ F # R /\ F # Y /\ R # Y /\ ReplyTo(F) = Y
    BY <2>1, Names, Servers
  <2>3. ASSUME NEW s \in TinysRequests PROVE s \in Requests /\ s \in Streams /\ s # Y /\ s # R /\ (s # F => ReplyTo(s) # Y)
    <3>1. CASE \E d \in Direct : s = RequestOf(d)
      BY <3>1, <2>2, <2>3, Names, Servers
    <3>2. CASE \E d \in Proxied : s = ForwardOf(d)
      <4>1. PICK d \in Proxied : s = ForwardOf(d)
        BY <3>2
      <4>2. ReplyTo(s) = ReplyOf(d) /\ (s # F => ReplyOf(d) # Y)
        BY <4>1, Names
      <4> QED
        BY <4>2, <2>2, <2>3, Names, Servers
    <3> QED
      BY <3>1, <3>2, Servers
  <2> QED
    BY <2>2, <2>3
<1> HIDE DEF F, Y, R
<1>2. Quiet(R) /\ over'[R] = over[R]
  BY <1>0, TinyLeavesProxys DEF TinyTouches, R
<1>3. /\ F \in ToSet(tinyQueue') => F \in ToSet(tinyQueue)
  <2>1. tinyQueue # <<>> => ToSet(Tail(tinyQueue)) \subseteq ToSet(tinyQueue)
    BY <1>0, QueueTaken DEF ControlInv, TypeInv, TinyQueueInv
  <2> QED
    BY <1>0, <2>1 DEF TinyTouches
<1>4. CASE TinyTakes
  <2>1. rio'[Y] = rio[Y] /\ sent' = sent /\ over' = over /\ kernel' = kernel /\ peer' = peer
    BY <1>0, <1>1, <1>4 DEF TinyTakes, Called, connVars, RioInv
  <2>2. TinyAt(F)' => F \in ToSet(tinyQueue)
    <3>1. Head(tinyQueue) \in ToSet(tinyQueue)
      BY <1>0, <1>4, QueueTaken DEF ControlInv, TypeInv, TinyQueueInv, TinyTakes
    <3> QED
      BY <1>4, <3>1 DEF TinyTakes, TinyAt
  <2> QED
    BY <1>2, <1>3, <2>1, <2>2 DEF TinyEffect, Elsewhere, ReplyStays, F, Y, R
<1>5. CASE TinyPuts
  <2>1. PICK bytes \in Seq(Byte), outcome \in WriteOutcomes(tiny.s) : Written(tiny.s, bytes, outcome)
    BY <1>5 DEF TinyPuts
  <2>2. /\ tiny.s \in TinysRequests /\ rio' = rio /\ over' = over /\ tinyQueue' = tinyQueue
        /\ tiny'.s = tiny.s /\ tiny.pc # "accept" /\ tiny'.pc = "write"
    BY <1>0, <1>5 DEF TinyPuts
  <2>3. peer'[Y] = peer[Y]
    BY <1>0, <1>1, <2>1, <2>2 DEF Written, RioInv
  <2>4. sent'[R] = sent[R]
    BY <1>0, <1>1, <2>1, <2>2 DEF Written
  <2>5. TinyAt(F)' => TinyAt(F)
    BY <2>2 DEF TinyAt
  <2>6. Elsewhere(c)
    BY <1>2, <2>2, <2>4 DEF Elsewhere, R
  <2>7. CASE tiny.s # F \/ outcome[1] # "ok"
    <3>1. kernel'[Y] = kernel[Y]
      BY <1>0, <1>1, <2>1, <2>2, <2>7 DEF Written, RioInv
    <3>2. sent'[F] = sent[F]
      BY <1>0, <1>1, <2>1, <2>2, <2>7 DEF Written
    <3> QED
      BY <1>3, <2>2, <2>3, <2>5, <2>6, <3>1, <3>2 DEF TinyEffect, ReplyStays, F, Y
  <2>8. CASE tiny.s = F /\ outcome[1] = "ok"
    <3>1. sent'[F] = sent[F] \o bytes
      BY <1>0, <1>1, <2>1, <2>8 DEF Written
    <3>2. peer[F] = "open" => kernel'[Y] = kernel[Y] \o bytes
      BY <1>0, <1>1, <2>1, <2>8 DEF Written, RioInv
    <3>3. TinyWritesTo(c)
      BY <1>5, <2>2, <2>3, <2>8, <3>1, <3>2 DEF TinyWritesTo, TinyAt, TinyPuts, F, Y
    <3> QED
      BY <1>3, <2>5, <2>6, <3>3 DEF TinyEffect, F
  <2> QED
    BY <2>7, <2>8
<1>6. CASE TinyHears \/ TinyAsks \/ TinyTurns
  <2>1. /\ tiny.pc \notin {"accept", "down"} /\ tiny'.s = tiny.s /\ tinyQueue' = tinyQueue /\ sent' = sent /\ over' = over
    BY <1>6 DEF TinyHears, TinyAsks, TinyTurns, tinyVars, connVars
  <2>2. tiny.s \in Streams /\ tiny.s # Y
    BY <1>0, <1>1, <2>1
  <2>3. Quiet(Y)
    <3>1. CASE TinyHears
      BY <1>0, <1>1, <2>2, <3>1, OneRead DEF TinyHears
    <3>2. CASE TinyAsks
      BY <1>0, <1>1, <2>2, <3>2 DEF TinyAsks, Called, RioInv, Quiet
    <3>3. CASE TinyTurns
      BY <3>3 DEF TinyTurns, rioVars, Quiet
    <3> QED
      BY <1>6, <3>1, <3>2, <3>3
  <2>4. TinyAt(F)' => TinyAt(F)
    BY <2>1 DEF TinyAt
  <2> QED
    BY <1>2, <1>3, <2>1, <2>3, <2>4 DEF TinyEffect, Elsewhere, ReplyStays, Quiet, F, Y, R
<1>7. CASE TinyLeaves
  <2>1. /\ tiny.pc \notin {"accept", "down"} /\ tiny.s \in TinysRequests
        /\ rio' = rio /\ kernel' = kernel /\ sent' = sent /\ tinyQueue' = tinyQueue
    BY <1>0, <1>7 DEF TinyLeaves, TinyCloses, TinyExits
  <2>2. Elsewhere(c) /\ ReplyStays(c)
    BY <1>2, <2>1 DEF Elsewhere, ReplyStays, R
  <2>3. CASE TinyCloses /\ (tiny.pc = "write" \/ (tiny.pc = "requestline" /\ rio[tiny.s].rc = 0))
    <3>1. tiny'.pc = "accept" /\ over' = [over EXCEPT ![tiny.s] = "served"] /\ peer' = Hangup({tiny.s}, {})
      BY <2>3, NotServingIs DEF TinyCloses
    <3>2. ~TinyAt(F)'
      BY <3>1 DEF TinyAt
    <3>3. CASE tiny.s # F
      <4>1. over'[F] = over[F]
        BY <1>0, <1>1, <3>1, <3>3
      <4>2. peer'[Y] = peer[Y]
        <5>1. PICK closed : closed = {tiny.s}
          OBVIOUS
        <5>2. PICK dropped : dropped = {}
          OBVIOUS
        <5>3. closed \subseteq Requests /\ dropped \subseteq Requests
          BY <1>1, <2>1, <5>1, <5>2
        <5>3a. peer' = Hangup(closed, dropped)
          BY <3>1, <5>1, <5>2
        <5>4. LET h == peer' IN
           /\ h = [p \in Streams |-> h[p]]
           /\ \A p \in Streams :
                \/ h[p] = peer[p]
                \/ /\ peer[p] = "open" /\ h[p] \in {"reset", "closed"}
                   /\ \E d \in Proxied : p = ReplyOf(d) /\ ForwardOf(d) \in closed \cup dropped
          BY <1>0, <5>3, <5>3a, HangupIs
        <5>5. \A d \in Proxied : ForwardOf(d) \in closed \cup dropped => ReplyOf(d) # Y
          BY <1>1, <3>3, <2>1, <5>1, <5>2, Names DEF Y, F
        <5> QED
          BY <1>1, <5>4, <5>5
      <4> QED
        BY <1>3, <2>2, <3>2, <4>1, <4>2 DEF TinyEffect, F, Y
    <3>4. CASE tiny.s = F
      <4>1. over'[F] = "served"
        BY <1>0, <1>1, <3>1, <3>4
      <4>2. kernel[F] = <<>> => peer'[Y] # "reset" \/ peer[Y] = "reset"
        <5> SUFFICES ASSUME kernel[F] = <<>>, peer[Y] # "reset" PROVE peer'[Y] # "reset"
          OBVIOUS
        <5> DEFINE seen == [s \in {F} \cup {} |-> IF s \in {} \/ kernel[s] # <<>> THEN "reset" ELSE "closed"]
        <5>1. peer' = [p \in Streams |->
                IF \E s \in DOMAIN seen : ReplyTo(s) = p /\ peer[p] = "open"
                THEN seen[CHOOSE s \in DOMAIN seen : ReplyTo(s) = p]
                ELSE peer[p]]
          BY <3>1, <3>4 DEF Hangup
        <5>2. DOMAIN seen = {F} /\ seen[F] = "closed"
          OBVIOUS
        <5> HIDE DEF seen
        <5>3. (CHOOSE s \in DOMAIN seen : ReplyTo(s) = Y) = F
          BY <1>1, <5>2
        <5>4. peer'[Y] = IF \E s \in DOMAIN seen : ReplyTo(s) = Y /\ peer[Y] = "open"
                         THEN seen[CHOOSE s \in DOMAIN seen : ReplyTo(s) = Y] ELSE peer[Y]
          BY <1>1, <5>1
        <5> QED
          BY <5>2, <5>3, <5>4
      <4>3. TinyHangsUp(c)
        BY <1>7, <2>1, <2>3, <3>1, <3>4, <4>1, <4>2 DEF TinyHangsUp, TinyAt, TinyLeaves, F, Y
      <4> QED
        BY <1>3, <2>2, <3>2, <4>3 DEF TinyEffect, F
    <3> QED
      BY <3>3, <3>4
  <2>4. CASE TinyExits
    <3>1. PICK t : t = [tiny EXCEPT !.pc = "down"]
      OBVIOUS
    <3>2. TinyLike(t, tiny, "down")
      BY <1>0, <3>1, TinyFormPc DEF TypeInv
    <3>3. tiny'.pc = "down" /\ tiny'.s = tiny.s
      BY <2>4, <3>1, <3>2 DEF TinyExits, TinyLike
    <3>4. TinyAt(F)' => TinyAt(F)
      BY <2>1, <3>3 DEF TinyAt
    <3>5. over'[F] = "dropped" \/ (over'[F] = over[F] /\ F # tiny.s /\ F \notin ToSet(tinyQueue))
      BY <1>1, <2>4 DEF TinyExits
    <3>6. F # tiny.s /\ F \notin ToSet(tinyQueue) => peer'[Y] = peer[Y]
      <4> SUFFICES ASSUME F # tiny.s, F \notin ToSet(tinyQueue) PROVE peer'[Y] = peer[Y]
        OBVIOUS
      <4>1. PICK closed : closed = {tiny.s}
        OBVIOUS
      <4>2. PICK dropped : dropped = ToSet(tinyQueue)
        OBVIOUS
      <4>3. closed \subseteq Requests /\ dropped \subseteq Requests
        BY <1>0, <1>1, <2>1, <4>1, <4>2, Servers DEF ControlInv, TinyQueueInv
      <4>3a. peer' = Hangup(closed, dropped)
        BY <2>4, <4>1, <4>2 DEF TinyExits
      <4>4. LET h == peer' IN
           /\ h = [p \in Streams |-> h[p]]
           /\ \A p \in Streams :
                \/ h[p] = peer[p]
                \/ /\ peer[p] = "open" /\ h[p] \in {"reset", "closed"}
                   /\ \E d \in Proxied : p = ReplyOf(d) /\ ForwardOf(d) \in closed \cup dropped
        BY <1>0, <4>3, <4>3a, HangupIs
      <4>5. F \notin closed \cup dropped
        BY <4>1, <4>2
      <4>6. \A d \in Proxied : ForwardOf(d) \in closed \cup dropped => ReplyOf(d) # Y
        BY <4>5, Names DEF Y, F
      <4> QED
        BY <1>1, <4>4, <4>6
    <3>7. TinyDies(c)
      BY <3>3, <3>5, <3>6 DEF TinyDies, F, Y
    <3> QED
      BY <1>3, <2>2, <3>4, <3>7 DEF TinyEffect, F
  <2> QED
    BY <1>7, <2>3, <2>4 DEF TinyLeaves
<1> QED
  BY <1>0, <1>4, <1>5, <1>6, <1>7 DEF TinyDoes

-----------------------------------------------------------------------------
\* A client that stays and for which tiny was asked is in service, or has been.
LEMMA Settled ==
    ASSUME ControlInv, DroppedInv, NEW c \in Proxied, asked[c] # <<>>, Present(c)
    PROVE  Relaying(c) \/ over[RequestOf(c)] = "served"
<1>1. over[RequestOf(c)] \in {"no", "served", "dropped"}
  BY Names DEF ControlInv, TypeInv
<1>2. over[RequestOf(c)] # "dropped"
  BY DEF DroppedInv
<1>3. over[RequestOf(c)] = "no" => Connected(c)
  BY DEF ControlInv, UnconnectedInv
<1>4. proxy.pc = "send" => proxy.c # c
  BY DEF ControlInv, SendInv
<1> QED
  BY <1>1, <1>2, <1>3, <1>4 DEF Connected, PastConnect, Relaying

\* Then neither end of the connection to tiny is closed before tiny is done.
LEMMA RelayingIs ==
    ASSUME ControlInv, NEW c \in Proxied, Relaying(c)
    PROVE  /\ ProxyUp /\ proxy.pc \notin {"accept", "send", "down"} /\ proxy.c = c
           /\ peer[ForwardOf(c)] = "open" /\ over[RequestOf(c)] = "no" /\ Here = RequestOf(c)
<1>1. proxy.pc \in {"relay", "write"} /\ proxy.c = c
  BY DEF Relaying
<1> QED
  BY <1>1 DEF ControlInv, PeerInv, ServingInv, ProxyUp, Here

\* What is in hand, in parts.
LEMMA InHandIs ==
    ASSUME ControlInv, NEW c \in Proxied
    PROVE  /\ InHand(c) \in Seq(Byte)
           /\ rio[ReplyOf(c)] \in RioCall
           /\ rio[ReplyOf(c)].got \in Seq(Byte) /\ rio[ReplyOf(c)].buf \in Seq(Byte)
           /\ kernel[ReplyOf(c)] \in Seq(Byte) /\ FlattenSeq(proxy.out) \in Seq(Byte)
           /\ Relaying(c) /\ proxy.pc = "relay" =>
                InHand(c) = rio[ReplyOf(c)].got \o rio[ReplyOf(c)].buf \o kernel[ReplyOf(c)]
           /\ Relaying(c) /\ proxy.pc = "write" =>
                InHand(c) = FlattenSeq(proxy.out) \o rio[ReplyOf(c)].buf \o kernel[ReplyOf(c)]
           /\ ~Relaying(c) => InHand(c) = <<>>
<1>1. ReplyOf(c) \in Streams
  BY Names
<1>2. rio[ReplyOf(c)] \in RioCall /\ kernel[ReplyOf(c)] \in Seq(Byte)
  BY <1>1 DEF ControlInv, RioInv
<1>3. PICK g \in Seq(Byte), b \in Seq(Byte), k \in Seq(Byte) :
         g = rio[ReplyOf(c)].got /\ b = rio[ReplyOf(c)].buf /\ k = kernel[ReplyOf(c)]
  BY <1>2 DEF RioCall
<1>4. proxy.out \in Seq(Seq(Byte))
  BY DEF ControlInv, TypeInv, ProxyType
<1>5. PICK o \in Seq(Byte) : o = FlattenSeq(proxy.out)
  BY <1>4, FlattenType
<1>6. g \o b \o k \in Seq(Byte) /\ o \o b \o k \in Seq(Byte) /\ <<>> \in Seq(Byte)
  BY ConcatProperties
<1>7. Relaying(c) => proxy.pc = "relay" \/ (proxy.pc = "write" /\ proxy.pc # "relay")
  BY DEF Relaying
<1>8. Relaying(c) /\ proxy.pc = "relay" => InHand(c) = g \o b \o k
  BY <1>3 DEF InHand
<1>9. Relaying(c) /\ proxy.pc = "write" => InHand(c) = o \o b \o k
  BY <1>3, <1>5 DEF InHand
<1>10. ~Relaying(c) => InHand(c) = <<>>
  BY DEF InHand
<1>11. InHand(c) \in Seq(Byte)
  BY <1>6, <1>7, <1>8, <1>9, <1>10
<1> QED
  BY <1>2, <1>3, <1>5, <1>8, <1>9, <1>10, <1>11

\* tiny leaves alone what the proxy has taken over and told the client.
LEMMA TinyTold ==
    ASSUME ControlInv, ControlInv', TakenInv, DroppedInv, OwnInv,
           TinyStep, UNCHANGED <<proxyVars, clientVars>>
    PROVE  TakenInv' /\ DroppedInv' /\ OwnInv'
<1>0. /\ proxy' = proxy /\ asked' = asked /\ phase' = phase /\ script' = script
      /\ \A c \in Proxied : Elsewhere(c)
      /\ proxy.pc # "accept" => proxy.c \in Proxied
  BY TinyEffects DEF proxyVars, clientVars, TinyEffect, ControlInv, ServingInv
<1>1. \A c : Present(c)' <=> Present(c)
  BY <1>0 DEF Present
<1>2. Here' = Here /\ (proxy.pc # "accept" => rio'[Here] = rio[Here] /\ sent'[Here] = sent[Here])
  BY <1>0 DEF Here, Elsewhere, Quiet
<1>3. TakenInv'
  BY <1>0, <1>1, <1>2 DEF TakenInv
<1>4. DroppedInv'
  BY <1>0, <1>1 DEF DroppedInv, Elsewhere
<1>5. OwnInv'
  BY <1>0, <1>1, <1>2 DEF OwnInv, Elsewhere, ProxyAt
<1> QED
  BY <1>3, <1>4, <1>5

\* It begins and ends with a connection in its time.
LEMMA TinyDone ==
    ASSUME ControlInv, ControlInv', DoneInv, TinyStep, UNCHANGED <<proxyVars, clientVars>>
    PROVE  DoneInv'
<1>0. /\ proxy' = proxy /\ asked' = asked /\ phase' = phase /\ script' = script
      /\ \A c \in Proxied : TinyEffect(c) /\ Elsewhere(c)
      /\ TinyUp
  BY TinyEffects, TinyFrame DEF proxyVars, clientVars, TinyEffect, TinyTouches
<1>1. \A c : (Relaying(c)' <=> Relaying(c)) /\ (Connected(c)' <=> Connected(c))
  BY <1>0 DEF Relaying, Connected
<1>2. ASSUME NEW c \in Proxied, over'[RequestOf(c)] = "served" \/ (asked'[c] = <<>> /\ ~Connected(c)')
      PROVE ForwardOf(c) \notin ToSet(tinyQueue') /\ ~TinyAt(ForwardOf(c))'
  <2>1. over[RequestOf(c)] = "served" \/ (asked[c] = <<>> /\ ~Connected(c))
    BY <1>0, <1>1, <1>2 DEF Elsewhere
  <2>2. ForwardOf(c) \notin ToSet(tinyQueue) /\ ~TinyAt(ForwardOf(c))
    BY <1>0, <2>1 DEF DoneInv
  <2> QED
    BY <1>0, <2>2 DEF TinyEffect
<1>3. ASSUME NEW c \in Proxied, asked[c] = <<>> PROVE ~TinyWritesTo(c)
  <2> SUFFICES ASSUME TinyWritesTo(c) PROVE FALSE
    OBVIOUS
  <2>1. TinyAt(ForwardOf(c)) /\ tiny.pc \in {"write", "wait"}
    BY DEF TinyWritesTo
  <2>2. Connected(c) /\ ~Relaying(c)
    BY <1>0, <1>3, <2>1 DEF DoneInv
  <2>3. proxy.pc = "send" /\ proxy.c = c
    BY <2>2 DEF Connected, PastConnect, Relaying
  <2>4. ForwardOf(c) \in ToSet(tinyQueue) \/ tiny.pc = "requestline"
    BY <1>0, <2>3 DEF ControlInv, SendInv
  <2> QED
    BY <1>0, <2>1, <2>4 DEF ControlInv, TinyQueueInv
<1>4. ASSUME NEW c \in Proxied, asked'[c] = <<>>
      PROVE sent'[ForwardOf(c)] = <<>> /\ kernel'[ReplyOf(c)] = <<>> /\ rio'[ReplyOf(c)].buf = <<>>
  <2>1. sent[ForwardOf(c)] = <<>> /\ kernel[ReplyOf(c)] = <<>> /\ rio[ReplyOf(c)].buf = <<>>
    BY <1>0, <1>4 DEF DoneInv
  <2>2. ReplyStays(c)
    BY <1>0, <1>3, <1>4 DEF TinyEffect
  <2> QED
    BY <1>0, <2>1, <2>2 DEF ReplyStays, Elsewhere
<1>5. ASSUME proxy'.pc = "relay", NEW c \in Proxied, c = proxy'.c,
             ~rio'[ReplyOf(c)].calling, rio'[ReplyOf(c)].rc <= 0
      PROVE /\ peer'[ReplyOf(c)] # "open" /\ kernel'[ReplyOf(c)] = <<>>
            /\ rio'[ReplyOf(c)].got = <<>> /\ rio'[ReplyOf(c)].buf = <<>>
  <2>1. proxy.pc = "relay" /\ c = proxy.c /\ rio'[ReplyOf(c)] = rio[ReplyOf(c)]
    BY <1>0, <1>5 DEF Elsewhere
  <2>2. /\ peer[ReplyOf(c)] # "open" /\ kernel[ReplyOf(c)] = <<>>
        /\ rio[ReplyOf(c)].got = <<>> /\ rio[ReplyOf(c)].buf = <<>>
    BY <1>5, <2>1 DEF DoneInv
  <2>3. ~TinyWritesTo(c)
    BY <1>0, <2>2 DEF TinyWritesTo, ControlInv, PeerInv
  <2>4. ReplyStays(c)
    BY <1>0, <2>3 DEF TinyEffect
  <2>5. peer'[ReplyOf(c)] # "open"
    <3>1. StreamStep(ReplyOf(c))
      BY Names, TinyKeeps DEF StreamsStep
    <3> QED
      BY <3>1, <2>2 DEF StreamStep, Quiet, Closing, Growing, Calling, Reading
  <2> QED
    BY <2>1, <2>2, <2>4, <2>5 DEF ReplyStays
<1>6. proxy'.pc = "relay" => proxy'.c \in Proxied
  BY DEF ControlInv, ServingInv
<1>7. \A c \in Proxied : Relaying(c)' => asked'[c] # <<>>
  BY <1>0, <1>1 DEF DoneInv
<1> QED
  BY <1>2, <1>4, <1>5, <1>6, <1>7 DEF DoneInv

\* It resets a connection only when it goes down.
LEMMA TinyResets ==
    ASSUME ControlInv, ControlInv', TinyReadsInv, ResetInv, TinyStep, UNCHANGED <<proxyVars, clientVars>>
    PROVE  ResetInv'
<1>0. /\ proxy' = proxy /\ phase' = phase
      /\ \A c \in Proxied : TinyEffect(c)
      /\ TinyUp
  BY TinyEffects, TinyFrame DEF proxyVars, clientVars, TinyTouches
<1>1. \A c : (Relaying(c)' <=> Relaying(c)) /\ (Present(c)' <=> Present(c))
  BY <1>0 DEF Relaying, Present
<1>2. \A c \in Proxied : over[ForwardOf(c)] # "dropped"
  BY <1>0 DEF ResetInv
<1>3. ASSUME TinyUp', NEW c \in Proxied PROVE over'[ForwardOf(c)] # "dropped"
  <2>1. ~TinyDies(c)
    BY <1>3 DEF TinyDies, TinyUp
  <2>2. over'[ForwardOf(c)] = over[ForwardOf(c)] \/ over'[ForwardOf(c)] = "served"
    BY <1>0, <2>1 DEF TinyEffect, TinyWritesTo, TinyHangsUp
  <2> QED
    BY <1>2, <2>2
<1>4. ASSUME NEW c \in Proxied, Relaying(c)', Present(c)', peer'[ReplyOf(c)] = "reset"
      PROVE over'[ForwardOf(c)] = "dropped"
  <2>1. Relaying(c) /\ Present(c)
    BY <1>1, <1>4
  <2>2. peer[ReplyOf(c)] # "reset"
    BY <1>2, <2>1 DEF ResetInv
  <2>3. ~TinyHangsUp(c)
    <3> SUFFICES ASSUME TinyHangsUp(c) PROVE FALSE
      OBVIOUS
    <3>1. TinyAt(ForwardOf(c)) /\ kernel[ForwardOf(c)] # <<>>
      BY <1>4, <2>2 DEF TinyHangsUp
    <3>2. CASE tiny.pc = "write"
      BY <1>0, <2>1, <3>1, <3>2 DEF TinyReadsInv
    <3>3. CASE tiny.pc = "requestline" /\ ~rio[ForwardOf(c)].calling /\ rio[ForwardOf(c)].rc = 0
      BY <1>0, <2>1, <3>1, <3>3 DEF TinyReadsInv, HasLine
    <3> QED
      BY <3>2, <3>3 DEF TinyHangsUp
  <2>4. peer'[ReplyOf(c)] # peer[ReplyOf(c)]
    BY <1>4, <2>2
  <2> QED
    BY <1>0, <2>3, <2>4 DEF TinyEffect, TinyWritesTo, TinyDies
<1> QED
  BY <1>3, <1>4 DEF ResetInv

\* What it writes is in the hand of the proxy.
LEMMA TinyReplies ==
    ASSUME ControlInv, ControlInv', DoneInv, DroppedInv, ResetInv, RelayInv,
           TinyStep, UNCHANGED <<proxyVars, clientVars>>
    PROVE  RelayInv'
<1>0. /\ proxy' = proxy /\ asked' = asked /\ phase' = phase /\ script' = script
      /\ TinyUp
  BY TinyFrame DEF proxyVars, clientVars, TinyTouches
<1> SUFFICES ASSUME NEW c \in Proxied, asked'[c] # <<>>, Present(c)'
             PROVE  \E r \in Gets(c)' : \E x, y \in Seq(Byte) :
                      /\ sent'[RequestOf(c)] = Own(r) \o x
                      /\ sent'[ForwardOf(c)] = x \o InHand(c)' \o y
                      /\ y = <<>> \/ over'[ForwardOf(c)] = "dropped"
  BY DEF RelayInv, Own
<1>1. asked[c] # <<>> /\ Present(c) /\ Gets(c)' = Gets(c) /\ (Relaying(c)' <=> Relaying(c))
  BY <1>0, ReasonsSame DEF Present, Relaying
<1>2. PICK r \in Gets(c) : \E x, y \in Seq(Byte) :
            /\ sent[RequestOf(c)] = Own(r) \o x
            /\ sent[ForwardOf(c)] = x \o InHand(c) \o y
            /\ y = <<>> \/ over[ForwardOf(c)] = "dropped"
  BY <1>1 DEF RelayInv
<1>3. PICK x \in Seq(Byte), y \in Seq(Byte) :
            /\ sent[RequestOf(c)] = Own(r) \o x
            /\ sent[ForwardOf(c)] = x \o InHand(c) \o y
            /\ y = <<>>
  BY <1>0, <1>2 DEF ResetInv
<1>4. TinyEffect(c) /\ Elsewhere(c)
  BY TinyEffects DEF TinyEffect
<1>5. sent'[RequestOf(c)] = Own(r) \o x
  BY <1>3, <1>4 DEF Elsewhere
<1>6. CASE ReplyStays(c)
  <2>1. InHand(c)' = InHand(c)
    BY <1>0, <1>1, <1>4, <1>6 DEF InHand, ReplyStays, Elsewhere
  <2>2. sent'[ForwardOf(c)] = x \o InHand(c)' \o y
    BY <1>3, <1>6, <2>1 DEF ReplyStays
  <2> QED
    BY <1>1, <1>3, <1>5, <2>2
<1>7. CASE TinyWritesTo(c)
  <2>1. Relaying(c)
    BY <1>0, <1>1, <1>7, Settled DEF DoneInv, TinyWritesTo
  <2>2. peer[ForwardOf(c)] = "open"
    BY <2>1, RelayingIs
  <2>3. PICK bytes \in Seq(Byte) : /\ sent'[ForwardOf(c)] = sent[ForwardOf(c)] \o bytes
                                   /\ kernel'[ReplyOf(c)] = kernel[ReplyOf(c)] \o bytes
    BY <1>7, <2>2 DEF TinyWritesTo
  <2>4. PICK h \in Seq(Byte) : h = InHand(c)
    BY InHandIs
  <2>5. InHand(c)' = h \o bytes
    <3>1. PICK g \in Seq(Byte), b \in Seq(Byte), k \in Seq(Byte), o \in Seq(Byte) :
             /\ g = rio[ReplyOf(c)].got /\ b = rio[ReplyOf(c)].buf /\ k = kernel[ReplyOf(c)]
             /\ o = FlattenSeq(proxy.out)
      BY InHandIs
    <3>2. PICK a \in Seq(Byte) : a = IF proxy.pc = "relay" THEN g ELSE o
      OBVIOUS
    <3>3. h = a \o b \o k
      BY <2>1, <2>4, <3>1, <3>2 DEF InHand
    <3>4. InHand(c)' = a \o b \o (k \o bytes)
      BY <1>0, <1>1, <1>4, <2>1, <2>3, <3>1, <3>2 DEF InHand, Elsewhere
    <3>5. PICK ab \in Seq(Byte) : ab = a \o b
      BY ConcatProperties
    <3>6. (ab \o k) \o bytes = ab \o (k \o bytes)
      <4>1. Assoc(ab, k, bytes)
        BY AssocIs
      <4> QED
        BY <4>1, Zenon DEF Assoc
    <3> QED
      BY <3>3, <3>4, <3>5, <3>6
  <2>6. sent'[ForwardOf(c)] = x \o InHand(c)' \o y
    <3>1. PICK w \in Seq(Byte) : w = h \o bytes
      BY ConcatProperties
    <3>2. PICK u \in Seq(Byte), v \in Seq(Byte) : u = x \o h /\ v = x \o w
      BY ConcatProperties
    <3>3. u \o y = u /\ v \o y = v
      BY <1>3, ConcatEmptySeq
    <3>4. sent'[ForwardOf(c)] = u \o bytes
      BY <1>3, <2>3, <2>4, <3>2, <3>3
    <3>5. (x \o h) \o bytes = x \o (h \o bytes)
      <4>1. Assoc(x, h, bytes)
        BY AssocIs
      <4> QED
        BY <4>1, Zenon DEF Assoc
    <3>6. u \o bytes = v
      BY <3>1, <3>2, <3>5
    <3> QED
      BY <2>5, <3>1, <3>2, <3>3, <3>4, <3>6
  <2> QED
    BY <1>1, <1>3, <1>5, <2>6
<1> QED
  BY <1>4, <1>6, <1>7 DEF TinyEffect

-----------------------------------------------------------------------------
\* The body of a whole request is what stands before its last two bytes.
LEMMA BodyIs ==
    ASSUME NEW b \in Seq(Byte), IsWhole(b)
    PROVE  /\ Len(b) \in Nat /\ Len(b) > 1 /\ Len(Body(b)) = Len(b) - 2 /\ Body(b) \in Seq(Byte)
           /\ \A d \in 0..Len(b)-2, e \in 0..Len(b)-2 : SubSeq(Body(b), d + 1, e) = SubSeq(b, d + 1, e)
           /\ SubSeq(b, Len(b) - 1, Len(b)) = CRLF
           /\ \E D \in SUBSET (0..Len(Body(b))) : CutAt(Body(b), D)
<1>1. Len(b) \in Nat /\ Len(b) > 1
  BY DEF IsWhole
<1>2. PICK n \in Nat : n = Len(b) - 2
  BY <1>1
<1>2a. SubSeq(b, 1, n) \in Seq(Byte)
  BY <1>1, <1>2
<1>3. PICK a \in Seq(Byte) : a = SubSeq(b, 1, n)
  BY <1>2a, Zenon
<1>4. Len(a) = n /\ Body(b) = a /\ \A i \in 1..n : a[i] = b[i]
  BY <1>1, <1>2, <1>3 DEF Body
<1>5. \A d \in 0..n, e \in 0..n : SubSeq(a, d + 1, e) = SubSeq(b, d + 1, e)
  <2> SUFFICES ASSUME NEW d \in 0..n, NEW e \in 0..n PROVE SubSeq(a, d + 1, e) = SubSeq(b, d + 1, e)
    OBVIOUS
  <2> QED
    BY <1>1, <1>2, <1>4
<1>6. PICK w \in Seq(Byte) : w = CRLF
  BY CRLFIsLine
<1>7. b = a \o w
  BY <1>4, <1>6 DEF IsWhole
<1>8. SubSeq(b, Len(a) + 1, Len(b)) = w
  BY <1>7, SplitAt
<1>9. Len(a) + 1 = Len(b) - 1
  BY <1>1, <1>2, <1>4
<1>10. SubSeq(b, Len(b) - 1, Len(b)) = CRLF
  BY <1>6, <1>8, <1>9
<1> QED
  BY <1>1, <1>2, <1>4, <1>5, <1>10 DEF IsWhole, InPieces

\* Whoever reads a whole request line by line finds the empty line at its end,
\* and not before.
LineIn(b, D, d, got, rest) ==
    /\ IsWhole(b) /\ D \in SUBSET (0..Len(Body(b))) /\ CutAt(Body(b), D) /\ d \in D
    /\ IsLine(got) /\ SubSeq(b, d + 1, Len(b)) = got \o rest
Advances(b, D, got, rest) ==
    /\ got = CRLF => rest = <<>>
    /\ got # CRLF => \E e \in D : rest = SubSeq(b, e + 1, Len(b))

\* A line read from where one starts ends where the next one starts, and the line
\* that is CRLF is the last.
LEMMA LineAdvance ==
    ASSUME NEW b \in Seq(Byte), NEW got \in Seq(Byte), NEW rest \in Seq(Byte), NEW D, NEW d,
           LineIn(b, D, d, got, rest)
    PROVE  Advances(b, D, got, rest)
<1>0. /\ IsWhole(b) /\ D \in SUBSET (0..Len(Body(b))) /\ CutAt(Body(b), D) /\ d \in D
      /\ IsLine(got) /\ SubSeq(b, d + 1, Len(b)) = got \o rest
  BY DEF LineIn
<1>1. PICK n \in Nat : n = Len(b) - 2 /\ n = Len(Body(b)) /\ Len(b) \in Nat /\ d \in 0..n
  BY <1>0, BodyIs
<1>2. CASE d = n
  <2>1. PICK w \in Seq(Byte) : w = CRLF /\ IsLine(w)
    BY CRLFIsLine
  <2>2. d + 1 = Len(b) - 1
    BY <1>1, <1>2
  <2>3. SubSeq(b, d + 1, Len(b)) = w
    BY <1>0, <2>1, <2>2, BodyIs
  <2>4. PICK none \in Seq(Byte) : none = <<>>
    BY NothingCut
  <2>5. w \o none = w
    BY <2>4, ConcatEmptySeq
  <2>6. w \o none = got \o rest
    BY <1>0, <2>3, <2>5
  <2>7. w = got /\ none = rest
    BY <1>0, <2>1, <2>6, LineUnique
  <2> QED
    BY <2>1, <2>4, <2>7 DEF Advances
<1>3. CASE d # n
  <2>1. PICK e \in D : d < e /\ IsLine(SubSeq(Body(b), d + 1, e)) /\ SubSeq(Body(b), d + 1, e) # CRLF
    BY <1>0, <1>1, <1>3 DEF CutAt
  <2>2. e \in 0..n
    BY <1>0, <1>1, <2>1
  <2>3. SubSeq(Body(b), d + 1, e) = SubSeq(b, d + 1, e)
    <3>1. d \in 0..Len(b)-2 /\ e \in 0..Len(b)-2
      BY <1>1, <2>2
    <3> QED
      BY <1>0, <3>1, BodyIs
  <2>4. SubSeq(b, d + 1, e) \in Seq(Byte) /\ SubSeq(b, e + 1, Len(b)) \in Seq(Byte)
    BY <1>1, <2>2
  <2>5. PICK x \in Seq(Byte) : x = SubSeq(b, d + 1, e)
    BY <2>4
  <2>6. PICK u \in Seq(Byte) : u = SubSeq(b, e + 1, Len(b))
    BY <2>4
  <2>7. x \o u = got \o rest
    <3>1. PICK m : m = d + 1
      OBVIOUS
    <3>2. m \in 1..Len(b)+1 /\ e \in m-1..Len(b) /\ Len(b) \in e..Len(b)
      BY <1>1, <2>1, <2>2, <3>1
    <3>3. SubSeq(b, m, e) \o SubSeq(b, e + 1, Len(b)) = SubSeq(b, m, Len(b))
      BY <3>2, ConcatAdjacentSubSeq
    <3> QED
      BY <1>0, <2>5, <2>6, <3>1, <3>3
  <2>8. x = got /\ u = rest
    <3>1. IsLine(x) /\ IsLine(got)
      BY <1>0, <2>1, <2>3, <2>5, Zenon
    <3> QED
      BY <2>7, <3>1, LineUnique
  <2> QED
    BY <2>1, <2>3, <2>5, <2>6, <2>8 DEF Advances
<1> QED
  BY <1>2, <1>3

\* A request that tiny has in part is a whole one; of the line that it has got
\* first that is known already.
LEMMA AskedIs ==
    ASSUME ControlInv, FirstInv, TextInv, TakenInv, DoneInv, TinyUp,
           NEW c \in Proxied, Relaying(c), Present(c)
    PROVE  /\ asked[c] \in Seq(Byte) /\ asked[c] # <<>> /\ IsWhole(asked[c])
           /\ TinyAt(ForwardOf(c)) /\ tiny.pc = "requestline" /\ HasLine(rio[ForwardOf(c)]) /\ ~rio[ForwardOf(c)].calling =>
                /\ rio[ForwardOf(c)].got # CRLF
                /\ \A text \in Texts(rio[ForwardOf(c)].got) : RequestLines[text].method = "GET"
<1>1. asked[c] \in Seq(Byte) /\ asked[c] # <<>>
  BY DEF ControlInv, TypeInv, DoneInv
<1>2. IsWhole(asked[c])
  BY <1>1 DEF TakenInv
<1>3. ASSUME TinyAt(ForwardOf(c)), tiny.pc = "requestline", HasLine(rio[ForwardOf(c)]), ~rio[ForwardOf(c)].calling
      PROVE  /\ rio[ForwardOf(c)].got # CRLF
             /\ \A text \in Texts(rio[ForwardOf(c)].got) : RequestLines[text].method = "GET"
  <2>1. ProxyUp
    BY RelayingIs
  <2>2. FirstCall(rio[ForwardOf(c)], kernel[ForwardOf(c)], peer[ForwardOf(c)], asked[c])
    BY <1>3, <2>1 DEF FirstInv, OnFirstCall, TinyAt
  <2>3. rio[ForwardOf(c)].rc > 0
    BY <1>3 DEF HasLine
  <2>3a. rio[ForwardOf(c)].rc \in Int
    BY Names DEF ControlInv, RioInv, RioCall
  <2>4. rio[ForwardOf(c)].got[1] = asked[c][1]
    BY <1>3, <2>2, <2>3, <2>3a DEF FirstCall
  <2>5. PICK r \in Gets(c) : asked[c][1] = r.file
    BY <1>1 DEF TextInv
  <2>6. PICK t \in DOMAIN RequestLines : r = RequestLines[t]
    BY GetsKnown
  <2>7. /\ r.file \in DOMAIN RequestLines /\ RequestLines[r.file].method = "GET"
        /\ {"cr", "lf"} \cap DOMAIN RequestLines = {}
    BY <2>6, RequestPathAssumption
  <2>8. PICK got : got = rio[ForwardOf(c)].got
    OBVIOUS
  <2>9. got[1] = r.file
    BY <2>4, <2>5, <2>8
  <2>10. got # CRLF
    BY <2>7, <2>9, CRLFIsLine
  <2>11. Texts(got) = {r.file}
    BY <2>7, <2>9 DEF Texts
  <2> QED
    BY <2>7, <2>8, <2>10, <2>11
<1> QED
  BY <1>1, <1>2, <1>3

\* The connection to tiny, read by lines.
LEMMA ForwardIs ==
    ASSUME ControlInv, NEW c \in Proxied
    PROVE  /\ ForwardOf(c) \in Streams /\ ForwardOf(c) \in Requests /\ CallOK(ForwardOf(c), rio[ForwardOf(c)])
           /\ rio[ForwardOf(c)] \in RioCall /\ kernel[ForwardOf(c)] \in Seq(Byte)
           /\ rio[ForwardOf(c)].got \in Seq(Byte) /\ rio[ForwardOf(c)].buf \in Seq(Byte)
           /\ rio[ForwardOf(c)].buf \o kernel[ForwardOf(c)] \in Seq(Byte)
           /\ Rest(ForwardOf(c)) = rio[ForwardOf(c)].got \o (rio[ForwardOf(c)].buf \o kernel[ForwardOf(c)])
<1>1. ForwardOf(c) \in Streams /\ ForwardOf(c) \in Requests
  BY Names
<1>2. CallOK(ForwardOf(c), rio[ForwardOf(c)]) /\ rio[ForwardOf(c)] \in RioCall /\ kernel[ForwardOf(c)] \in Seq(Byte)
  BY <1>1 DEF ControlInv, RioInv
<1>3. PICK g \in Seq(Byte), b \in Seq(Byte), k \in Seq(Byte) :
         g = rio[ForwardOf(c)].got /\ b = rio[ForwardOf(c)].buf /\ k = kernel[ForwardOf(c)]
  BY <1>2 DEF RioCall
<1>4. (g \o b) \o k = g \o (b \o k)
  <2>1. Assoc(g, b, k)
    BY AssocIs
  <2> QED
    BY <2>1, Zenon DEF Assoc
<1>5. b \o k \in Seq(Byte)
  BY ConcatProperties
<1> QED
  BY <1>1, <1>2, <1>3, <1>4, <1>5 DEF Rest

\* A call begins where the last one stopped.
LEMMA NextLine ==
    ASSUME NEW s \in Requests, NEW r \in RioCall, NEW r2, NEW k \in Seq(Byte), CallsOn(s, r, r2)
    PROVE  r2.got \o r2.buf \o k = r.buf \o k /\ (~r2.calling => HasLine(r2))
<1>1. r2 \in RioCall /\ r2.got \o r2.buf = r.buf
  BY DEF CallsOn, CallOK
<1>2. r2.got \in Seq(Byte) /\ r2.buf \in Seq(Byte) /\ r.buf \in Seq(Byte)
  BY <1>1 DEF RioCall
<1>3. ASSUME ~r2.calling PROVE HasLine(r2)
  <2>1. Piece(s, r2.got) /\ r2.rc = Len(r2.got)
    BY <1>3 DEF CallsOn
  <2>2. IsLine(r2.got)
    BY <1>2, <2>1, PieceIsLine
  <2>3. Len(r2.got) > 0
    BY <1>2, <2>2 DEF IsLine
  <2> QED
    BY <2>1, <2>2, <2>3 DEF HasLine
<1> QED
  BY <1>1, <1>3

\* It takes what it returns from the stream.
LEMMA MoreRead ==
    ASSUME NEW s \in Requests, NEW r \in RioCall, NEW r2, NEW k \in Seq(Byte), NEW k2,
           CallOK(s, r), r.calling, ReadsOn(s, r, k, r2, k2)
    PROVE  r2.got \o r2.buf \o k2 = r.got \o r.buf \o k /\ (~r2.calling => HasLine(r2))
<1>1. r2 \in RioCall /\ (r2.got \o r2.buf) \o k2 = r.got \o k
  BY DEF ReadsOn, CallOK
<1>2. r2.got \in Seq(Byte) /\ r2.buf \in Seq(Byte) /\ r.got \in Seq(Byte)
  BY <1>1 DEF RioCall
<1>3. r.got \o r.buf = r.got
  BY <1>2, ConcatEmptySeq DEF CallOK
<1>4. ASSUME ~r2.calling PROVE HasLine(r2)
  <2>1. Piece(s, r2.got) /\ r2.rc = Len(r2.got)
    BY <1>4 DEF ReadsOn
  <2>2. IsLine(r2.got)
    BY <1>2, <2>1, PieceIsLine
  <2>3. Len(r2.got) > 0
    BY <1>2, <2>2 DEF IsLine
  <2> QED
    BY <2>1, <2>2, <2>3 DEF HasLine
<1> QED
  BY <1>1, <1>3, <1>4

\* tiny reads what it was sent, to its end, and no further.
LEMMA TinyReads ==
    ASSUME ControlInv, ControlInv', FirstInv, TextInv, TakenInv, TinyReadsInv, DoneInv,
           TinyStep, UNCHANGED <<proxyVars, clientVars>>
    PROVE  TinyReadsInv'
<1>0. /\ proxy' = proxy /\ asked' = asked /\ phase' = phase /\ script' = script
      /\ TinyUp /\ TinyDoes
      /\ tinyQueue \in Seq(Requests) /\ Distinct(tinyQueue) /\ \A s \in ToSet(tinyQueue) : rio[s] = NoCall
  BY TinyFrame, TinyIs DEF proxyVars, clientVars, TinyTouches, ControlInv, TypeInv, TinyQueueInv
<1> SUFFICES ASSUME TinyUp', NEW c \in Proxied, Relaying(c)', Present(c)', TinyAt(ForwardOf(c))'
             PROVE  LET s == ForwardOf(c) IN
                    /\ tiny'.pc \in {"requestline", "headers"} => AtLine(s, asked[c])'
                    /\ tiny'.pc \in {"requestline", "headers"} /\ ~rio'[s].calling => HasLine(rio'[s])
                    /\ tiny'.pc \in {"write", "wait"} => kernel'[s] = <<>>
  BY DEF TinyReadsInv
<1>1. Relaying(c) /\ Present(c) /\ ProxyUp /\ peer[ForwardOf(c)] = "open"
  <2>1. Relaying(c) /\ Present(c)
    BY <1>0 DEF Relaying, Present
  <2> QED
    BY <2>1, RelayingIs
<1>2. PICK s : s = ForwardOf(c)
  OBVIOUS
<1>3. PICK b \in Seq(Byte) : b = asked[c] /\ b = asked'[c] /\ IsWhole(b)
  BY <1>0, <1>1, AskedIs
<1>4. /\ s \in Streams /\ s \in Requests /\ CallOK(s, rio[s]) /\ rio[s] \in RioCall /\ kernel[s] \in Seq(Byte)
      /\ rio[s].got \in Seq(Byte) /\ rio[s].buf \o kernel[s] \in Seq(Byte)
      /\ Rest(s) = rio[s].got \o (rio[s].buf \o kernel[s])
      /\ kernel \in [Streams -> Seq(Byte)] /\ rio \in [Streams -> RioCall]
  BY <1>2, ForwardIs DEF ControlInv, RioInv
<1> DEFINE At(rest) == \E D \in SUBSET (0..Len(Body(b))) : CutAt(Body(b), D) /\ \E d \in D : rest = SubSeq(b, d + 1, Len(b))
           Goal == /\ tiny'.pc \in {"requestline", "headers"} =>
                        At(rio'[s].got \o rio'[s].buf \o kernel'[s]) /\ (~rio'[s].calling => HasLine(rio'[s]))
                   /\ tiny'.pc \in {"write", "wait"} => kernel'[s] = <<>>
<1>5. Goal => /\ tiny'.pc \in {"requestline", "headers"} => AtLine(ForwardOf(c), asked[c])'
              /\ tiny'.pc \in {"requestline", "headers"} /\ ~rio'[s].calling => HasLine(rio'[s])
              /\ tiny'.pc \in {"write", "wait"} => kernel'[s] = <<>>
  <2>1. AtLine(ForwardOf(c), asked[c])' <=> At(rio'[s].got \o rio'[s].buf \o kernel'[s])
    BY <1>2, <1>3 DEF AtLine, Rest
  <2> HIDE DEF At
  <2> QED
    BY <2>1
<1> HIDE DEF At
<1>6. ASSUME TinyAt(s)
      PROVE  /\ tiny.pc \in {"requestline", "headers"} => At(Rest(s)) /\ (~rio[s].calling => HasLine(rio[s]))
             /\ tiny.pc \in {"write", "wait"} => kernel[s] = <<>>
  <2>1. /\ tiny.pc \in {"requestline", "headers"} => AtLine(s, asked[c])
        /\ tiny.pc \in {"requestline", "headers"} /\ ~rio[s].calling => HasLine(rio[s])
        /\ tiny.pc \in {"write", "wait"} => kernel[s] = <<>>
    BY <1>0, <1>1, <1>2, <1>6 DEF TinyReadsInv
  <2> QED
    BY <1>3, <2>1 DEF AtLine, At
<1>7. ASSUME TinyAt(s), tiny.pc \in {"requestline", "headers"}, ~rio[s].calling
      PROVE IF rio[s].got = CRLF THEN rio[s].buf \o kernel[s] = <<>> ELSE At(rio[s].buf \o kernel[s])
  <2>1. At(rio[s].got \o (rio[s].buf \o kernel[s])) /\ IsLine(rio[s].got)
    BY <1>4, <1>6, <1>7 DEF HasLine
  <2>2. PICK got \in Seq(Byte), rest \in Seq(Byte) : got = rio[s].got /\ rest = rio[s].buf \o kernel[s]
    BY <1>4
  <2>3. PICK D \in SUBSET (0..Len(Body(b))) : CutAt(Body(b), D) /\ \E d \in D : got \o rest = SubSeq(b, d + 1, Len(b))
    BY <2>1, <2>2 DEF At
  <2>4. PICK d \in D : got \o rest = SubSeq(b, d + 1, Len(b))
    BY <2>3
  <2>5. Advances(b, D, got, rest)
    <3>1. LineIn(b, D, d, got, rest)
      BY <1>3, <2>1, <2>2, <2>3, <2>4 DEF LineIn
    <3> QED
      BY <3>1, LineAdvance
  <2>6. IF got = CRLF THEN rest = <<>> ELSE At(rest)
    BY <2>3, <2>5 DEF At, Advances
  <2> QED
    BY <2>2, <2>6
<1>8. CASE TinyTakes
  <2>1. s = Head(tinyQueue) /\ tiny'.pc = "requestline" /\ rio' = Called(s) /\ kernel' = kernel
    BY <1>2, <1>8 DEF TinyTakes, TinyAt
  <2>2. s \in ToSet(tinyQueue)
    BY <1>0, <1>8, <2>1, QueueTaken DEF TinyTakes
  <2>3. kernel[s] = b /\ rio[s] = NoCall
    BY <1>0, <1>1, <1>2, <1>3, <2>2 DEF FirstInv
  <2>4. PICK r2 : r2 = rio'[s]
    OBVIOUS
  <2>5. r2 = Copied(s, [NoCall EXCEPT !.got = <<>>])
    BY <1>4, <2>1, <2>3, <2>4 DEF Called
  <2>6. r2.calling /\ r2.got = <<>>
    BY <1>4, <2>5, FirstCallWaits
  <2>7. r2.buf = <<>>
    BY <1>4, <2>4, <2>6 DEF ControlInv, RioInv, CallOK
  <2>8. r2.got \o r2.buf \o kernel'[s] = b
    <3>1. PICK none \in Seq(Byte) : none = <<>>
      BY NothingCut
    <3>2. none \o none = none /\ none \o b = b
      BY <3>1, ConcatEmptySeq
    <3> QED
      BY <2>1, <2>3, <2>6, <2>7, <3>1, <3>2
  <2>9. At(b)
    <3>1. PICK D \in SUBSET (0..Len(Body(b))) : CutAt(Body(b), D)
      BY <1>3, BodyIs
    <3>2. 0 \in D /\ b = SubSeq(b, 0 + 1, Len(b))
      BY <3>1 DEF CutAt
    <3> QED
      BY <3>1, <3>2 DEF At
  <2>10. Goal
    BY <2>1, <2>4, <2>6, <2>8, <2>9
  <2> HIDE DEF Goal
  <2> QED
    BY <1>2, <1>5, <2>10
<1>9. CASE TinyPuts
  <2>1. TinyAt(s) /\ tiny.s = s /\ tiny.pc \in {"write", "wait"} /\ tiny'.pc = "write"
    BY <1>2, <1>9 DEF TinyPuts, TinyAt
  <2>2. kernel'[s] = kernel[s]
    <3>1. ReplyTo(s) # s
      BY <1>2, <1>4, Names
    <3> QED
      BY <1>4, <1>9, <2>1, <3>1 DEF TinyPuts, Written
  <2>3. Goal
    BY <1>6, <2>1, <2>2
  <2> HIDE DEF Goal
  <2> QED
    BY <1>2, <1>5, <2>3
<1>10. CASE TinyHears
  <2>1. TinyAt(s) /\ tiny.s = s /\ tiny.pc \in {"requestline", "headers"} /\ tiny' = tiny /\ Read(s)
    BY <1>2, <1>10 DEF TinyHears, TinyAt, tinyVars
  <2>2. Reading(s) /\ rio[s].calling
    BY <1>4, <2>1, OneRead DEF ControlInv
  <2>3. ReadsOn(s, rio[s], kernel[s], rio'[s], kernel'[s])
    BY <1>1, <1>2, <2>2 DEF Reading
  <2>4. PICK r, r2, k2 : r = rio[s] /\ r2 = rio'[s] /\ k2 = kernel'[s]
    OBVIOUS
  <2>5. r2.got \o r2.buf \o k2 = Rest(s) /\ (~r2.calling => HasLine(r2))
    <3>1. PICK k \in Seq(Byte) : k = kernel[s]
      BY <1>4
    <3>2. r \in RioCall /\ CallOK(s, r) /\ r.calling /\ ReadsOn(s, r, k, r2, k2)
      BY <1>4, <2>2, <2>3, <2>4, <3>1
    <3>3. r2.got \o r2.buf \o k2 = r.got \o r.buf \o k /\ (~r2.calling => HasLine(r2))
      BY <1>4, <3>2, MoreRead
    <3> QED
      BY <2>4, <3>1, <3>3 DEF Rest
  <2>6. Goal
    BY <1>6, <2>1, <2>4, <2>5
  <2> HIDE DEF Goal
  <2> QED
    BY <1>2, <1>5, <2>6
<1>11. CASE TinyAsks
  <2>1. /\ TinyAt(s) /\ tiny.s = s /\ tiny.pc \in {"requestline", "headers"} /\ tiny'.pc = "headers"
        /\ ~rio[s].calling /\ rio' = Called(s) /\ kernel' = kernel
        /\ tiny.pc = "headers" => rio[s].got # CRLF
    BY <1>2, <1>11 DEF TinyAsks, TinyAt
  <2>2. rio[s].got # CRLF
    BY <1>0, <1>1, <1>2, <1>6, <2>1, AskedIs
  <2>3. At(rio[s].buf \o kernel[s])
    BY <1>7, <2>1, <2>2
  <2>4. PICK r \in RioCall, k \in Seq(Byte), r2 \in {rio'[s]} : r = rio[s] /\ k = kernel[s] /\ r2 = rio'[s]
    BY <1>4
  <2>5. r2 = Copied(s, [r EXCEPT !.got = <<>>])
    BY <1>4, <2>1, <2>4 DEF Called
  <2>6. CallsOn(s, r, r2)
    BY <1>4, <2>5, CallIs
  <2>7. r2.got \o r2.buf \o k = r.buf \o k /\ (~r2.calling => HasLine(r2))
    BY <1>4, <2>6, NextLine
  <2>8. Goal
    BY <2>1, <2>3, <2>4, <2>7
  <2> HIDE DEF Goal
  <2> QED
    BY <1>2, <1>5, <2>8
<1>12. CASE TinyTurns
  <2>1. TinyAt(s) /\ tiny.s = s /\ rio' = rio /\ kernel' = kernel
    BY <1>2, <1>12, <1>0 DEF TinyTurns, TinyAt, rioVars, ControlInv
  <2>2. CASE /\ tiny.pc = "requestline" /\ ~rio[tiny.s].calling /\ tiny'.pc = "write"
             /\ \E text \in Texts(rio[tiny.s].got) : RequestLines[text].method # "GET"
    BY <1>0, <1>1, <1>2, <1>6, <2>1, <2>2, AskedIs
  <2>3. CASE /\ tiny.pc = "headers" /\ ~rio[tiny.s].calling
             /\ \/ tiny'.pc = "write" /\ (rio[tiny.s].got = CRLF \/ rio[tiny.s].rc = 0)
                \/ tiny'.pc = "headers" /\ rio[tiny.s].rc = 0
    <3>1. rio[s].rc # 0
      BY <1>6, <2>1, <2>3 DEF HasLine
    <3>2. tiny'.pc = "write" /\ rio[s].got = CRLF
      BY <2>1, <2>3, <3>1
    <3>3. rio[s].buf \o kernel[s] = <<>>
      BY <1>7, <2>1, <2>3, <3>2
    <3>4. kernel[s] = <<>>
      BY <1>4, <3>3, ConcatEqualIffEmpty DEF RioCall
    <3>5. Goal
      BY <2>1, <3>2, <3>4
    <3> HIDE DEF Goal
    <3> QED
      BY <1>2, <1>5, <3>5
  <2>4. CASE tiny.pc \in {"write", "wait"} /\ tiny'.pc \in {"write", "wait"}
    <3>1. Goal
      BY <1>6, <2>1, <2>4
    <3> HIDE DEF Goal
    <3> QED
      BY <1>2, <1>5, <3>1
  <2> QED
    BY <1>12, <2>2, <2>3, <2>4 DEF TinyTurns
<1>13. CASE TinyLeaves
  <2>1. tiny.pc \notin {"accept", "down"} /\ (TinyCloses \/ TinyExits)
    BY <1>13 DEF TinyLeaves
  <2>2. tiny'.pc \in {"accept", "down"}
    BY <2>1, HangupQuiet
  <2> QED
    BY <2>2 DEF TinyAt, TinyUp
<1> QED
  BY <1>0, <1>8, <1>9, <1>10, <1>11, <1>12, <1>13 DEF TinyDoes

-----------------------------------------------------------------------------
\* Clients do nothing between the proxy and tiny.
ClientEffect ==
    /\ ClientTouches /\ sent' = sent
    /\ \A c \in Proxied : Quiet(ReplyOf(c))

\* Neither when they connect or leave.
LEMMA ClientEffects ==
    ASSUME ControlInv, (\E c \in Clients : Send(c) \/ Leave(c)) \/ UNCHANGED vars
    PROVE  ClientEffect
<1>0. RioInv
  BY DEF ControlInv
<1>1. ASSUME NEW d \in Clients, Send(d) PROVE sent' = sent /\ \A c \in Proxied : Quiet(ReplyOf(c))
  <2>1. PICK s \in Streams : s = RequestOf(d)
    BY Names
  <2>2. PICK bytes : kernel' = [kernel EXCEPT ![s] = bytes] /\ peer' = peer /\ rio' = rio /\ sent' = sent
    BY <1>1, <2>1 DEF Send, connVars
  <2>3. \A c \in Proxied : ReplyOf(c) \in Streams /\ ReplyOf(c) # s
    BY <2>1, Names
  <2> QED
    BY <1>0, <2>2, <2>3 DEF RioInv, Quiet
<1>2. ASSUME NEW d \in Clients, Leave(d) PROVE sent' = sent /\ \A c \in Proxied : Quiet(ReplyOf(c))
  <2>1. PICK s \in Streams : s = RequestOf(d)
    BY Names
  <2>2. PICK end : peer' = [peer EXCEPT ![s] = end] /\ kernel' = kernel /\ rio' = rio /\ sent' = sent
    BY <1>2, <2>1 DEF Leave, connVars
  <2>3. \A c \in Proxied : ReplyOf(c) \in Streams /\ ReplyOf(c) # s
    BY <2>1, Names
  <2> QED
    BY <1>0, <2>2, <2>3 DEF RioInv, Quiet
<1>3. CASE UNCHANGED vars
  BY <1>3, StutterTouches DEF vars, rioVars, connVars, Quiet, ClientEffect
<1> QED
  BY <1>1, <1>2, <1>3, SendTouches, LeaveTouches DEF ClientEffect

\* So the whole stays when they do.
LEMMA ClientForward ==
    ASSUME ControlInv, ForwardInv, ClientEffect
    PROVE  ForwardInv'
<1>0. /\ proxy' = proxy /\ tiny' = tiny /\ rio' = rio /\ over' = over /\ asked' = asked
      /\ script' = script /\ sent' = sent /\ Here' = Here
  BY DEF ClientTouches, ClientEffect, Here
<1>1. /\ \A c \in Proxied : Present(c)' => Present(c)
      /\ \A c \in Proxied : Gets(c) \subseteq Gets(c)'
      /\ \A c : (Relaying(c)' <=> Relaying(c)) /\ (Connected(c)' <=> Connected(c)) /\ (ProxyAt(c)' <=> ProxyAt(c))
      /\ \A s : TinyAt(s)' <=> TinyAt(s)
      /\ TinyUp' <=> TinyUp
  BY <1>0, GetsGrow, Names
     DEF ClientTouches, ClientEffect, Present, Relaying, Connected, ProxyAt, TinyAt, TinyUp
<1>2. \A c \in Proxied : /\ kernel'[ForwardOf(c)] = kernel[ForwardOf(c)] /\ kernel'[ReplyOf(c)] = kernel[ReplyOf(c)]
                         /\ peer'[ReplyOf(c)] = peer[ReplyOf(c)]
  BY DEF ClientTouches, ClientEffect, Quiet
<1>3. \A c \in Proxied : ForwardOf(c) \in ToSet(tinyQueue') => ForwardOf(c) \in ToSet(tinyQueue)
  BY Names DEF ClientTouches, ClientEffect, Arriving
<1>4. proxy.pc # "accept" => proxy.c \in Proxied
  BY DEF ControlInv, ServingInv
<1>5. TakenInv'
  BY <1>0, <1>1, <1>4 DEF TakenInv, ForwardInv, HasLine
<1>6. TinyReadsInv'
  <2> SUFFICES ASSUME TinyUp', NEW c \in Proxied, Relaying(c)', Present(c)', TinyAt(ForwardOf(c))'
               PROVE  LET s == ForwardOf(c) IN
                      /\ tiny'.pc \in {"requestline", "headers"} => AtLine(s, asked[c])'
                      /\ tiny'.pc \in {"requestline", "headers"} /\ ~rio'[s].calling => HasLine(rio'[s])
                      /\ tiny'.pc \in {"write", "wait"} => kernel'[s] = <<>>
    BY DEF TinyReadsInv
  <2>1. TinyUp /\ Relaying(c) /\ Present(c) /\ TinyAt(ForwardOf(c))
    BY <1>1
  <2>2. /\ tiny.pc \in {"requestline", "headers"} => AtLine(ForwardOf(c), asked[c])
        /\ tiny.pc \in {"requestline", "headers"} /\ ~rio[ForwardOf(c)].calling => HasLine(rio[ForwardOf(c)])
        /\ tiny.pc \in {"write", "wait"} => kernel[ForwardOf(c)] = <<>>
    BY <2>1 DEF TinyReadsInv, ForwardInv
  <2>3. AtLine(ForwardOf(c), asked[c]) => AtLine(ForwardOf(c), asked[c])'
    BY <1>0, <1>2 DEF AtLine, Rest
  <2> QED
    BY <1>0, <1>2, <2>2, <2>3
<1>7. DoneInv'
  <2>1. ASSUME NEW c \in Proxied, over'[RequestOf(c)] = "served" \/ (asked'[c] = <<>> /\ ~Connected(c)')
        PROVE  TinyUp' => ForwardOf(c) \notin ToSet(tinyQueue') /\ ~TinyAt(ForwardOf(c))'
    BY <1>0, <1>1, <1>3, <2>1 DEF DoneInv, ForwardInv
  <2>2. ASSUME NEW c \in Proxied, asked'[c] = <<>>
        PROVE  sent'[ForwardOf(c)] = <<>> /\ kernel'[ReplyOf(c)] = <<>> /\ rio'[ReplyOf(c)].buf = <<>>
    BY <1>0, <1>2, <2>2 DEF DoneInv, ForwardInv
  <2>3. \A c \in Proxied : Relaying(c)' => asked'[c] # <<>>
    BY <1>0, <1>1 DEF DoneInv, ForwardInv
  <2>4. ASSUME proxy'.pc = "relay", ~rio'[ReplyOf(proxy'.c)].calling, rio'[ReplyOf(proxy'.c)].rc <= 0
        PROVE  /\ peer'[ReplyOf(proxy'.c)] # "open" /\ kernel'[ReplyOf(proxy'.c)] = <<>>
               /\ rio'[ReplyOf(proxy'.c)].got = <<>> /\ rio'[ReplyOf(proxy'.c)].buf = <<>>
    <3>1. PICK c \in Proxied : c = proxy.c
      BY <1>0, <1>4, <2>4
    <3> QED
      BY <1>0, <1>2, <2>4, <3>1 DEF DoneInv, ForwardInv
  <2> QED
    BY <2>1, <2>2, <2>3, <2>4 DEF DoneInv
<1>8. DroppedInv'
  BY <1>0, <1>1 DEF DroppedInv, ForwardInv
<1>9. ResetInv'
  BY <1>0, <1>1, <1>2 DEF ResetInv, ForwardInv
<1>10. OwnInv'
  <2>1. ASSUME NEW c \in Proxied, over'[RequestOf(c)] = "no", ~(ProxyAt(c)' /\ proxy'.pc # "requestline")
        PROVE  sent'[RequestOf(c)] = <<>>
    BY <1>0, <1>1, <2>1 DEF OwnInv, ForwardInv
  <2>2. ASSUME proxy'.pc # "accept", Present(proxy.c)'
        PROVE  /\ proxy'.pc = "write" /\ proxy'.then = "headers" =>
                    sent'[Here] \o FlattenSeq(proxy'.out) = Own(RequestLines[proxy'.text])
               /\ proxy'.pc \in {"headers", "connect", "send"} => sent'[Here] = Own(RequestLines[proxy'.text])
    <3>1. Present(proxy.c) /\ proxy.pc # "accept"
      BY <1>0, <1>1, <1>4, <2>2
    <3> QED
      BY <1>0, <3>1 DEF OwnInv, ForwardInv
  <2> QED
    BY <1>0, <2>1, <2>2 DEF OwnInv, Own
<1>11. RelayInv'
  <2>1. \A c \in Proxied : InHand(c)' = InHand(c)
    BY <1>0, <1>1, <1>2 DEF InHand
  <2> SUFFICES ASSUME NEW c \in Proxied, asked'[c] # <<>>, Present(c)'
               PROVE  \E r \in Gets(c)' : \E x, y \in Seq(Byte) :
                        /\ sent'[RequestOf(c)] = Own(r) \o x
                        /\ sent'[ForwardOf(c)] = x \o InHand(c)' \o y
                        /\ y = <<>> \/ over'[ForwardOf(c)] = "dropped"
    BY DEF RelayInv, Own
  <2>2. \E r \in Gets(c) : \E x, y \in Seq(Byte) :
                        /\ sent[RequestOf(c)] = Own(r) \o x
                        /\ sent[ForwardOf(c)] = x \o InHand(c) \o y
                        /\ y = <<>> \/ over[ForwardOf(c)] = "dropped"
    BY <1>0, <1>1 DEF RelayInv, ForwardInv
  <2> QED
    BY <1>0, <1>1, <2>1, <2>2
<1> QED
  BY <1>5, <1>6, <1>7, <1>8, <1>9, <1>10, <1>11 DEF ForwardInv

-----------------------------------------------------------------------------
\* One step of the proxy.  It takes a connection from the queue,
ProxyTakesOne ==
    /\ proxy.pc = "accept" /\ proxy'.pc = "requestline" /\ proxy'.c \in Proxied
    /\ rio'[RequestOf(proxy'.c)].calling
    /\ UNCHANGED <<kernel, peer, connVars, tinyQueue, asked>>
\* writes to its client,
ProxyPuts ==
    /\ proxy.pc = "write" /\ proxy.out # <<>> /\ proxy'.pc = "write" /\ proxy'.out = Tail(proxy.out)
    /\ proxy'.then = proxy.then /\ proxy'.text = proxy.text
    /\ UNCHANGED <<kernel, rio, over, tinyQueue, asked>>
    /\ peer'[ReplyOf(proxy.c)] = peer[ReplyOf(proxy.c)]
    /\ Present(proxy.c) => sent'[Here] = sent[Here] \o Head(proxy.out)
\* turns to something else,
ProxyTurns ==
    /\ UNCHANGED <<rioVars, connVars, tinyQueue, asked>>
    /\ \/ /\ proxy.pc = "requestline" /\ ~rio[Here].calling /\ proxy'.pc = "write"
          /\ \/ proxy'.then = "close"
             \/ proxy'.then = "headers" /\ proxy'.out = modify_http_version(RequestLines[proxy'.text])
       \/ /\ proxy.pc = "headers" /\ ~rio[Here].calling /\ proxy'.pc = "connect"
          /\ rio[Here].got = CRLF \/ rio[Here].rc = -1
          /\ proxy'.text = proxy.text /\ proxy'.request = WithAdded(proxy.request)
       \/ /\ proxy.pc = "relay" /\ ~rio[ReplyOf(proxy.c)].calling /\ rio[ReplyOf(proxy.c)].rc # 0
          /\ proxy'.pc = "write" /\ proxy'.then = "relay"
          /\ proxy'.out = IF rio[ReplyOf(proxy.c)].rc = -1 THEN <<>> ELSE <<rio[ReplyOf(proxy.c)].got>>
\* calls Rio,
ProxyAsksRio ==
    /\ UNCHANGED <<kernel, peer, connVars, tinyQueue, asked>>
    /\ \/ /\ proxy.pc = "write" /\ proxy.out = <<>> /\ proxy.then = "headers" /\ proxy'.pc = "headers"
          /\ proxy'.text = proxy.text /\ proxy'.request = <<RequestLines[proxy.text].file>> \o CRLF
          /\ rio' = Called(Here)
       \/ /\ proxy.pc = "headers" /\ ~rio[Here].calling /\ rio[Here].got # CRLF /\ proxy'.pc = "headers"
          /\ proxy'.text = proxy.text /\ proxy'.request = proxy.request \o rio[Here].got
          /\ rio' = Called(Here)
       \/ /\ proxy.pc = "write" /\ proxy.out = <<>> /\ proxy.then = "relay" /\ proxy'.pc = "relay"
          /\ rio' = Called(ReplyOf(proxy.c))
\* connects,
ProxyConnects ==
    /\ proxy.pc = "connect" /\ proxy'.pc = "send"
    /\ proxy'.text = proxy.text /\ proxy'.request = proxy.request
    /\ tinyQueue' = Append(tinyQueue, ForwardOf(proxy.c))
    /\ UNCHANGED <<rioVars, connVars, asked>>
\* sends the request,
ProxyAsksTiny ==
    /\ proxy.pc = "send" /\ proxy'.pc = "write" /\ proxy'.then = "relay" /\ proxy'.out = <<>>
    /\ asked'[proxy.c] = proxy.request
    /\ peer[ReplyOf(proxy.c)] = "open" =>
         kernel'[ForwardOf(proxy.c)] = kernel[ForwardOf(proxy.c)] \o proxy.request
    /\ kernel'[ReplyOf(proxy.c)] = kernel[ReplyOf(proxy.c)]
    /\ peer'[ReplyOf(proxy.c)] # "reset"
    /\ UNCHANGED <<rio, connVars, tinyQueue>>
\* reads,
ProxyHears ==
    /\ proxy' = proxy /\ UNCHANGED <<connVars, tinyQueue, asked>>
    /\ kernel'[ForwardOf(proxy.c)] = kernel[ForwardOf(proxy.c)]
    /\ \/ proxy.pc \in {"requestline", "headers"} /\ Reading(Here) /\ Quiet(ReplyOf(proxy.c))
       \/ proxy.pc = "relay" /\ Reading(ReplyOf(proxy.c))
\* closes the connection,
ProxyLetsGo ==
    /\ proxy'.pc = "accept" /\ over'[Here] = "served"
    /\ \A d \in Proxied : d # proxy.c => over'[RequestOf(d)] = over[RequestOf(d)]
    /\ UNCHANGED <<rioVars, sent, tinyQueue, asked>>
    /\ \/ proxy.pc \in {"requestline", "headers"}
       \/ proxy.pc = "write" /\ proxy.then = "close"
       \/ proxy.pc = "relay" /\ ~rio[ReplyOf(proxy.c)].calling /\ rio[ReplyOf(proxy.c)].rc = 0
\* or ends.
ProxyDies ==
    /\ proxy'.pc = "down" /\ over'[Here] = "dropped"
    /\ \A d \in Proxied : over'[RequestOf(d)] = over[RequestOf(d)]
                          \/ (over[RequestOf(d)] = "no" /\ over'[RequestOf(d)] = "dropped")
    /\ UNCHANGED <<kernel, rio, sent, tinyQueue, asked>>
    /\ peer'[ReplyOf(proxy.c)] = peer[ReplyOf(proxy.c)]
    /\ \/ proxy.pc = "write" /\ (peer[Here] = "reset" \/ proxy.then = "headers")
       \/ proxy.pc = "connect"
       \/ proxy.pc = "send" /\ peer[ReplyOf(proxy.c)] = "reset"

ProxyServes ==
    /\ proxy.pc \notin {"accept", "down"} /\ proxy.c \in Proxied
    /\ proxy'.pc # "accept" => proxy'.c = proxy.c
    /\ ProxyPuts \/ ProxyTurns \/ ProxyAsksRio \/ ProxyConnects \/ ProxyAsksTiny \/ ProxyHears
       \/ ProxyLetsGo \/ ProxyDies

\* It has nothing to do with the streams of another client.
Alone(d) ==
    /\ rio'[ReplyOf(d)] = rio[ReplyOf(d)] /\ kernel'[ReplyOf(d)] = kernel[ReplyOf(d)]
    /\ peer'[ReplyOf(d)] = peer[ReplyOf(d)] /\ kernel'[ForwardOf(d)] = kernel[ForwardOf(d)]
    /\ asked'[d] = asked[d] /\ sent'[RequestOf(d)] = sent[RequestOf(d)]
ProxyLeavesTiny ==
    /\ tiny' = tiny /\ phase' = phase /\ script' = script
    /\ \A d \in Proxied : /\ rio'[ForwardOf(d)] = rio[ForwardOf(d)] /\ sent'[ForwardOf(d)] = sent[ForwardOf(d)]
                          /\ over'[ForwardOf(d)] = over[ForwardOf(d)]
ProxyIsDoing ==
    /\ ProxyLeavesTiny
    /\ \A d \in Proxied : proxy.pc = "accept" \/ d # proxy.c => Alone(d)
    /\ ProxyTakesOne \/ ProxyServes

\* The streams of the client that the proxy serves.
LEMMA Served ==
    ASSUME ControlInv, proxy.pc # "accept"
    PROVE  /\ proxy.c \in Proxied /\ proxy.c \in Clients /\ proxy \in ProxyType /\ RioInv
           /\ Here = RequestOf(proxy.c) /\ Here \in Requests /\ Here \in Streams /\ ReplyTo(Here) = NoStream
           /\ ReplyOf(proxy.c) \in Streams /\ ReplyOf(proxy.c) \notin Requests /\ NoStream \notin Streams
           /\ ForwardOf(proxy.c) \in Requests /\ ForwardOf(proxy.c) \in Streams /\ ForwardOf(proxy.c) # Here
           /\ \A d \in Proxied : /\ RequestOf(d) \in Requests /\ RequestOf(d) \in Streams
                                 /\ ForwardOf(d) \in Requests /\ ForwardOf(d) \in Streams
                                 /\ ReplyOf(d) \in Streams
                                 /\ ForwardOf(d) # Here /\ ForwardOf(d) # ReplyOf(proxy.c) /\ ReplyOf(d) # Here
                                 /\ ReplyOf(d) # ForwardOf(proxy.c) /\ RequestOf(d) # ReplyOf(proxy.c)
                                 /\ RequestOf(d) # ForwardOf(proxy.c)
           /\ \A d \in Proxied : d # proxy.c =>
                /\ RequestOf(d) # Here /\ ReplyOf(d) # ReplyOf(proxy.c) /\ ForwardOf(d) # ForwardOf(proxy.c)
           /\ (peer[Here] = "open" <=> Present(proxy.c))
<1>1. proxy.c \in Proxied /\ proxy.c \in Clients /\ proxy \in ProxyType /\ RioInv
  BY Names DEF ControlInv, TypeInv, ServingInv
<1>2. Here = RequestOf(proxy.c)
  BY DEF Here
<1> HIDE DEF Here
<1>3. /\ Here \in Requests /\ Here \in Streams /\ ReplyTo(Here) = NoStream
      /\ ReplyOf(proxy.c) \in Streams /\ ReplyOf(proxy.c) \notin Requests /\ NoStream \notin Streams
      /\ ForwardOf(proxy.c) \in Requests /\ ForwardOf(proxy.c) \in Streams /\ ForwardOf(proxy.c) # Here
  BY <1>1, <1>2, Names
<1>4. ASSUME NEW d \in Proxied
      PROVE  /\ RequestOf(d) \in Requests /\ RequestOf(d) \in Streams
             /\ ForwardOf(d) \in Requests /\ ForwardOf(d) \in Streams
             /\ ReplyOf(d) \in Streams
             /\ ForwardOf(d) # Here /\ ForwardOf(d) # ReplyOf(proxy.c) /\ ReplyOf(d) # Here
             /\ ReplyOf(d) # ForwardOf(proxy.c) /\ RequestOf(d) # ReplyOf(proxy.c)
             /\ RequestOf(d) # ForwardOf(proxy.c)
             /\ d # proxy.c => /\ RequestOf(d) # Here /\ ReplyOf(d) # ReplyOf(proxy.c)
                               /\ ForwardOf(d) # ForwardOf(proxy.c)
  BY <1>1, <1>2, Names
<1>5. peer[Here] = "open" <=> Present(proxy.c)
  BY <1>1, <1>2 DEF ControlInv, PeerInv, Present
<1> QED
  BY <1>1, <1>2, <1>3, <1>4, <1>5

\* The record in its forms, with what is to be written.
ProxyHas(q, pc, c, out, then, text, request) ==
    q.pc = pc /\ q.c = c /\ q.out = out /\ q.then = then /\ q.text = text /\ q.request = request
\* What the steps of the proxy make of its record.
LEMMA ProxyForms ==
    ASSUME NEW p \in ProxyType
    PROVE  /\ \A pc : ProxyHas([p EXCEPT !.pc = pc], pc, p.c, p.out, p.then, p.text, p.request)
           /\ \A out, then : ProxyHas([p EXCEPT !.pc = "write", !.out = out, !.then = then],
                                      "write", p.c, out, then, p.text, p.request)
           /\ \A out, then : ProxyHas([p EXCEPT !.pc = "write", !.then = then, !.out = out],
                                      "write", p.c, out, then, p.text, p.request)
           /\ \A out : ProxyHas([p EXCEPT !.out = out], p.pc, p.c, out, p.then, p.text, p.request)
           /\ \A out, text, at :
                ProxyHas([p EXCEPT !.pc = "write", !.then = "headers", !.out = out, !.text = text, !.at = at],
                         "write", p.c, out, "headers", text, p.request)
           /\ \A f, request : ProxyHas([p EXCEPT !.pc = "headers", !.first = f, !.request = request],
                                       "headers", p.c, p.out, p.then, p.text, request)
           /\ \A f, request : ProxyHas([p EXCEPT !.first = f, !.request = request],
                                       p.pc, p.c, p.out, p.then, p.text, request)
           /\ \A request : ProxyHas([p EXCEPT !.pc = "connect", !.request = request],
                                    "connect", p.c, p.out, p.then, p.text, request)
           /\ \A c : ProxyHas([p EXCEPT !.pc = "requestline", !.c = c],
                              "requestline", c, p.out, p.then, p.text, p.request)
  BY DEF ProxyHas, ProxyType

\* Other streams are left alone.
LEMMA OthersAlone ==
    ASSUME ControlInv, proxy.pc # "accept", tiny' = tiny, phase' = phase, script' = script,
           \A p \in Streams : p \notin {Here, ReplyOf(proxy.c), ForwardOf(proxy.c)} => Quiet(p),
           rio'[ForwardOf(proxy.c)] = rio[ForwardOf(proxy.c)],
           \A s \in Requests : s # Here => sent'[s] = sent[s],
           \A d \in Proxied : over'[ForwardOf(d)] = over[ForwardOf(d)],
           \A d \in Proxied : d # proxy.c => asked'[d] = asked[d]
    PROVE  ProxyLeavesTiny /\ \A d \in Proxied : d # proxy.c => Alone(d)
<1>1. ASSUME NEW d \in Proxied
      PROVE /\ rio'[ForwardOf(d)] = rio[ForwardOf(d)] /\ sent'[ForwardOf(d)] = sent[ForwardOf(d)]
            /\ over'[ForwardOf(d)] = over[ForwardOf(d)]
  BY Served DEF Quiet
<1>2. ASSUME NEW d \in Proxied, d # proxy.c PROVE Alone(d)
  BY <1>2, Served DEF Quiet, Alone
<1> QED
  BY <1>1, <1>2 DEF ProxyLeavesTiny

\* It accepts a connection.
LEMMA AcceptIs ==
    ASSUME ControlInv, ProxyAccept
    PROVE  ProxyIsDoing
<1>0. RioInv /\ proxy \in ProxyType /\ proxyQueue \in Seq(Requests)
  BY DEF ControlInv, TypeInv
<1>1. /\ proxy.pc = "accept" /\ proxyQueue' = Tail(proxyQueue) /\ proxyQueue # <<>>
      /\ kernel' = kernel /\ peer' = peer /\ over' = over /\ sent' = sent
      /\ tiny' = tiny /\ tinyQueue' = tinyQueue /\ asked' = asked /\ script' = script /\ phase' = phase
  BY DEF ProxyAccept, connVars, tinyVars, clientVars
<1>2. PICK s : s = Head(proxyQueue)
  OBVIOUS
<1>2a. ProxyUp
  BY <1>1 DEF ProxyUp
<1>3. PICK c \in Proxied : s = RequestOf(c) /\ rio[s] = NoCall
  <2>1. Distinct(proxyQueue) /\ ToSet(proxyQueue) \subseteq ProxysRequests
    BY <1>2a DEF ControlInv, ProxyQueueInv
  <2>2. s \in ToSet(proxyQueue)
    BY <1>0, <1>1, <1>2, <2>1, QueueTaken
  <2> QED
    BY <2>1, <2>2, <1>2a, Servers DEF ControlInv, ProxyQueueInv
<1>4. s[1] = c /\ s \in Streams /\ s \in Requests /\ c \in Clients
  BY <1>3, Names
<1>5. rio' = Called(s) /\ proxy' = [proxy EXCEPT !.pc = "requestline", !.c = c]
  BY <1>2, <1>3, <1>4 DEF ProxyAccept
<1>6. ProxyHas(proxy', "requestline", c, proxy.out, proxy.then, proxy.text, proxy.request)
  BY <1>0, <1>5, ProxyForms
<1>7. proxy'.pc = "requestline" /\ proxy'.c = c
  BY <1>6 DEF ProxyHas
<1>8. /\ rio'[s] = Copied(s, [NoCall EXCEPT !.got = <<>>])
      /\ \A p \in Streams : p # s => rio'[p] = rio[p]
  BY <1>0, <1>3, <1>4, <1>5 DEF Called, RioInv
<1>9. rio'[s].calling
  BY <1>4, <1>8, FirstCallWaits
<1>10. ProxyTakesOne
  BY <1>1, <1>3, <1>7, <1>9 DEF ProxyTakesOne, connVars
<1>11. \A d \in Proxied : rio'[ForwardOf(d)] = rio[ForwardOf(d)] /\ rio'[ReplyOf(d)] = rio[ReplyOf(d)]
  BY <1>3, <1>4, <1>8, Names
<1>12. ProxyLeavesTiny /\ \A d \in Proxied : Alone(d)
  BY <1>1, <1>11 DEF ProxyLeavesTiny, Alone
<1> QED
  BY <1>10, <1>12 DEF ProxyIsDoing

\* It is done with its client.
LEMMA ClosesIs ==
    ASSUME ControlInv, ProxyCloses, proxy.pc \notin {"accept", "down"},
           \/ proxy.pc \in {"requestline", "headers"}
           \/ proxy.pc = "write" /\ proxy.then = "close"
           \/ proxy.pc = "relay" /\ ~rio[ReplyOf(proxy.c)].calling /\ rio[ReplyOf(proxy.c)].rc = 0
    PROVE  ProxyIsDoing
<1>1. /\ rioVars' = rioVars /\ kernel' = kernel /\ peer' = peer /\ rio' = rio /\ sent' = sent /\ asked' = asked
      /\ tiny' = tiny /\ tinyQueue' = tinyQueue /\ script' = script /\ phase' = phase
      /\ over' = [over EXCEPT ![Here] = "served"] /\ proxy' = [NotRequested EXCEPT !.at = proxy.at]
  BY DEF ProxyCloses, rioVars, tinyVars, clientVars
<1>2. proxy'.pc = "accept"
  BY <1>1, NotRequestedParts
<1>3. over'[Here] = "served" /\ \A s \in Requests : s # Here => over'[s] = over[s]
  <2>1. over \in [Requests -> {"no", "served", "dropped"}] /\ Here \in Requests
    BY Served DEF ControlInv, TypeInv
  <2> HIDE DEF Here
  <2> QED
    BY <1>1, <2>1
<1>4. ProxyLeavesTiny /\ \A d \in Proxied : d # proxy.c => Alone(d)
  <2>1. \A d \in Proxied : over'[ForwardOf(d)] = over[ForwardOf(d)]
    BY <1>3, Served
  <2> QED
    BY <1>1, <2>1, OthersAlone DEF Quiet
<1>5. \A d \in Proxied : d # proxy.c => over'[RequestOf(d)] = over[RequestOf(d)]
  BY <1>3, Served
<1>6. ProxyLetsGo
  BY <1>1, <1>2, <1>3, <1>5 DEF ProxyLetsGo
<1> QED
  BY <1>2, <1>4, <1>6, Served DEF ProxyIsDoing, ProxyServes

\* It goes down.
LEMMA ExitsIs ==
    ASSUME ControlInv, ProxyExits,
           \/ proxy.pc = "write" /\ (peer[Here] = "reset" \/ proxy.then = "headers")
           \/ proxy.pc = "connect"
           \/ proxy.pc = "send" /\ peer[ReplyOf(proxy.c)] = "reset"
    PROVE  ProxyIsDoing
<1>1. /\ proxy' = [proxy EXCEPT !.pc = "down"]
      /\ kernel' = kernel /\ rio' = rio /\ tiny' = tiny /\ tinyQueue' = tinyQueue
      /\ over' = [s \in Requests |-> IF s = Here \/ s \in ToSet(proxyQueue) THEN "dropped" ELSE over[s]]
      /\ sent' = sent /\ proxyQueue' = proxyQueue /\ asked' = asked /\ script' = script /\ phase' = phase
      /\ proxy.pc \notin {"accept", "down"} /\ ProxyUp
  BY DEF ProxyExits, tinyVars, clientVars, ProxyUp
<1>2. ProxyHas(proxy', "down", proxy.c, proxy.out, proxy.then, proxy.text, proxy.request)
  BY <1>1, Served, ProxyForms
<1>3. \A p \in Streams : p # ForwardOf(proxy.c) => peer'[p] = peer[p]
  <2>1. PICK f \in Streams : f = ForwardOf(proxy.c)
    BY <1>1, Served
  <2>2. peer' = peer \/ \E end : peer' = [peer EXCEPT ![f] = end]
    BY <2>1 DEF ProxyExits
  <2> QED
    BY <2>1, <2>2 DEF ControlInv, RioInv
<1>4. over'[Here] = "dropped" /\ \A d \in Proxied : over'[ForwardOf(d)] = over[ForwardOf(d)]
  <2>1. \A d \in Proxied : ForwardOf(d) \notin ToSet(proxyQueue)
    BY <1>1, Servers, Names DEF ControlInv, ProxyQueueInv
  <2>2. \A d \in Proxied : ForwardOf(d) \in Requests /\ ForwardOf(d) # Here
    BY <1>1, Served
  <2>3. Here \in Requests
    BY <1>1, Served
  <2> HIDE DEF Here
  <2> QED
    BY <1>1, <2>1, <2>2, <2>3
<1>5. \A d \in Proxied : over'[RequestOf(d)] = over[RequestOf(d)]
                         \/ (over[RequestOf(d)] = "no" /\ over'[RequestOf(d)] = "dropped")
  <2> SUFFICES ASSUME NEW d \in Proxied
               PROVE  over'[RequestOf(d)] = over[RequestOf(d)]
                      \/ (over[RequestOf(d)] = "no" /\ over'[RequestOf(d)] = "dropped")
    OBVIOUS
  <2>1. RequestOf(d) \in Requests
    BY <1>1, Served
  <2>2. RequestOf(d) = Here \/ RequestOf(d) \in ToSet(proxyQueue) => over[RequestOf(d)] = "no"
    BY <1>1 DEF ControlInv, ProxyQueueInv, ServingInv
  <2>3. over'[RequestOf(d)] = IF RequestOf(d) = Here \/ RequestOf(d) \in ToSet(proxyQueue)
                              THEN "dropped" ELSE over[RequestOf(d)]
    BY <1>1, <2>1
  <2> QED
    BY <2>2, <2>3
<1>6. ProxyLeavesTiny /\ \A d \in Proxied : d # proxy.c => Alone(d)
  BY <1>1, <1>3, <1>4, OthersAlone DEF Quiet
<1>7. peer'[ReplyOf(proxy.c)] = peer[ReplyOf(proxy.c)]
  BY <1>1, <1>3, Served
<1>8. ProxyDies
  BY <1>1, <1>2, <1>4, <1>5, <1>7 DEF ProxyDies, ProxyHas
<1> QED
  BY <1>1, <1>2, <1>6, <1>8, Served DEF ProxyIsDoing, ProxyServes, ProxyHas

\* It goes on without anything else.
LEMMA GoesOnIs ==
    ASSUME ControlInv, NEW state, ProxyGoesOn(state), proxy.pc \notin {"accept", "down"}, state.c = proxy.c,
           ProxyTurns
    PROVE  ProxyIsDoing
<1>1. /\ kernel' = kernel /\ peer' = peer /\ rio' = rio /\ sent' = sent /\ over' = over /\ asked' = asked
      /\ tiny' = tiny /\ tinyQueue' = tinyQueue /\ script' = script /\ phase' = phase /\ proxy' = state
  BY DEF ProxyGoesOn, rioVars, connVars, tinyVars, clientVars
<1>2. ProxyLeavesTiny /\ \A d \in Proxied : d # proxy.c => Alone(d)
  BY <1>1, OthersAlone DEF Quiet
<1> QED
  BY <1>1, <1>2, Served DEF ProxyIsDoing, ProxyServes

\* It looks at the request line.
LEMMA RequestLineIs ==
    ASSUME ControlInv, ProxyRequestLine
    PROVE  ProxyIsDoing
<1>0. proxy.pc = "requestline" /\ ~rio[Here].calling /\ proxy \in ProxyType
  BY DEF ProxyRequestLine, ControlInv, TypeInv
<1>1. CASE ProxyCloses
  BY <1>0, <1>1, ClosesIs
<1>2. CASE ProxyGoesOn([proxy EXCEPT !.pc = "write", !.out = reply_client_error, !.then = "close"])
  <2>1. PICK out : out = reply_client_error
    OBVIOUS
  <2>2. PICK state : state = [proxy EXCEPT !.pc = "write", !.out = out, !.then = "close"]
    OBVIOUS
  <2>3. ProxyHas(state, "write", proxy.c, out, "close", proxy.text, proxy.request)
    BY <1>0, <2>2, ProxyForms
  <2>4. ProxyGoesOn(state)
    BY <1>2, <2>1, <2>2
  <2>5. ProxyTurns
    BY <1>0, <2>3, <2>4 DEF ProxyTurns, ProxyGoesOn, ProxyHas, tinyVars
  <2> QED
    BY <1>0, <2>3, <2>4, <2>5, GoesOnIs DEF ProxyHas
<1>3. ASSUME NEW text, NEW at,
             ProxyGoesOn([proxy EXCEPT !.pc = "write", !.then = "headers",
                                       !.out = modify_http_version(RequestLines[text]),
                                       !.text = text, !.at = at])
      PROVE  ProxyIsDoing
  <2>1. PICK out : out = modify_http_version(RequestLines[text])
    OBVIOUS
  <2>2. PICK state : state = [proxy EXCEPT !.pc = "write", !.then = "headers", !.out = out,
                                           !.text = text, !.at = at]
    OBVIOUS
  <2>3. ProxyHas(state, "write", proxy.c, out, "headers", text, proxy.request)
    BY <1>0, <2>2, ProxyForms
  <2>4. ProxyGoesOn(state)
    BY <1>3, <2>1, <2>2
  <2>5. ProxyTurns
    BY <1>0, <2>1, <2>3, <2>4 DEF ProxyTurns, ProxyGoesOn, ProxyHas, tinyVars
  <2> QED
    BY <1>0, <2>3, <2>4, <2>5, GoesOnIs DEF ProxyHas
<1> QED
  BY <1>1, <1>2, <1>3 DEF ProxyRequestLine

\* It writes to its client.
LEMMA WriteIs ==
    ASSUME ControlInv, ProxyWrite
    PROVE  ProxyIsDoing
<1>0. proxy.pc = "write" /\ proxy.out # <<>> /\ sent \in [Requests -> Seq(Byte)]
  BY DEF ProxyWrite, ControlInv, TypeInv
<1>1. PICK outcome \in WriteOutcomes(Here) :
         \/ /\ outcome[1] # "ECONNRESET"
            /\ Written(Here, Head(proxy.out), outcome)
            /\ proxy' = [proxy EXCEPT !.out = Tail(proxy.out)]
            /\ UNCHANGED <<rio, over, tinyVars, proxyQueue, asked, clientVars>>
         \/ outcome[1] = "ECONNRESET" /\ ProxyExits
  BY DEF ProxyWrite
<1>2. /\ outcome[1] = "ECONNRESET" => peer[Here] = "reset"
      /\ peer[Here] = "open" => outcome[1] = "ok"
  <2>1. RioInv /\ Here \in Streams
    BY <1>0, Served
  <2> HIDE DEF Here
  <2> QED
    BY <2>1, WriteOutcome
<1>3. CASE outcome[1] = "ECONNRESET" /\ ProxyExits
  BY <1>0, <1>2, <1>3, ExitsIs
<1>4. CASE /\ Written(Here, Head(proxy.out), outcome)
           /\ proxy' = [proxy EXCEPT !.out = Tail(proxy.out)]
           /\ UNCHANGED <<rio, over, tinyVars, proxyQueue, asked, clientVars>>
  <2>1. PICK out : out = Tail(proxy.out)
    OBVIOUS
  <2>2. proxy' = [proxy EXCEPT !.out = out]
    BY <1>4, <2>1
  <2>3. ProxyHas(proxy', "write", proxy.c, out, proxy.then, proxy.text, proxy.request)
    BY <1>0, <2>2, Served, ProxyForms
  <2>4. /\ rio' = rio /\ over' = over /\ asked' = asked
        /\ tiny' = tiny /\ tinyQueue' = tinyQueue /\ script' = script /\ phase' = phase
    BY <1>4 DEF tinyVars, clientVars
  <2>5. /\ kernel' = kernel /\ peer' = [peer EXCEPT ![Here] = outcome[2]]
        /\ sent' = [sent EXCEPT ![Here] = IF outcome[1] = "ok" THEN sent[Here] \o Head(proxy.out) ELSE sent[Here]]
    BY <1>0, <1>4, Served DEF Written
  <2>6. /\ \A p \in Streams : p # Here => Quiet(p)
        /\ \A p \in Requests : p # Here => sent'[p] = sent[p]
        /\ outcome[1] = "ok" => sent'[Here] = sent[Here] \o Head(proxy.out)
    <3>1. RioInv /\ Here \in Requests
      BY <1>0, Served
    <3> HIDE DEF Here
    <3> QED
      BY <1>0, <2>4, <2>5, <3>1 DEF RioInv, Quiet
  <2>7. ProxyLeavesTiny /\ \A d \in Proxied : d # proxy.c => Alone(d)
    BY <1>0, <2>4, <2>6, OthersAlone
  <2>8. ProxyPuts
    <3>1. peer'[ReplyOf(proxy.c)] = peer[ReplyOf(proxy.c)]
      BY <1>0, <2>6, Served DEF Quiet
    <3>2. Present(proxy.c) => sent'[Here] = sent[Here] \o Head(proxy.out)
      BY <1>0, <1>2, <2>6, Served
    <3> QED
      BY <1>0, <2>1, <2>3, <2>4, <2>5, <3>1, <3>2 DEF ProxyPuts, ProxyHas
  <2> QED
    BY <1>0, <2>3, <2>7, <2>8, Served DEF ProxyIsDoing, ProxyServes, ProxyHas
<1> QED
  BY <1>1, <1>3, <1>4

\* A call of Rio.
LEMMA CallsIs ==
    ASSUME ControlInv, NEW s, NEW state, ProxyCalls(s, state), proxy.pc \notin {"accept", "down"},
           s \in {Here, ReplyOf(proxy.c)}, state.c = proxy.c, ProxyAsksRio
    PROVE  ProxyIsDoing
<1>1. /\ kernel' = kernel /\ peer' = peer /\ rio' = Called(s) /\ sent' = sent /\ over' = over /\ asked' = asked
      /\ tiny' = tiny /\ tinyQueue' = tinyQueue /\ script' = script /\ phase' = phase /\ proxy' = state
  BY DEF ProxyCalls, connVars, tinyVars, clientVars
<1>2. \A p \in Streams : p # s => Quiet(p)
  BY <1>1 DEF Called, ControlInv, RioInv, Quiet
<1>3. ForwardOf(proxy.c) # s /\ ForwardOf(proxy.c) \in Streams
  BY Served
<1>4. ProxyLeavesTiny /\ \A d \in Proxied : d # proxy.c => Alone(d)
  BY <1>1, <1>2, <1>3, OthersAlone DEF Quiet
<1> QED
  BY <1>1, <1>4, Served DEF ProxyIsDoing, ProxyServes

\* It has written what it had to.
LEMMA WrittenIs ==
    ASSUME ControlInv, ProxyWritten
    PROVE  ProxyIsDoing
<1>0. proxy.pc = "write" /\ proxy.out = <<>> /\ proxy \in ProxyType
  BY DEF ProxyWritten, ControlInv, TypeInv
<1>1. CASE proxy.then = "close" /\ ProxyCloses
  BY <1>0, <1>1, ClosesIs
<1>2. CASE proxy.then = "headers" /\ ProxyCalls(Here, [proxy EXCEPT !.pc = "headers", !.first = TRUE,
                     !.request = <<RequestLines[proxy.text].file>> \o CRLF])
  <2>1. PICK request, f : request = <<RequestLines[proxy.text].file>> \o CRLF /\ f = TRUE
    OBVIOUS
  <2>2. PICK state : state = [proxy EXCEPT !.pc = "headers", !.first = f, !.request = request]
    OBVIOUS
  <2>3. ProxyHas(state, "headers", proxy.c, proxy.out, proxy.then, proxy.text, request)
    BY <1>0, <2>2, ProxyForms
  <2>4. ProxyCalls(Here, state)
    BY <1>2, <2>1, <2>2
  <2>5. ProxyAsksRio
    BY <1>0, <1>2, <2>1, <2>3, <2>4 DEF ProxyAsksRio, ProxyCalls, ProxyHas, tinyVars
  <2> QED
    BY <1>0, <2>3, <2>4, <2>5, CallsIs DEF ProxyHas
<1>3. CASE proxy.then = "relay" /\ ProxyCalls(ReplyOf(proxy.c), [proxy EXCEPT !.pc = "relay"])
  <2>2. PICK state : state = [proxy EXCEPT !.pc = "relay"]
    OBVIOUS
  <2>3. ProxyHas(state, "relay", proxy.c, proxy.out, proxy.then, proxy.text, proxy.request)
    BY <1>0, <2>2, ProxyForms
  <2>4. ProxyCalls(ReplyOf(proxy.c), state)
    BY <1>3, <2>2
  <2>5. ProxyAsksRio
    BY <1>0, <1>3, <2>3, <2>4 DEF ProxyAsksRio, ProxyCalls, ProxyHas, tinyVars
  <2> QED
    BY <1>0, <2>3, <2>4, <2>5, CallsIs DEF ProxyHas
<1>4. CASE proxy.then = "headers" /\ ProxyExits
  BY <1>0, <1>4, ExitsIs
<1> QED
  BY <1>1, <1>2, <1>3, <1>4 DEF ProxyWritten

\* It reads the headers.
LEMMA HeadersIs ==
    ASSUME ControlInv, ProxyHeaders
    PROVE  ProxyIsDoing
<1>0. proxy.pc = "headers" /\ ~rio[Here].calling /\ proxy \in ProxyType
  BY DEF ProxyHeaders, ControlInv, TypeInv
<1>1. CASE ProxyCloses
  BY <1>0, <1>1, ClosesIs
<1>2. CASE /\ rio[Here].got = CRLF \/ (rio[Here].rc = -1 /\ proxy.first)
           /\ ProxyGoesOn([proxy EXCEPT !.pc = "connect", !.request = WithAdded(proxy.request)])
  <2>1. PICK request : request = WithAdded(proxy.request)
    OBVIOUS
  <2>2. PICK state : state = [proxy EXCEPT !.pc = "connect", !.request = request]
    OBVIOUS
  <2>3. ProxyHas(state, "connect", proxy.c, proxy.out, proxy.then, proxy.text, request)
    BY <1>0, <2>2, ProxyForms
  <2>4. ProxyGoesOn(state)
    BY <1>2, <2>1, <2>2
  <2>5. ProxyTurns
    BY <1>0, <1>2, <2>1, <2>3, <2>4 DEF ProxyTurns, ProxyGoesOn, ProxyHas, tinyVars
  <2> QED
    BY <1>0, <2>3, <2>4, <2>5, GoesOnIs DEF ProxyHas
<1>3. CASE /\ rio[Here].got # CRLF
           /\ ProxyCalls(Here, [proxy EXCEPT !.first = FALSE, !.request = proxy.request \o rio[Here].got])
  <2>1. PICK request, f : request = proxy.request \o rio[Here].got /\ f = FALSE
    OBVIOUS
  <2>2. PICK state : state = [proxy EXCEPT !.first = f, !.request = request]
    OBVIOUS
  <2>3. ProxyHas(state, "headers", proxy.c, proxy.out, proxy.then, proxy.text, request)
    BY <1>0, <2>2, ProxyForms
  <2>4. ProxyCalls(Here, state)
    BY <1>3, <2>1, <2>2
  <2>5. ProxyAsksRio
    BY <1>0, <1>3, <2>1, <2>3, <2>4 DEF ProxyAsksRio, ProxyCalls, ProxyHas, tinyVars
  <2> QED
    BY <1>0, <2>3, <2>4, <2>5, CallsIs DEF ProxyHas
<1> QED
  BY <1>1, <1>2, <1>3 DEF ProxyHeaders

\* It connects to tiny, or finds nobody.
LEMMA ConnectIs ==
    ASSUME ControlInv, ProxyConnect
    PROVE  ProxyIsDoing
<1>0. proxy.pc = "connect" /\ proxy \in ProxyType
  BY DEF ProxyConnect, ControlInv, TypeInv
<1>1. CASE ProxyExits
  BY <1>0, <1>1, ExitsIs
<1>2. CASE /\ tinyQueue' = Append(tinyQueue, ForwardOf(proxy.c))
           /\ proxy' = [proxy EXCEPT !.pc = "send"]
           /\ UNCHANGED <<rioVars, connVars, tiny, proxyQueue, asked, clientVars>>
  <2>1. PICK state : state = [proxy EXCEPT !.pc = "send"]
    OBVIOUS
  <2>2. ProxyHas(state, "send", proxy.c, proxy.out, proxy.then, proxy.text, proxy.request)
    BY <1>0, <2>1, ProxyForms
  <2>3. /\ proxy' = state /\ kernel' = kernel /\ peer' = peer /\ rio' = rio /\ sent' = sent /\ over' = over
        /\ tiny' = tiny /\ asked' = asked /\ script' = script /\ phase' = phase
    BY <1>2, <2>1 DEF rioVars, connVars, clientVars
  <2>4. ProxyLeavesTiny /\ \A d \in Proxied : d # proxy.c => Alone(d)
    BY <1>0, <2>3, OthersAlone DEF Quiet
  <2>5. ProxyConnects
    BY <1>0, <1>2, <2>2, <2>3 DEF ProxyConnects, ProxyHas
  <2> QED
    BY <1>0, <2>2, <2>3, <2>4, <2>5, Served DEF ProxyIsDoing, ProxyServes, ProxyHas
<1> QED
  BY <1>1, <1>2 DEF ProxyConnect

\* It sends the request to tiny, or fails because tiny is gone.
LEMMA SendIs ==
    ASSUME ControlInv, ProxySend
    PROVE  ProxyIsDoing
<1>0. /\ proxy.pc = "send" /\ asked \in [Proxied -> Seq(Byte)]
      /\ RioInv /\ ReplyOf(proxy.c) \in Streams /\ proxy \in ProxyType /\ proxy.c \in Proxied
  <2>1. proxy.pc = "send" /\ asked \in [Proxied -> Seq(Byte)]
    BY DEF ProxySend, ControlInv, TypeInv
  <2> QED
    BY <2>1, Served
<1>1. PICK outcome \in WriteOutcomes(ReplyOf(proxy.c)) :
         \/ outcome[1] # "ECONNRESET" /\ RequestSent(outcome)
         \/ outcome[1] = "ECONNRESET" /\ ProxyExits
  BY DEF ProxySend, RequestSent
<1>2. /\ outcome[1] = "ECONNRESET" => peer[ReplyOf(proxy.c)] = "reset"
      /\ outcome[2] = "open" <=> peer[ReplyOf(proxy.c)] = "open"
  BY <1>0, WriteOutcome
<1>2a. outcome[2] # "reset"
  <2>1. peer[ReplyOf(proxy.c)] \in Peer
    BY <1>0 DEF RioInv
  <2> QED
    BY <1>1, <2>1 DEF WriteOutcomes, Peer
<1>3. CASE outcome[1] = "ECONNRESET" /\ ProxyExits
  BY <1>0, <1>2, <1>3, ExitsIs
<1>4. CASE RequestSent(outcome)
  <2>1. PICK out : out = <<>>
    OBVIOUS
  <2>2. proxy' = [proxy EXCEPT !.pc = "write", !.out = out, !.then = "relay"]
    BY <1>4, <2>1 DEF RequestSent
  <2>3. ProxyHas(proxy', "write", proxy.c, out, "relay", proxy.text, proxy.request)
    BY <1>0, <2>2, ProxyForms
  <2>4. /\ rio' = rio /\ over' = over /\ sent' = sent /\ tiny' = tiny /\ tinyQueue' = tinyQueue
        /\ script' = script /\ phase' = phase
    BY <1>4 DEF RequestSent, connVars, tinyVars, clientVars
  <2>5. PICK f \in Streams, y \in Streams : f = ForwardOf(proxy.c) /\ y = ReplyOf(proxy.c) /\ f # y
    BY <1>0, Served
  <2>6. /\ \A p \in Streams : p # y => peer'[p] = peer[p]
        /\ peer'[y] = outcome[2]
    BY <1>0, <1>4, <2>5 DEF RequestSent, RioInv
  <2>7. /\ \A p \in Streams : p # f => kernel'[p] = kernel[p]
        /\ outcome[2] = "open" => kernel'[f] = kernel[f] \o proxy.request
    <3>1. CASE outcome[2] = "open"
      <4>1. kernel' = [kernel EXCEPT ![f] = kernel[f] \o proxy.request]
        BY <1>4, <2>5, <3>1 DEF RequestSent
      <4>2. PICK bytes : bytes = kernel[f] \o proxy.request
        OBVIOUS
      <4> QED
        BY <1>0, <4>1, <4>2 DEF RioInv
    <3>2. CASE outcome[2] # "open"
      BY <1>4, <3>2 DEF RequestSent
    <3> QED
      BY <3>1, <3>2
  <2>8. asked'[proxy.c] = proxy.request /\ \A d \in Proxied : d # proxy.c => asked'[d] = asked[d]
    BY <1>0, <1>4 DEF RequestSent
  <2>9. ProxyLeavesTiny /\ \A d \in Proxied : d # proxy.c => Alone(d)
    BY <1>0, <2>4, <2>5, <2>6, <2>7, <2>8, OthersAlone DEF Quiet
  <2>10. ProxyAsksTiny
    BY <1>0, <1>2, <1>2a, <2>1, <2>3, <2>4, <2>5, <2>6, <2>7, <2>8 DEF ProxyAsksTiny, ProxyHas, connVars
  <2> QED
    BY <1>0, <2>3, <2>9, <2>10 DEF ProxyIsDoing, ProxyServes, ProxyHas
<1> QED
  BY <1>1, <1>3, <1>4

\* It passes on a block, or is done.
LEMMA RelayIs ==
    ASSUME ControlInv, ProxyRelay
    PROVE  ProxyIsDoing
<1>0. proxy.pc = "relay" /\ proxy \in ProxyType /\ ~rio[ReplyOf(proxy.c)].calling
  BY DEF ProxyRelay, ControlInv, TypeInv
<1>1. CASE rio[ReplyOf(proxy.c)].rc = 0 /\ ProxyCloses
  BY <1>0, <1>1, ClosesIs
<1>2. CASE /\ rio[ReplyOf(proxy.c)].rc # 0
           /\ ProxyGoesOn([proxy EXCEPT !.pc = "write", !.then = "relay",
                        !.out = IF rio[ReplyOf(proxy.c)].rc = -1 THEN <<>> ELSE <<rio[ReplyOf(proxy.c)].got>>])
  <2>1. PICK out : out = IF rio[ReplyOf(proxy.c)].rc = -1 THEN <<>> ELSE <<rio[ReplyOf(proxy.c)].got>>
    OBVIOUS
  <2>2. PICK state : state = [proxy EXCEPT !.pc = "write", !.then = "relay", !.out = out]
    OBVIOUS
  <2>3. ProxyHas(state, "write", proxy.c, out, "relay", proxy.text, proxy.request)
    BY <1>0, <2>2, ProxyForms
  <2>4. ProxyGoesOn(state)
    BY <1>2, <2>1, <2>2
  <2>5. ProxyTurns
    BY <1>0, <1>2, <2>1, <2>3, <2>4 DEF ProxyTurns, ProxyGoesOn, ProxyHas, tinyVars
  <2> QED
    BY <1>0, <2>3, <2>4, <2>5, GoesOnIs DEF ProxyHas
<1> QED
  BY <1>1, <1>2 DEF ProxyRelay, ResponseEnded

\* It reads from a stream.
LEMMA ReadIs ==
    ASSUME ControlInv,
           \/ proxy.pc \in {"requestline", "headers"} /\ Read(Here)
           \/ proxy.pc = "relay" /\ Read(ReplyOf(proxy.c)),
           UNCHANGED <<connVars, tinyVars, proxyVars, clientVars>>
    PROVE  ProxyIsDoing
<1>0. proxy.pc \notin {"accept", "down"}
  OBVIOUS
<1>1. /\ tiny' = tiny /\ tinyQueue' = tinyQueue /\ over' = over /\ sent' = sent /\ proxy' = proxy
      /\ asked' = asked /\ script' = script /\ phase' = phase
  BY DEF tinyVars, connVars, proxyVars, clientVars
<1>2. PICK s \in Streams : /\ s \in {Here, ReplyOf(proxy.c)} /\ Read(s)
                           /\ \/ proxy.pc \in {"requestline", "headers"} /\ s = Here
                              \/ proxy.pc = "relay" /\ s = ReplyOf(proxy.c)
  BY <1>0, Served
<1>3. Reading(s) /\ \A p \in Streams : p # s => Quiet(p)
  BY <1>2, OneRead DEF ControlInv
<1>4. ForwardOf(proxy.c) # s /\ ForwardOf(proxy.c) \in Streams
  BY <1>0, <1>2, Served
<1>5. ProxyLeavesTiny /\ \A d \in Proxied : d # proxy.c => Alone(d)
  BY <1>0, <1>1, <1>2, <1>3, <1>4, OthersAlone DEF Quiet
<1>6. ProxyHears
  <2>1. kernel'[ForwardOf(proxy.c)] = kernel[ForwardOf(proxy.c)]
    BY <1>3, <1>4 DEF Quiet
  <2>2. proxy.pc \in {"requestline", "headers"} => Reading(Here) /\ Quiet(ReplyOf(proxy.c))
    BY <1>0, <1>2, <1>3, Served
  <2>3. proxy.pc = "relay" => Reading(ReplyOf(proxy.c))
    BY <1>2, <1>3
  <2> QED
    BY <1>1, <1>2, <2>1, <2>2, <2>3 DEF ProxyHears, connVars
<1> QED
  BY <1>0, <1>1, <1>5, <1>6, Served DEF ProxyIsDoing, ProxyServes

\* Whatever the proxy does.
LEMMA ProxyIs ==
    ASSUME ControlInv, ProxyStep
    PROVE  ProxyIsDoing
  BY AcceptIs, RequestLineIs, WriteIs, WrittenIs, HeadersIs, ConnectIs, SendIs, RelayIs, ReadIs DEF ProxyStep

-----------------------------------------------------------------------------
\* The invariant in parts: for one client, and for the one that is being served.
TinyReadsFor(c) ==
    TinyUp /\ Relaying(c) /\ Present(c) /\ TinyAt(ForwardOf(c)) =>
        /\ tiny.pc \in {"requestline", "headers"} => AtLine(ForwardOf(c), asked[c])
        /\ tiny.pc \in {"requestline", "headers"} /\ ~rio[ForwardOf(c)].calling => HasLine(rio[ForwardOf(c)])
        /\ tiny.pc \in {"write", "wait"} => kernel[ForwardOf(c)] = <<>>
TinyAway(c) == TinyUp => ForwardOf(c) \notin ToSet(tinyQueue) /\ ~TinyAt(ForwardOf(c))
DoneFor(c) ==
    /\ over[RequestOf(c)] = "served" \/ (asked[c] = <<>> /\ ~Connected(c)) => TinyAway(c)
    /\ asked[c] = <<>> => sent[ForwardOf(c)] = <<>> /\ kernel[ReplyOf(c)] = <<>> /\ rio[ReplyOf(c)].buf = <<>>
    /\ Relaying(c) => asked[c] # <<>>
ResetFor(c) ==
    /\ TinyUp => over[ForwardOf(c)] # "dropped"
    /\ Relaying(c) /\ Present(c) /\ peer[ReplyOf(c)] = "reset" => over[ForwardOf(c)] = "dropped"
RelayFor(c) ==
    asked[c] # <<>> /\ Present(c) =>
        \E r \in Gets(c) : \E x, y \in Seq(Byte) :
            /\ sent[RequestOf(c)] = Own(r) \o x
            /\ sent[ForwardOf(c)] = x \o InHand(c) \o y
            /\ y = <<>> \/ over[ForwardOf(c)] = "dropped"
ClientFor(c) ==
    /\ asked[c] # <<>> /\ Present(c) => IsWhole(asked[c])
    /\ asked[c] # <<>> /\ over[RequestOf(c)] = "dropped" => ~Present(c)
    /\ over[RequestOf(c)] = "no" /\ ~(ProxyAt(c) /\ proxy.pc # "requestline") => sent[RequestOf(c)] = <<>>
    /\ TinyReadsFor(c) /\ DoneFor(c) /\ ResetFor(c) /\ RelayFor(c)

TakesFor ==
    /\ proxy.pc \in {"requestline", "headers"} /\ Present(proxy.c) /\ ~rio[Here].calling =>
         HasLine(rio[Here])
    /\ proxy.pc = "headers" /\ Present(proxy.c) => InPieces(proxy.request)
    /\ proxy.pc \in {"connect", "send"} /\ Present(proxy.c) => IsWhole(proxy.request)
EndsFor ==
    proxy.pc = "relay" /\ ~rio[ReplyOf(proxy.c)].calling /\ rio[ReplyOf(proxy.c)].rc <= 0 =>
         /\ peer[ReplyOf(proxy.c)] # "open" /\ kernel[ReplyOf(proxy.c)] = <<>>
         /\ rio[ReplyOf(proxy.c)].got = <<>> /\ rio[ReplyOf(proxy.c)].buf = <<>>
OwnFor ==
    proxy.pc # "accept" /\ Present(proxy.c) =>
        /\ proxy.pc = "write" /\ proxy.then = "headers" =>
             sent[Here] \o FlattenSeq(proxy.out) = Own(RequestLines[proxy.text])
        /\ proxy.pc \in {"headers", "connect", "send"} => sent[Here] = Own(RequestLines[proxy.text])
ServedFor == TakesFor /\ EndsFor /\ OwnFor

\* The invariant, client by client, and back.
LEMMA ForwardParts ==
    ASSUME ForwardInv
    PROVE  ServedFor /\ \A c \in Proxied : ClientFor(c)
<1>1. TakesFor /\ \A c \in Proxied : asked[c] # <<>> /\ Present(c) => IsWhole(asked[c])
  BY DEF ForwardInv, TakenInv, TakesFor
<1>2. EndsFor /\ \A c \in Proxied : DoneFor(c)
  BY DEF ForwardInv, DoneInv, DoneFor, EndsFor, TinyAway
<1>3. OwnFor /\ \A c \in Proxied :
        over[RequestOf(c)] = "no" /\ ~(ProxyAt(c) /\ proxy.pc # "requestline") => sent[RequestOf(c)] = <<>>
  BY DEF ForwardInv, OwnInv, OwnFor
<1>4. \A c \in Proxied : asked[c] # <<>> /\ over[RequestOf(c)] = "dropped" => ~Present(c)
  BY DEF ForwardInv, DroppedInv
<1>5. \A c \in Proxied : ResetFor(c)
  BY DEF ForwardInv, ResetInv, ResetFor
<1>6. \A c \in Proxied : RelayFor(c)
  BY DEF ForwardInv, RelayInv, RelayFor
<1>7. \A c \in Proxied : TinyReadsFor(c)
  BY DEF ForwardInv, TinyReadsInv, TinyReadsFor
<1> QED
  BY <1>1, <1>2, <1>3, <1>4, <1>5, <1>6, <1>7 DEF ClientFor, ServedFor

\* The parts for every client make the invariant.
LEMMA ForwardWhole ==
    ASSUME ServedFor', \A c \in Proxied : ClientFor(c)'
    PROVE  ForwardInv'
<1>1. TakenInv'
  BY DEF TakenInv, TakesFor, ServedFor, ClientFor
<1>2. DoneInv'
  <2>1. \A c \in Proxied : DoneFor(c)'
    BY DEF ClientFor
  <2> QED
    BY <2>1 DEF ServedFor, DoneInv, DoneFor, EndsFor, TinyAway
<1>3. OwnInv'
  <2>1. OwnFor'
    BY DEF ServedFor
  <2>2. \A c \in Proxied : over'[RequestOf(c)] = "no" /\ ~(ProxyAt(c)' /\ proxy'.pc # "requestline") =>
          sent'[RequestOf(c)] = <<>>
    BY DEF ClientFor
  <2> QED
    BY <2>1, <2>2 DEF OwnInv, OwnFor
<1>4. DroppedInv'
  BY DEF DroppedInv, ClientFor
<1>5. ResetInv'
  <2>1. \A c \in Proxied : ResetFor(c)'
    BY DEF ClientFor
  <2> QED
    BY <2>1 DEF ResetInv, ResetFor
<1>6. RelayInv'
  <2>1. \A c \in Proxied : RelayFor(c)'
    BY DEF ClientFor
  <2> QED
    BY <2>1 DEF RelayInv, RelayFor
<1>7. TinyReadsInv'
  <2>1. \A c \in Proxied : TinyReadsFor(c)'
    BY DEF ClientFor
  <2> QED
    BY <2>1 DEF TinyReadsInv, TinyReadsFor
<1> QED
  BY <1>1, <1>2, <1>3, <1>4, <1>5, <1>6, <1>7 DEF ForwardInv

\* A client for which tiny is not at work, or no longer, before and after a step.
Aside(d) ==
    /\ ~Relaying(d) /\ ~Relaying(d)'
    /\ asked'[d] = asked[d] /\ kernel'[ReplyOf(d)] = kernel[ReplyOf(d)]
    /\ rio'[ReplyOf(d)].buf = rio[ReplyOf(d)].buf
    /\ tinyQueue' = tinyQueue \/ (Connected(d)' /\ over'[RequestOf(d)] = "no")
       \/ (ForwardOf(d) \in ToSet(tinyQueue') => ForwardOf(d) \in ToSet(tinyQueue))
    /\ over'[RequestOf(d)] = over[RequestOf(d)]
         \/ (over'[RequestOf(d)] # "no" /\ asked[d] = <<>> /\ ~Connected(d)')
    /\ Connected(d) /\ ~Connected(d)' => TinyAway(d)
    /\ sent'[RequestOf(d)] = sent[RequestOf(d)]
       \/ (asked[d] = <<>> /\ ProxyAt(d)' /\ proxy'.pc # "requestline")
    /\ ProxyAt(d) /\ proxy.pc # "requestline" =>
         (ProxyAt(d)' /\ proxy'.pc # "requestline") \/ over'[RequestOf(d)] # "no"

\* A client the proxy does nothing for, or only lets go of, keeps its part.
LEMMA AsideStays ==
    ASSUME NEW d \in Proxied, ClientFor(d), ProxyLeavesTiny, Aside(d)
    PROVE  ClientFor(d)'
<1>0. /\ tiny' = tiny /\ phase' = phase /\ script' = script
      /\ rio'[ForwardOf(d)] = rio[ForwardOf(d)] /\ sent'[ForwardOf(d)] = sent[ForwardOf(d)]
      /\ over'[ForwardOf(d)] = over[ForwardOf(d)]
  BY DEF ProxyLeavesTiny
<1>1. /\ ~Relaying(d) /\ ~Relaying(d)' /\ asked'[d] = asked[d] /\ kernel'[ReplyOf(d)] = kernel[ReplyOf(d)]
      /\ rio'[ReplyOf(d)].buf = rio[ReplyOf(d)].buf
      /\ over'[RequestOf(d)] = over[RequestOf(d)]
         \/ (over'[RequestOf(d)] # "no" /\ asked[d] = <<>> /\ ~Connected(d)')
      /\ Connected(d) /\ ~Connected(d)' => TinyAway(d)
  BY DEF Aside
<1>2. Present(d)' = Present(d) /\ TinyUp' = TinyUp /\ (TinyAt(ForwardOf(d))' <=> TinyAt(ForwardOf(d)))
  BY <1>0 DEF Present, TinyUp, TinyAt
<1>3. Gets(d)' = Gets(d)
  BY <1>0, ReasonsSame
<1>4. DoneFor(d)'
  <2>1. ASSUME over'[RequestOf(d)] = "served" \/ (asked'[d] = <<>> /\ ~Connected(d)') PROVE TinyAway(d)'
    <3>1. TinyAway(d)
      BY <1>1, <2>1 DEF ClientFor, DoneFor
    <3>2. ForwardOf(d) \in ToSet(tinyQueue') => ForwardOf(d) \in ToSet(tinyQueue)
      <4>1. ~(Connected(d)' /\ over'[RequestOf(d)] = "no")
        BY <2>1
      <4> QED
        BY <4>1 DEF Aside
    <3> QED
      BY <1>2, <3>1, <3>2 DEF TinyAway
  <2> QED
    BY <1>0, <1>1, <2>1 DEF DoneFor, ClientFor
<1>5. TinyReadsFor(d)' /\ ResetFor(d)'
  BY <1>0, <1>1, <1>2 DEF TinyReadsFor, ResetFor, ClientFor
<1>6. RelayFor(d)'
  <2> SUFFICES ASSUME asked'[d] # <<>>, Present(d)'
               PROVE  \E r \in Gets(d)' : \E x, y \in Seq(Byte) :
                        /\ sent'[RequestOf(d)] = Own(r) \o x
                        /\ sent'[ForwardOf(d)] = x \o InHand(d)' \o y
                        /\ y = <<>> \/ over'[ForwardOf(d)] = "dropped"
    BY DEF RelayFor, Own
  <2>1. asked[d] # <<>> /\ Present(d) /\ sent'[RequestOf(d)] = sent[RequestOf(d)]
    BY <1>1, <1>2 DEF Aside
  <2>2. InHand(d)' = <<>> /\ InHand(d) = <<>>
    BY <1>1 DEF InHand
  <2>3. \E r \in Gets(d) : \E x, y \in Seq(Byte) :
                        /\ sent[RequestOf(d)] = Own(r) \o x
                        /\ sent[ForwardOf(d)] = x \o InHand(d) \o y
                        /\ y = <<>> \/ over[ForwardOf(d)] = "dropped"
    BY <2>1 DEF RelayFor, ClientFor
  <2> QED
    BY <1>0, <1>3, <2>1, <2>2, <2>3
<1>7. asked'[d] # <<>> /\ Present(d)' => IsWhole(asked'[d])
  BY <1>1, <1>2 DEF ClientFor
<1>8. asked'[d] # <<>> /\ over'[RequestOf(d)] = "dropped" => ~Present(d)'
  BY <1>1, <1>2 DEF ClientFor
<1>9. over'[RequestOf(d)] = "no" /\ ~(ProxyAt(d)' /\ proxy'.pc # "requestline") => sent'[RequestOf(d)] = <<>>
  <2> SUFFICES ASSUME over'[RequestOf(d)] = "no", ~(ProxyAt(d)' /\ proxy'.pc # "requestline")
               PROVE  sent'[RequestOf(d)] = <<>>
    OBVIOUS
  <2>1. over[RequestOf(d)] = "no" /\ ~(ProxyAt(d) /\ proxy.pc # "requestline")
    BY <1>1 DEF Aside
  <2> QED
    BY <2>1 DEF Aside, ClientFor
<1> QED
  BY <1>4, <1>5, <1>6, <1>7, <1>8, <1>9 DEF ClientFor

-----------------------------------------------------------------------------
\* The request with the headers that it lacks ends where it should.
LEMMA WithAddedWhole ==
    ASSUME NEW request \in Seq(Byte), InPieces(request)
    PROVE  IsWhole(WithAdded(request))
<1> DEFINE q == [k \in DOMAIN Added |-> IF Added[k] \in ToSet(request) THEN <<>> ELSE <<Added[k]>> \o CRLF]
<1>0. /\ Added \in Seq(Byte) /\ DOMAIN Added = 1..Len(Added) /\ Len(Added) \in Nat
      /\ \A k \in DOMAIN Added : Added[k] \in Byte /\ Added[k] # "cr" /\ Added[k] # "lf"
  <2>1. Added \in Seq(Byte)
    BY Strings
  <2>2. ToSet(Added) \cap ({"cr", "lf"} \cup DOMAIN RequestLines) = {}
    BY RequestPathAssumption
  <2>3. \A k \in DOMAIN Added : Added[k] \in ToSet(Added)
    BY DEF ToSet
  <2>4. \A k \in DOMAIN Added : Added[k] \in Byte
    BY <2>1
  <2> QED
    BY <2>1, <2>2, <2>3, <2>4
<1>1. q \in Seq(Seq(Byte)) /\ Len(q) = Len(Added)
      /\ \A k \in 1..Len(Added) : q[k] = <<>> \/ q[k] = <<Added[k]>> \o CRLF
  <2>1. \A k \in DOMAIN Added : q[k] \in Seq(Byte)
    <3> SUFFICES ASSUME NEW k \in DOMAIN Added PROVE q[k] \in Seq(Byte)
      OBVIOUS
    <3>1. <<Added[k]>> \o CRLF \in Seq(Byte)
      BY <1>0, Strings
    <3> QED
      BY <3>1, NothingCut
  <2>2. q \in [1..Len(Added) -> Seq(Byte)]
    BY <1>0, <2>1
  <2>3. \A k \in 1..Len(Added) : q[k] = <<>> \/ q[k] = <<Added[k]>> \o CRLF
    BY <1>0
  <2> HIDE DEF q
  <2>4. PICK m \in Nat : m = Len(Added)
    BY <1>0
  <2>5. q \in [1..m -> Seq(Byte)]
    BY <2>2, <2>4
  <2>6. q \in Seq(Seq(Byte)) /\ Len(q) = m
    BY <2>5
  <2> QED
    BY <2>3, <2>4, <2>6
<1>2. WithAdded(request) = request \o FlattenSeq(q) \o CRLF
  BY DEF WithAdded
<1> HIDE DEF q
<1> DEFINE B(n) == request \o FlattenSeq(SubSeq(q, 1, n))
           T == {n \in Nat : n <= Len(q) => B(n) \in Seq(Byte) /\ InPieces(B(n))}
<1>3. 0 \in T
  <2>1. SubSeq(q, 1, 0) = <<>>
    BY <1>1
  <2>2. B(0) = request
    BY <2>1, FlattenNone, ConcatEmptySeq
  <2> HIDE DEF B
  <2> QED
    BY <2>2
<1>4. ASSUME NEW n \in 0..Len(q)-1, n \in T PROVE n + 1 \in T
  <2>1. /\ SubSeq(q, 1, n) \in Seq(Seq(Byte))
        /\ FlattenSeq(SubSeq(q, 1, n+1)) = FlattenSeq(SubSeq(q, 1, n)) \o q[n+1]
    BY <1>1, FlattenLast
  <2>2. PICK f \in Seq(Byte) : f = FlattenSeq(SubSeq(q, 1, n))
    BY <2>1, FlattenType
  <2>3. n \in Nat /\ n + 1 \in Nat /\ n + 1 \in 1..Len(Added) /\ n <= Len(q)
    BY <1>0, <1>1
  <2>4. q[n+1] \in Seq(Byte)
    BY <1>1, <2>3
  <2>5. PICK x \in Seq(Byte) : x = q[n+1]
    BY <2>4
  <2>6. PICK b \in Seq(Byte) : b = B(n) /\ InPieces(b)
    <3> HIDE DEF B
    <3> QED
      BY <1>4, <2>3
  <2>7. B(n+1) = b \o x
    <3>1. Assoc(request, f, x)
      BY AssocIs
    <3>2. (request \o f) \o x = request \o (f \o x)
      BY <3>1, Zenon DEF Assoc
    <3>3. b = request \o f
      BY <2>2, <2>6
    <3>4. B(n+1) = request \o (f \o x)
      BY <2>1, <2>2, <2>5
    <3> HIDE DEF B
    <3> QED
      BY <3>2, <3>3, <3>4
  <2>8. b \o x \in Seq(Byte) /\ InPieces(b \o x)
    <3>1. CASE x = <<>>
      BY <2>6, <3>1, ConcatEmptySeq
    <3>2. CASE x # <<>>
      <4>1. PICK name \in Byte : name = Added[n+1] /\ name # "cr" /\ name # "lf"
        BY <1>0, <2>3
      <4>2. x = <<name>> \o CRLF
        BY <1>1, <2>3, <2>5, <3>2, <4>1
      <4>3. b \o (<<name>> \o CRLF) \in Seq(Byte) /\ InPieces(b \o (<<name>> \o CRLF))
        BY <2>6, <4>1, NameAppend
      <4> QED
        BY <4>2, <4>3
    <3> QED
      BY <3>1, <3>2
  <2> HIDE DEF B
  <2> QED
    BY <2>3, <2>7, <2>8
<1>5. B(Len(q)) \in Seq(Byte) /\ InPieces(B(Len(q)))
  <2>1. Len(q) \in Nat
    BY <1>0, <1>1
  <2>2. Len(q) \in T
    <3>1. PICK m \in Nat : m = Len(q)
      BY <2>1
    <3>2. \A n \in 0..m-1 : n \in T => n + 1 \in T
      BY <1>4, <3>1
    <3>3. 0..m \subseteq T
      <4> HIDE DEF T
      <4> QED
        BY <1>3, <3>2, UpTo
    <3> HIDE DEF T
    <3> QED
      BY <3>1, <3>3
  <2> HIDE DEF B
  <2> QED
    BY <2>1, <2>2
<1>6. B(Len(q)) = request \o FlattenSeq(q)
  BY <1>1, SubSeqFull
<1>7. PICK b \in Seq(Byte) : b = request \o FlattenSeq(q) /\ InPieces(b)
  <2> HIDE DEF B
  <2> QED
    BY <1>5, <1>6
<1>8. PICK z \in Seq(Byte) : z = CRLF /\ Len(z) = 2
  BY CRLFIsLine
<1>9. PICK w \in Seq(Byte) : w = b \o z
  BY ConcatProperties
<1>10. Len(w) = Len(b) + 2 /\ Len(b) \in Nat
  <2>1. Len(b \o z) = Len(b) + Len(z)
    OBVIOUS
  <2> QED
    BY <1>8, <1>9, <2>1
<1>11. Len(w) > 1 /\ Len(w) - 2 = Len(b)
  BY <1>10
<1>12. SubSeq(w, 1, Len(b)) = b
  BY <1>9, SplitAt
<1>13. Body(w) = b
  BY <1>11, <1>12 DEF Body
<1>14. IsWhole(w)
  BY <1>7, <1>8, <1>9, <1>11, <1>13 DEF IsWhole
<1>15. WithAdded(request) = w
  BY <1>2, <1>7, <1>8, <1>9
<1> QED
  BY <1>14, <1>15

-----------------------------------------------------------------------------
\* A step of the proxy does not concern a client that it does not serve.
LEMMA OtherClients ==
    ASSUME ControlInv, ProxyIsDoing, NEW d \in Proxied, proxy.pc = "accept" \/ d # proxy.c, ClientFor(d)
    PROVE  ClientFor(d)'
<1>0. Alone(d) /\ ProxyLeavesTiny /\ (ProxyTakesOne \/ ProxyServes)
  BY DEF ProxyIsDoing
<1>1. ~Relaying(d) /\ ~Connected(d) /\ ~(ProxyAt(d) /\ proxy.pc # "requestline")
  BY DEF Relaying, Connected, PastConnect, ProxyAt
<1>2. ProxyServes => d # proxy.c /\ (proxy'.pc # "accept" => proxy'.c # d)
  BY DEF ProxyServes
<1>3. ~Relaying(d)'
  BY <1>0, <1>2 DEF Relaying, ProxyTakesOne
<1>4. \/ tinyQueue' = tinyQueue
      \/ ForwardOf(d) \in ToSet(tinyQueue') => ForwardOf(d) \in ToSet(tinyQueue)
  <2>1. CASE ProxyConnects /\ ProxyServes
    <3>1. PICK f \in Requests : f = ForwardOf(proxy.c) /\ ForwardOf(d) # f
      BY <1>2, <2>1, Served DEF ProxyServes
    <3>2. tinyQueue' = Append(tinyQueue, f) /\ tinyQueue \in Seq(Requests)
      BY <2>1, <3>1 DEF ProxyConnects, ControlInv, TypeInv
    <3>3. ToSet(tinyQueue') \subseteq ToSet(tinyQueue) \cup {f}
      BY <3>2, AppendedTo
    <3> QED
      BY <3>1, <3>3
  <2>2. CASE ~(ProxyConnects /\ ProxyServes)
    <3>1. tinyQueue' = tinyQueue
      BY <1>0, <2>2 DEF ProxyServes, ProxyTakesOne, ProxyPuts, ProxyTurns, ProxyAsksRio, ProxyAsksTiny, ProxyHears,
                        ProxyLetsGo, ProxyDies
    <3> QED
      BY <3>1
  <2> QED
    BY <2>1, <2>2
<1>5. over'[RequestOf(d)] = over[RequestOf(d)]
         \/ (over'[RequestOf(d)] # "no" /\ asked[d] = <<>> /\ ~Connected(d)')
  <2>1. CASE ProxyDies /\ ProxyServes
    <3>1. \/ over'[RequestOf(d)] = over[RequestOf(d)]
          \/ over[RequestOf(d)] = "no" /\ over'[RequestOf(d)] = "dropped"
      BY <2>1 DEF ProxyDies
    <3>2. ~Connected(d)'
      BY <2>1 DEF ProxyDies, Connected, PastConnect
    <3>3. over[RequestOf(d)] = "no" => asked[d] = <<>>
      BY <1>1 DEF ControlInv, UnconnectedInv
    <3> QED
      BY <3>1, <3>2, <3>3
  <2>2. CASE ProxyLetsGo /\ ProxyServes
    BY <1>2, <2>2 DEF ProxyLetsGo
  <2>3. CASE ~(ProxyDies /\ ProxyServes) /\ ~(ProxyLetsGo /\ ProxyServes)
    <3>1. over' = over
      BY <1>0, <2>3 DEF ProxyServes, ProxyTakesOne, ProxyPuts, ProxyTurns, ProxyAsksRio, ProxyAsksTiny, ProxyHears,
                        ProxyConnects, connVars
    <3> QED
      BY <3>1
  <2> QED
    BY <2>1, <2>2, <2>3
<1>6. Aside(d)
  BY <1>0, <1>1, <1>3, <1>4, <1>5 DEF Aside, Alone
<1> QED
  BY <1>0, <1>6, AsideStays

\* Nor, for tiny, the one that it serves, before it has asked tiny.
LEMMA NotAskedYet ==
    ASSUME ControlInv, proxy.pc \notin {"accept", "down"}, ~Relaying(proxy.c)
    PROVE  asked[proxy.c] = <<>> /\ over[Here] = "no" /\ (Connected(proxy.c) => proxy.pc = "send")
<1>1. over[Here] = "no" /\ Here = RequestOf(proxy.c) /\ proxy.c \in Proxied
  BY Served DEF ControlInv, ServingInv
<1>2. Connected(proxy.c) => proxy.pc = "send"
  BY DEF Connected, PastConnect, Relaying
<1>3. proxy.pc = "send" => asked[proxy.c] = <<>>
  BY DEF ControlInv, SendInv
<1>4. ~Connected(proxy.c) => asked[proxy.c] = <<>>
  BY <1>1 DEF ControlInv, UnconnectedInv
<1> QED
  BY <1>1, <1>2, <1>3, <1>4

\* The streams between the proxy and tiny are left alone by then.
LEMMA EarlyStreams ==
    ASSUME ControlInv, ProxyServes, NEW c \in Proxied, c = proxy.c, ~Relaying(c), ~Relaying(c)'
    PROVE  /\ asked'[c] = asked[c] /\ kernel'[ReplyOf(c)] = kernel[ReplyOf(c)]
           /\ rio'[ReplyOf(c)] = rio[ReplyOf(c)]
<1>0. /\ proxy.pc \notin {"accept", "down"}
      /\ proxy'.pc # "accept" => proxy'.c = c
      /\ ReplyOf(c) \in Streams /\ ReplyOf(c) # Here /\ rio \in [Streams -> RioCall]
  BY Served DEF ProxyServes, RioInv
<1>1. ~ProxyAsksTiny
  BY <1>0 DEF ProxyAsksTiny, Relaying
<1>2. ASSUME ProxyAsksRio PROVE rio'[ReplyOf(c)] = rio[ReplyOf(c)]
  <2>1. rio' = Called(Here)
    BY <1>2 DEF ProxyAsksRio, Relaying
  <2> HIDE DEF Here
  <2> QED
    BY <1>0, <2>1 DEF Called
<1>3. ASSUME ProxyHears PROVE Quiet(ReplyOf(c))
  BY <1>3 DEF ProxyHears, Relaying
<1> QED
  BY <1>1, <1>2, <1>3 DEF ProxyServes, ProxyPuts, ProxyTurns, ProxyAsksRio, ProxyHears, ProxyConnects, ProxyLetsGo,
                          ProxyDies, rioVars, Quiet

\* So its step is one aside too.
LEMMA EarlyAside ==
    ASSUME ControlInv, ProxyServes, NEW c \in Proxied, c = proxy.c, ~Relaying(c), ~Relaying(c)'
    PROVE  Aside(c)
<1>0. /\ proxy.pc \notin {"accept", "down"} /\ Here = RequestOf(c)
      /\ proxy'.pc # "accept" => proxy'.c = c
  BY Served DEF ProxyServes
<1>1. asked[c] = <<>> /\ over[Here] = "no" /\ (Connected(c) => proxy.pc = "send")
  BY <1>0, NotAskedYet
<1> HIDE DEF Here
<1>2. /\ asked'[c] = asked[c] /\ kernel'[ReplyOf(c)] = kernel[ReplyOf(c)]
      /\ rio'[ReplyOf(c)] = rio[ReplyOf(c)]
  BY EarlyStreams
<1>3. ~ProxyAsksTiny
  BY <1>0 DEF ProxyAsksTiny, Relaying
<1>4. CASE ProxyLetsGo
  <2>1. /\ proxy'.pc = "accept" /\ over'[Here] = "served" /\ sent' = sent /\ tinyQueue' = tinyQueue
        /\ proxy.pc # "send"
    BY <1>4 DEF ProxyLetsGo
  <2>2. ~Connected(c) /\ ~Connected(c)'
    BY <1>1, <2>1 DEF Connected, PastConnect
  <2> QED
    BY <1>0, <1>1, <1>2, <2>1, <2>2 DEF Aside
<1>5. CASE ProxyDies
  <2>1. /\ proxy'.pc = "down" /\ over'[Here] = "dropped" /\ sent' = sent /\ tinyQueue' = tinyQueue
        /\ proxy.pc = "send" => peer[ReplyOf(c)] = "reset"
    BY <1>5 DEF ProxyDies
  <2>2. ~Connected(c)'
    BY <2>1 DEF Connected, PastConnect
  <2>3. Connected(c) => TinyAway(c)
    BY <1>0, <1>1, <2>1 DEF TinyAway, ControlInv, PeerInv
  <2> QED
    BY <1>0, <1>1, <1>2, <2>1, <2>2, <2>3 DEF Aside
<1>6. CASE ProxyConnects
  <2>1. proxy.pc = "connect" /\ proxy'.pc = "send" /\ sent' = sent /\ over' = over
    BY <1>6 DEF ProxyConnects, connVars
  <2>2. Connected(c)' /\ ProxyAt(c)'
    BY <1>0, <2>1 DEF Connected, PastConnect, ProxyAt
  <2> QED
    BY <1>0, <1>1, <1>2, <2>1, <2>2 DEF Aside
<1>7. CASE ProxyPuts \/ ProxyTurns \/ ProxyAsksRio \/ ProxyHears
  <2>1. tinyQueue' = tinyQueue /\ over' = over /\ proxy'.pc \notin {"accept", "down"}
    BY <1>0, <1>7 DEF ProxyPuts, ProxyTurns, ProxyAsksRio, ProxyHears, connVars
  <2>2. ProxyPuts \/ sent' = sent
    BY <1>7 DEF ProxyTurns, ProxyAsksRio, ProxyHears, connVars
  <2>3. ProxyPuts => proxy'.pc = "write"
    BY DEF ProxyPuts
  <2>4. proxy.pc # "requestline" => proxy'.pc # "requestline"
    BY <1>7 DEF ProxyPuts, ProxyTurns, ProxyAsksRio, ProxyHears
  <2>5. ProxyAt(c)'
    BY <1>0, <2>1 DEF ProxyAt
  <2>6. ~Connected(c)
    BY <1>1, <1>7 DEF ProxyPuts, ProxyTurns, ProxyAsksRio, ProxyHears
  <2> QED
    BY <1>0, <1>1, <1>2, <2>1, <2>2, <2>3, <2>4, <2>5, <2>6 DEF Aside
<1> QED
  BY <1>3, <1>4, <1>5, <1>6, <1>7 DEF ProxyServes

-----------------------------------------------------------------------------
\* While the response is relayed nothing else changes than what is in hand.
RelaysOn(c) ==
    /\ Relaying(c) /\ Relaying(c)' /\ asked' = asked /\ over' = over /\ tinyQueue' = tinyQueue
    /\ kernel'[ForwardOf(c)] = kernel[ForwardOf(c)]
    /\ peer'[ReplyOf(c)] = "reset" => peer[ReplyOf(c)] = "reset"

\* Then all the rest stays for the client.
LEMMA RelayingStays ==
    ASSUME NEW c \in Proxied, ProxyLeavesTiny, RelaysOn(c), ClientFor(c), RelayFor(c)'
    PROVE  ClientFor(c)'
<1>0. /\ tiny' = tiny /\ phase' = phase
      /\ rio'[ForwardOf(c)] = rio[ForwardOf(c)] /\ sent'[ForwardOf(c)] = sent[ForwardOf(c)]
  BY DEF ProxyLeavesTiny
<1>1. /\ Relaying(c) /\ Relaying(c)' /\ asked' = asked /\ over' = over /\ tinyQueue' = tinyQueue
      /\ kernel'[ForwardOf(c)] = kernel[ForwardOf(c)]
  BY DEF RelaysOn
<1>2. /\ Present(c)' = Present(c) /\ TinyUp' = TinyUp /\ (TinyAt(ForwardOf(c))' <=> TinyAt(ForwardOf(c)))
      /\ TinyAway(c)' = TinyAway(c)
  BY <1>0, <1>1 DEF Present, TinyUp, TinyAt, TinyAway
<1>3. asked[c] # <<>>
  BY <1>1 DEF ClientFor, DoneFor
<1>4. DoneFor(c)'
  BY <1>1, <1>2, <1>3 DEF DoneFor, ClientFor
<1>5. ResetFor(c)'
  BY <1>1, <1>2 DEF ResetFor, ClientFor, RelaysOn
<1>6. TinyReadsFor(c)'
  <2>1. AtLine(ForwardOf(c), asked[c]) => AtLine(ForwardOf(c), asked[c])'
    BY <1>0, <1>1 DEF AtLine, Rest
  <2> QED
    BY <1>0, <1>1, <1>2, <2>1 DEF TinyReadsFor, ClientFor
<1>7. ProxyAt(c)' /\ proxy'.pc # "requestline"
  BY <1>1 DEF Relaying, ProxyAt
<1> QED
  BY <1>0, <1>1, <1>2, <1>4, <1>5, <1>6, <1>7 DEF ClientFor

\* What is in hand may be looked at in another way, and in part be passed on.
Shifts(x, h, t, b, k) == x \o (((h \o t) \o b) \o k) = (x \o h) \o ((t \o b) \o k)
\* It is one sequence, however the brackets are set.
LEMMA Shift ==
    ASSUME NEW x \in Seq(Byte), NEW h \in Seq(Byte), NEW t \in Seq(Byte), NEW b \in Seq(Byte),
           NEW k \in Seq(Byte)
    PROVE  Shifts(x, h, t, b, k)
<1>1. Assoc(h, t, b)
  BY AssocIs
<1>2. PICK u \in Seq(Byte) : u = t \o b
  BY ConcatProperties
<1>3. Assoc(h, u, k)
  BY AssocIs
<1>4. PICK v \in Seq(Byte) : v = u \o k
  BY ConcatProperties
<1>5. Assoc(x, h, v)
  BY AssocIs
<1>6. (h \o t) \o b = h \o u
  BY <1>1, <1>2, Zenon DEF Assoc
<1>7. (h \o u) \o k = h \o v
  BY <1>3, <1>4, Zenon DEF Assoc
<1>8. (x \o h) \o v = x \o (h \o v)
  BY <1>5, Zenon DEF Assoc
<1> QED
  BY <1>2, <1>4, <1>6, <1>7, <1>8 DEF Shifts

\* The proxy's own reply.
LEMMA OwnType == \A r : modify_http_version(r) \in Seq(Seq(Byte)) /\ Own(r) \in Seq(Byte)
<1> SUFFICES ASSUME NEW r PROVE modify_http_version(r) \in Seq(Seq(Byte)) /\ Own(r) \in Seq(Byte)
  OBVIOUS
<1>1. modify_http_version(r) \in Seq(Seq(Byte))
  BY Strings DEF modify_http_version
<1> QED
  BY <1>1, FlattenType DEF Own

\* A step that keeps it.
LEMMA HandKept ==
    ASSUME NEW c \in Proxied, RelayFor(c), ProxyLeavesTiny, asked'[c] = asked[c],
           sent'[RequestOf(c)] = sent[RequestOf(c)], InHand(c)' = InHand(c)
    PROVE  RelayFor(c)'
<1>0. /\ phase' = phase /\ script' = script /\ sent'[ForwardOf(c)] = sent[ForwardOf(c)]
      /\ over'[ForwardOf(c)] = over[ForwardOf(c)]
  BY DEF ProxyLeavesTiny
<1> SUFFICES ASSUME asked'[c] # <<>>, Present(c)'
             PROVE  \E r \in Gets(c)' : \E x, y \in Seq(Byte) :
                      /\ sent'[RequestOf(c)] = Own(r) \o x
                      /\ sent'[ForwardOf(c)] = x \o InHand(c)' \o y
                      /\ y = <<>> \/ over'[ForwardOf(c)] = "dropped"
  BY DEF RelayFor, Own
<1>1. asked[c] # <<>> /\ Present(c) /\ Gets(c)' = Gets(c)
  BY <1>0, ReasonsSame DEF Present
<1>2. \E r \in Gets(c) : \E x, y \in Seq(Byte) :
                      /\ sent[RequestOf(c)] = Own(r) \o x
                      /\ sent[ForwardOf(c)] = x \o InHand(c) \o y
                      /\ y = <<>> \/ over[ForwardOf(c)] = "dropped"
  BY <1>1 DEF RelayFor
<1> QED
  BY <1>0, <1>1, <1>2

\* A block is written to the client.
LEMMA PutsRelays ==
    ASSUME ControlInv, ControlInv', ProxyLeavesTiny, ProxyPuts, NEW c \in Proxied, c = proxy.c,
           Relaying(c), Relaying(c)', ClientFor(c)
    PROVE  RelayFor(c)'
<1>0. /\ phase' = phase /\ script' = script /\ sent'[ForwardOf(c)] = sent[ForwardOf(c)]
      /\ over'[ForwardOf(c)] = over[ForwardOf(c)]
  BY DEF ProxyLeavesTiny
<1>1. /\ proxy.pc = "write" /\ proxy.out # <<>> /\ proxy'.pc = "write" /\ proxy'.out = Tail(proxy.out)
      /\ kernel' = kernel /\ rio' = rio /\ asked' = asked
      /\ Present(c) => sent'[RequestOf(c)] = sent[RequestOf(c)] \o Head(proxy.out)
      /\ proxy.out \in Seq(Seq(Byte))
  BY DEF ProxyPuts, Here, ControlInv, TypeInv, ProxyType
<1> SUFFICES ASSUME asked'[c] # <<>>, Present(c)'
             PROVE  \E r \in Gets(c)' : \E x, y \in Seq(Byte) :
                      /\ sent'[RequestOf(c)] = Own(r) \o x
                      /\ sent'[ForwardOf(c)] = x \o InHand(c)' \o y
                      /\ y = <<>> \/ over'[ForwardOf(c)] = "dropped"
  BY DEF RelayFor, Own
<1>2. asked[c] # <<>> /\ Present(c) /\ Gets(c)' = Gets(c)
  BY <1>0, <1>1, ReasonsSame DEF Present
<1>3. PICK r \in Gets(c) : \E x, y \in Seq(Byte) :
                      /\ sent[RequestOf(c)] = Own(r) \o x
                      /\ sent[ForwardOf(c)] = x \o InHand(c) \o y
                      /\ y = <<>> \/ over[ForwardOf(c)] = "dropped"
  BY <1>2 DEF RelayFor, ClientFor
<1>4. PICK x \in Seq(Byte), y \in Seq(Byte) :
                      /\ sent[RequestOf(c)] = Own(r) \o x
                      /\ sent[ForwardOf(c)] = x \o InHand(c) \o y
                      /\ y = <<>> \/ over[ForwardOf(c)] = "dropped"
  BY <1>3
<1>5. /\ Head(proxy.out) \in Seq(Byte) /\ FlattenSeq(Tail(proxy.out)) \in Seq(Byte)
      /\ FlattenSeq(proxy.out) = Head(proxy.out) \o FlattenSeq(Tail(proxy.out))
  BY <1>1, FlattenHead
<1>6. PICK h \in Seq(Byte), t \in Seq(Byte) :
         h = Head(proxy.out) /\ t = FlattenSeq(Tail(proxy.out)) /\ FlattenSeq(proxy.out) = h \o t
  BY <1>5
<1>7. PICK b \in Seq(Byte), k \in Seq(Byte) : b = rio[ReplyOf(c)].buf /\ k = kernel[ReplyOf(c)]
  BY InHandIs
<1>8. InHand(c) = ((h \o t) \o b) \o k
  BY <1>1, <1>6, <1>7, InHandIs
<1>9. InHand(c)' = (t \o b) \o k
  BY <1>1, <1>6, <1>7 DEF InHand
<1>10. x \o InHand(c) = (x \o h) \o InHand(c)'
  <2>1. Shifts(x, h, t, b, k)
    BY Shift
  <2> QED
    BY <1>8, <1>9, <2>1, Zenon DEF Shifts
<1>11. PICK x2 \in Seq(Byte) : x2 = x \o h
  BY ConcatProperties
<1>12. sent'[ForwardOf(c)] = x2 \o InHand(c)' \o y
  BY <1>0, <1>4, <1>10, <1>11
<1>13. sent'[RequestOf(c)] = Own(r) \o x2
  <2>1. PICK own \in Seq(Byte) : own = Own(r)
    BY OwnType
  <2>2. Assoc(own, x, h)
    BY AssocIs
  <2>3. (own \o x) \o h = own \o x2
    BY <1>11, <2>2, Zenon DEF Assoc
  <2> QED
    BY <1>1, <1>2, <1>4, <1>6, <2>1, <2>3
<1> QED
  BY <1>0, <1>2, <1>4, <1>12, <1>13

\* The proxy looks at what it has read.
LEMMA TurnsRelays ==
    ASSUME ControlInv, ProxyTurns, NEW c \in Proxied, c = proxy.c, Relaying(c), Relaying(c)', EndsFor
    PROVE  InHand(c)' = InHand(c)
<1>0. /\ kernel' = kernel /\ rio' = rio /\ Relaying(c)
      /\ proxy.pc \in {"relay", "write"}
  BY DEF ProxyTurns, rioVars, Relaying
<1>1. /\ proxy.pc = "relay" /\ ~rio[ReplyOf(c)].calling /\ proxy'.pc = "write"
      /\ proxy'.out = IF rio[ReplyOf(c)].rc = -1 THEN <<>> ELSE <<rio[ReplyOf(c)].got>>
  BY <1>0 DEF ProxyTurns
<1>2. PICK g \in Seq(Byte), b \in Seq(Byte), k \in Seq(Byte) :
         /\ g = rio[ReplyOf(c)].got /\ b = rio[ReplyOf(c)].buf /\ k = kernel[ReplyOf(c)]
         /\ InHand(c) = g \o b \o k
  <2>1. Relaying(c) /\ proxy.pc = "relay"
    BY <1>0, <1>1
  <2>2. InHand(c) = rio[ReplyOf(c)].got \o rio[ReplyOf(c)].buf \o kernel[ReplyOf(c)]
    BY <2>1, InHandIs
  <2>3. /\ rio[ReplyOf(c)].got \in Seq(Byte) /\ rio[ReplyOf(c)].buf \in Seq(Byte)
        /\ kernel[ReplyOf(c)] \in Seq(Byte)
    BY InHandIs
  <2> QED
    BY <2>2, <2>3, Zenon
<1>3. InHand(c)' = FlattenSeq(proxy'.out) \o b \o k
  BY <1>0, <1>1, <1>2 DEF InHand
<1>4. FlattenSeq(proxy'.out) = g
  <2>1. CASE rio[ReplyOf(c)].rc = -1
    <3>1. rio[ReplyOf(c)].rc <= 0
      BY <2>1
    <3>2. g = <<>>
      BY <1>1, <1>2, <3>1 DEF EndsFor
    <3> QED
      BY <1>1, <2>1, <3>2, FlattenNone
  <2>2. CASE rio[ReplyOf(c)].rc # -1
    <3>1. proxy'.out = <<g>>
      BY <1>1, <1>2, <2>2
    <3> QED
      BY <3>1, FlattenOne
  <2> QED
    BY <2>1, <2>2
<1> QED
  BY <1>2, <1>3, <1>4

\* It asks for more.
LEMMA AsksRelays ==
    ASSUME ControlInv, ProxyAsksRio, NEW c \in Proxied, c = proxy.c, Relaying(c), Relaying(c)'
    PROVE  InHand(c)' = InHand(c)
<1>0. proxy.pc = "write" /\ proxy.out = <<>> /\ proxy'.pc = "relay" /\ rio' = Called(ReplyOf(c)) /\ kernel' = kernel
  BY DEF ProxyAsksRio, Relaying
<1>1. PICK s \in Streams : s = ReplyOf(c)
  BY Names
<1>2. PICK r \in RioCall, r2 \in {rio'[s]} : r = rio[s] /\ r2 = rio'[s] /\ rio \in [Streams -> RioCall]
  BY <1>1 DEF ControlInv, RioInv
<1>3. r2 = Copied(s, [r EXCEPT !.got = <<>>])
  BY <1>0, <1>1, <1>2 DEF Called
<1>4. CallsOn(s, r, r2)
  BY <1>3, CallIs
<1>5. r2.got \o r2.buf = r.buf
  BY <1>4 DEF CallsOn
<1>6. PICK b \in Seq(Byte), k \in Seq(Byte) : b = r.buf /\ k = kernel[s]
  BY <1>1, <1>2, InHandIs
<1>7. InHand(c) = (<<>> \o b) \o k
  BY <1>0, <1>1, <1>2, <1>6, InHandIs, FlattenNone
<1>8. InHand(c)' = (r2.got \o r2.buf) \o k
  BY <1>0, <1>1, <1>2, <1>6 DEF InHand
<1>9. <<>> \o b = b
  BY ConcatEmptySeq
<1> QED
  BY <1>5, <1>6, <1>7, <1>8, <1>9

\* It reads; a reset costs what has come since the call began.
LEMMA HearsRelays ==
    ASSUME ControlInv, ControlInv', ProxyLeavesTiny, ProxyHears, NEW c \in Proxied, c = proxy.c,
           Relaying(c), ClientFor(c)
    PROVE  RelayFor(c)'
<1>0. /\ phase' = phase /\ script' = script /\ sent'[ForwardOf(c)] = sent[ForwardOf(c)]
      /\ over'[ForwardOf(c)] = over[ForwardOf(c)] /\ proxy' = proxy /\ sent' = sent /\ asked' = asked
  BY DEF ProxyLeavesTiny, ProxyHears, connVars
<1>1. proxy.pc = "relay" /\ Reading(ReplyOf(c))
  BY DEF ProxyHears, Relaying
<1>2. Relaying(c)'
  BY <1>0 DEF Relaying
<1>3. PICK s \in Streams : s = ReplyOf(c)
  BY Names
<1>4. PICK r \in RioCall, k \in Seq(Byte) : r = rio[s] /\ k = kernel[s] /\ CallOK(s, r) /\ r.calling
  <2>1. CallOK(s, rio[s]) /\ kernel[s] \in Seq(Byte) /\ rio[s] \in RioCall
    BY <1>3 DEF ControlInv, RioInv
  <2>2. rio[s].calling
    BY <1>1, <1>3 DEF Reading
  <2> QED
    BY <2>1, <2>2
<1>4a. PICK r2, k2 : r2 = rio'[s] /\ k2 = kernel'[s]
  OBVIOUS
<1>5. r.buf = <<>> /\ r.got \in Seq(Byte)
  BY <1>4 DEF CallOK, RioCall
<1>6. InHand(c) = (r.got \o r.buf) \o k
  BY <1>1, <1>3, <1>4, InHandIs
<1>7. InHand(c)' = (r2.got \o r2.buf) \o k2
  BY <1>0, <1>1, <1>2, <1>3, <1>4, <1>4a DEF InHand
<1>8. CASE InHand(c)' = InHand(c)
  BY <1>0, <1>8, HandKept DEF ClientFor
<1>9. CASE ReadsOn(s, r, k, r2, k2)
  <2>1. (r2.got \o r2.buf) \o k2 = r.got \o k
    BY <1>9 DEF ReadsOn
  <2>2. r.got \o r.buf = r.got
    BY <1>5, ConcatEmptySeq
  <2> QED
    BY <1>6, <1>7, <1>8, <2>1, <2>2
<1>10. CASE r2 = [r EXCEPT !.calling = FALSE, !.rc = Len(r.got)] /\ k2 = k
  <2>1. r2.got = r.got /\ r2.buf = r.buf
    BY <1>4, <1>10 DEF RioCall
  <2> QED
    BY <1>6, <1>7, <1>8, <1>10, <2>1
<1>11. CASE /\ k = <<>> /\ peer[s] = "reset" /\ k2 = k
            /\ r2 = [r EXCEPT !.calling = FALSE, !.got = <<>>, !.rc = -1]
  <2>1. r2.got = <<>> /\ r2.buf = <<>>
    BY <1>4, <1>5, <1>11 DEF RioCall
  <2>2. PICK none \in Seq(Byte) : none = <<>>
    BY NothingCut
  <2>3. none \o none = none
    BY <2>2, ConcatEmptySeq
  <2>4. InHand(c)' = none
    BY <1>7, <1>11, <2>1, <2>2, <2>3
  <2>5. PICK g \in Seq(Byte) : g = r.got /\ InHand(c) = g
    <3>1. r.got \o none = r.got
      BY <1>5, <2>2, ConcatEmptySeq
    <3> QED
      BY <1>5, <1>6, <1>11, <2>2, <3>1
  <2> SUFFICES ASSUME asked'[c] # <<>>, Present(c)'
               PROVE  \E q \in Gets(c)' : \E x, y \in Seq(Byte) :
                        /\ sent'[RequestOf(c)] = Own(q) \o x
                        /\ sent'[ForwardOf(c)] = x \o InHand(c)' \o y
                        /\ y = <<>> \/ over'[ForwardOf(c)] = "dropped"
    BY DEF RelayFor, Own
  <2>6. asked[c] # <<>> /\ Present(c) /\ Gets(c)' = Gets(c)
    BY <1>0, ReasonsSame DEF Present
  <2>7. over[ForwardOf(c)] = "dropped"
    BY <1>3, <1>11, <2>6 DEF ClientFor, ResetFor
  <2>8. PICK q \in Gets(c) : \E x, y \in Seq(Byte) :
                        /\ sent[RequestOf(c)] = Own(q) \o x
                        /\ sent[ForwardOf(c)] = x \o InHand(c) \o y
    BY <2>6 DEF RelayFor, ClientFor
  <2>9. PICK x \in Seq(Byte), y \in Seq(Byte) :
                        /\ sent[RequestOf(c)] = Own(q) \o x
                        /\ sent[ForwardOf(c)] = x \o InHand(c) \o y
    BY <2>8
  <2>10. PICK y2 \in Seq(Byte) : y2 = g \o y
    BY ConcatProperties
  <2>11. x \o none = x
    BY <2>2, ConcatEmptySeq
  <2>12. (x \o g) \o y = x \o y2
    <3>1. Assoc(x, g, y)
      BY AssocIs
    <3> QED
      BY <2>10, <3>1, Zenon DEF Assoc
  <2>13. sent'[ForwardOf(c)] = x \o InHand(c)' \o y2
    BY <1>0, <2>4, <2>5, <2>9, <2>11, <2>12
  <2> QED
    BY <1>0, <2>6, <2>7, <2>9, <2>13
<1> QED
  BY <1>1, <1>3, <1>4, <1>4a, <1>9, <1>10, <1>11 DEF Reading

\* The response goes on.
LEMMA RelayingServes ==
    ASSUME ControlInv, ControlInv', ServedFor, ProxyLeavesTiny, ProxyServes, NEW c \in Proxied, c = proxy.c,
           Relaying(c), Relaying(c)', ClientFor(c)
    PROVE  ClientFor(c)'
<1>0. /\ c \in Proxied /\ (proxy.pc = "relay" \/ (proxy.pc = "write" /\ proxy.then = "relay"))
      /\ proxy'.pc \in {"relay", "write"} /\ Here = RequestOf(c)
  BY DEF Relaying, Here
<1> HIDE DEF Here
<1>1. ProxyPuts \/ ProxyTurns \/ ProxyAsksRio \/ ProxyHears
  BY <1>0 DEF ProxyServes, ProxyConnects, ProxyAsksTiny, ProxyLetsGo, ProxyDies
<1>2. ReplyOf(c) \in Streams /\ rio \in [Streams -> RioCall]
  BY Names DEF ControlInv, RioInv
<1>3. RelaysOn(c)
  <2>1. asked' = asked /\ over' = over /\ tinyQueue' = tinyQueue
    BY <1>1 DEF ProxyPuts, ProxyTurns, ProxyAsksRio, ProxyHears, connVars
  <2>2. kernel'[ForwardOf(c)] = kernel[ForwardOf(c)]
    BY <1>1 DEF ProxyPuts, ProxyTurns, ProxyAsksRio, ProxyHears, rioVars
  <2>3. peer'[ReplyOf(c)] = "reset" => peer[ReplyOf(c)] = "reset"
    BY <1>0, <1>1 DEF ProxyPuts, ProxyTurns, ProxyAsksRio, ProxyHears, rioVars, Reading
  <2> QED
    BY <2>1, <2>2, <2>3 DEF RelaysOn
<1>4. RelayFor(c)'
  <2>1. CASE ProxyPuts
    BY <2>1, PutsRelays
  <2>2. CASE ProxyTurns
    <3>1. InHand(c)' = InHand(c)
      BY <2>2, TurnsRelays DEF ServedFor
    <3> QED
      BY <2>2, <3>1, HandKept DEF ProxyTurns, connVars, ClientFor
  <2>3. CASE ProxyAsksRio
    <3>1. InHand(c)' = InHand(c)
      BY <2>3, AsksRelays
    <3> QED
      BY <2>3, <3>1, HandKept DEF ProxyAsksRio, connVars, ClientFor
  <2>4. CASE ProxyHears
    BY <2>4, HearsRelays
  <2> QED
    BY <1>1, <2>1, <2>2, <2>3, <2>4
<1> QED
  BY <1>3, <1>4, RelayingStays

-----------------------------------------------------------------------------
\* The proxy has passed on all, and closes; then tiny has closed before.
LEMMA LetsGoRelays ==
    ASSUME ControlInv, ServedFor, ProxyLeavesTiny, ProxyLetsGo, NEW c \in Proxied, c = proxy.c,
           Relaying(c), ClientFor(c)
    PROVE  ClientFor(c)'
<1>0. /\ tiny' = tiny /\ phase' = phase /\ over'[ForwardOf(c)] = over[ForwardOf(c)]
      /\ Present(c)' = Present(c) /\ TinyUp' = TinyUp
  BY DEF ProxyLeavesTiny, Present, TinyUp
<1>1. /\ proxy'.pc = "accept" /\ over'[RequestOf(c)] = "served"
      /\ rioVars' = rioVars /\ kernel' = kernel /\ rio' = rio /\ peer' = peer
      /\ sent' = sent /\ tinyQueue' = tinyQueue /\ asked' = asked
  BY DEF ProxyLetsGo, rioVars, Here
<1>2. ~Relaying(c)'
  BY <1>1 DEF Relaying
<1>3. proxy.pc = "relay" /\ ~rio[ReplyOf(c)].calling /\ rio[ReplyOf(c)].rc = 0
  BY DEF ProxyLetsGo, Relaying
<1>4. /\ peer[ReplyOf(c)] # "open" /\ kernel[ReplyOf(c)] = <<>>
      /\ rio[ReplyOf(c)].got = <<>> /\ rio[ReplyOf(c)].buf = <<>>
  <2>1. rio[ReplyOf(c)].rc <= 0
    BY <1>3
  <2> QED
    BY <1>3, <2>1 DEF ServedFor, EndsFor
<1>5. TinyAway(c)'
  BY <1>0, <1>1, <1>4 DEF TinyAway, TinyAt, TinyUp, ControlInv, PeerInv
<1>6. InHand(c)' = InHand(c)
  <2>1. PICK none \in Seq(Byte) : none = <<>>
    BY NothingCut
  <2>2. none \o none = none
    BY <2>1, ConcatEmptySeq
  <2>3. InHand(c) = none
    BY <1>3, <1>4, <2>1, <2>2 DEF InHand
  <2> QED
    BY <1>2, <2>1, <2>3 DEF InHand
<1>7. RelayFor(c)'
  BY <1>1, <1>6, HandKept DEF ClientFor
<1>8. DoneFor(c)'
  BY <1>1, <1>2, <1>5 DEF DoneFor, ClientFor
<1>9. TinyReadsFor(c)' /\ ResetFor(c)'
  BY <1>0, <1>2 DEF TinyReadsFor, ResetFor, ClientFor
<1> QED
  BY <1>0, <1>1, <1>7, <1>8, <1>9 DEF ClientFor

\* The proxy goes down because the client is gone.
LEMMA DiesRelays ==
    ASSUME ControlInv, ProxyLeavesTiny, ProxyDies, NEW c \in Proxied, c = proxy.c, proxy.pc # "accept",
           Relaying(c), ClientFor(c)
    PROVE  ClientFor(c)'
<1>0. /\ phase' = phase /\ tiny' = tiny /\ over'[ForwardOf(c)] = over[ForwardOf(c)]
      /\ Present(c)' = Present(c) /\ TinyUp' = TinyUp
  BY DEF ProxyLeavesTiny, Present, TinyUp
<1>1. proxy'.pc = "down" /\ over'[RequestOf(c)] = "dropped" /\ asked' = asked /\ peer[Here] = "reset"
  BY DEF ProxyDies, Here, Relaying
<1>2. ~Present(c)
  BY <1>1, Served
<1>3. ~Relaying(c)' /\ asked[c] # <<>>
  BY <1>1 DEF Relaying, ClientFor, DoneFor
<1>4. DoneFor(c)'
  BY <1>1, <1>3 DEF DoneFor
<1>5. TinyReadsFor(c)' /\ ResetFor(c)' /\ RelayFor(c)'
  BY <1>0, <1>2, <1>3 DEF TinyReadsFor, ResetFor, RelayFor, ClientFor
<1> QED
  BY <1>0, <1>1, <1>2, <1>4, <1>5 DEF ClientFor

\* The request is sent to tiny: where tiny waits for it, it reads all of it.
LEMMA AsksReads ==
    ASSUME ControlInv, ProxyAsksTiny, ProxyLeavesTiny, NEW c \in Proxied, c = proxy.c, IsWhole(proxy.request)
    PROVE  TinyReadsFor(c)'
<1>0. /\ tiny' = tiny /\ phase' = phase /\ rio' = rio /\ tinyQueue' = tinyQueue
      /\ TinyUp' = TinyUp /\ (TinyAt(ForwardOf(c))' <=> TinyAt(ForwardOf(c)))
      /\ proxy.request \in Seq(Byte)
  BY DEF ProxyLeavesTiny, ProxyAsksTiny, TinyUp, TinyAt, ControlInv, TypeInv, ProxyType
<1>1. PICK s \in Streams, b \in Seq(Byte) : s = ForwardOf(c) /\ b = proxy.request /\ IsWhole(b) /\ s \in Requests
  BY <1>0, Names
<1>2. asked'[c] = b
  BY <1>1 DEF ProxyAsksTiny
<1> SUFFICES ASSUME TinyUp, TinyAt(s) PROVE TinyReadsFor(c)'
  BY <1>0, <1>1 DEF TinyReadsFor
<1>3. /\ kernel[s] = <<>> /\ tiny.pc = "requestline" /\ rio[s].calling /\ rio[s].got = <<>>
      /\ peer[ReplyOf(c)] = "open"
  <2>1. s \notin ToSet(tinyQueue)
    BY DEF ControlInv, TinyQueueInv
  <2> QED
    BY <1>1, <2>1 DEF ControlInv, SendInv, PeerInv, ProxyAsksTiny
<1>4. kernel'[s] = kernel[s] \o b
  BY <1>1, <1>3 DEF ProxyAsksTiny
<1>5. rio[s].buf = <<>>
  BY <1>1, <1>3 DEF ControlInv, RioInv, CallOK
<1>6. Rest(s)' = b
  <2>1. PICK none \in Seq(Byte) : none = <<>>
    BY NothingCut
  <2>2. none \o none = none /\ none \o b = b
    BY <2>1, ConcatEmptySeq
  <2> QED
    BY <1>0, <1>3, <1>4, <1>5, <2>1, <2>2 DEF Rest
<1>7. AtLine(s, b)'
  <2>1. PICK D \in SUBSET (0..Len(Body(b))) : CutAt(Body(b), D)
    BY <1>1, BodyIs
  <2>2. 0 \in D /\ b = SubSeq(b, 0 + 1, Len(b))
    BY <2>1 DEF CutAt
  <2> QED
    BY <1>6, <2>1, <2>2 DEF AtLine
<1>8. AtLine(s, asked[c])'
  BY <1>2, <1>7 DEF AtLine
<1> QED
  BY <1>0, <1>1, <1>3, <1>8 DEF TinyReadsFor

\* And there is nothing yet of the response.
LEMMA AsksRelays0 ==
    ASSUME ControlInv, ControlInv', TextInv, ServedFor, ProxyAsksTiny, ProxyLeavesTiny,
           NEW c \in Proxied, c = proxy.c, proxy'.c = c, asked[c] = <<>>, ClientFor(c)
    PROVE  RelayFor(c)'
<1>0. /\ phase' = phase /\ script' = script /\ rio' = rio /\ sent' = sent
      /\ proxy.pc = "send" /\ proxy'.pc = "write" /\ proxy'.then = "relay" /\ proxy'.out = <<>>
      /\ kernel'[ReplyOf(c)] = kernel[ReplyOf(c)] /\ Here = RequestOf(c)
  BY DEF ProxyLeavesTiny, ProxyAsksTiny, connVars, Here
<1> SUFFICES ASSUME Present(c)'
             PROVE  \E r \in Gets(c)' : \E x, y \in Seq(Byte) :
                      /\ sent'[RequestOf(c)] = Own(r) \o x
                      /\ sent'[ForwardOf(c)] = x \o InHand(c)' \o y
                      /\ y = <<>> \/ over'[ForwardOf(c)] = "dropped"
  BY DEF RelayFor, Own
<1>1. Present(c) /\ Gets(c)' = Gets(c)
  BY <1>0, ReasonsSame DEF Present
<1>2. PICK r \in Gets(c) : r = RequestLines[proxy.text]
  BY <1>0 DEF TextInv, IsAsked
<1> HIDE DEF Here
<1>3. sent[RequestOf(c)] = Own(r)
  BY <1>0, <1>1, <1>2 DEF ServedFor, OwnFor
<1>4. sent[ForwardOf(c)] = <<>> /\ kernel[ReplyOf(c)] = <<>> /\ rio[ReplyOf(c)].buf = <<>>
  BY DEF ClientFor, DoneFor
<1>5. PICK none \in Seq(Byte), own \in Seq(Byte) : none = <<>> /\ own = Own(r)
  BY NothingCut, OwnType
<1>6. none \o none = none /\ own \o none = own
  BY <1>5, ConcatEmptySeq
<1>7. InHand(c)' = none
  <2>1. FlattenSeq(proxy'.out) = none
    BY <1>0, <1>5, FlattenNone
  <2>2. Relaying(c)'
    BY <1>0 DEF Relaying
  <2> QED
    BY <1>0, <1>4, <1>5, <1>6, <2>1, <2>2 DEF InHand
<1>8. sent'[RequestOf(c)] = Own(r) \o none /\ sent'[ForwardOf(c)] = none \o InHand(c)' \o none
  BY <1>0, <1>3, <1>4, <1>5, <1>6, <1>7
<1> QED
  BY <1>1, <1>5, <1>8

\* So all is well for the client.
LEMMA AsksFor ==
    ASSUME ControlInv, ControlInv', TextInv, ServedFor, ProxyAsksTiny, ProxyLeavesTiny,
           NEW c \in Proxied, c = proxy.c, proxy'.c = c, ClientFor(c)
    PROVE  ClientFor(c)'
<1>0. /\ phase' = phase /\ over' = over /\ tiny' = tiny /\ proxy.pc = "send"
      /\ proxy'.pc = "write" /\ proxy'.then = "relay" /\ asked'[c] = proxy.request
      /\ peer'[ReplyOf(c)] # "reset"
      /\ Present(c)' = Present(c) /\ TinyUp' = TinyUp
  BY DEF ProxyLeavesTiny, ProxyAsksTiny, connVars, Present, TinyUp
<1>1. ~Relaying(c) /\ Relaying(c)' /\ ProxyAt(c)' /\ proxy.pc \notin {"accept", "down"}
  BY <1>0 DEF Relaying, ProxyAt
<1>2. asked[c] = <<>> /\ over[RequestOf(c)] = "no"
  <2>1. Here = RequestOf(c)
    BY DEF Here
  <2> HIDE DEF Here
  <2> QED
    BY <1>1, <2>1, NotAskedYet
<1>3. asked'[c] # <<>>
  BY <1>0 DEF TextInv
<1>4. Present(c) => IsWhole(proxy.request)
  BY <1>0 DEF ServedFor, TakesFor
<1>5. TinyReadsFor(c)'
  <2>1. CASE Present(c)
    BY <1>4, <2>1, AsksReads
  <2>2. CASE ~Present(c)
    BY <1>0, <2>2 DEF TinyReadsFor
  <2> QED
    BY <2>1, <2>2
<1>6. RelayFor(c)'
  BY <1>2, AsksRelays0
<1>7. DoneFor(c)'
  BY <1>0, <1>2, <1>3 DEF DoneFor
<1>8. ResetFor(c)'
  <2>1. over'[ForwardOf(c)] = over[ForwardOf(c)]
    BY <1>0
  <2> QED
    BY <1>0, <2>1 DEF ResetFor, ClientFor
<1> QED
  BY <1>0, <1>1, <1>2, <1>4, <1>5, <1>6, <1>7, <1>8 DEF ClientFor

\* Whatever the proxy does for the client that it serves.
LEMMA ServedClient ==
    ASSUME ControlInv, ControlInv', TextInv, ServedFor, ProxyLeavesTiny, ProxyServes,
           NEW c \in Proxied, c = proxy.c, ClientFor(c)
    PROVE  ClientFor(c)'
<1>1. proxy.pc \notin {"accept", "down"} /\ (proxy'.pc # "accept" => proxy'.c = c)
  BY DEF ProxyServes
<1>2. CASE ~Relaying(c) /\ ~Relaying(c)'
  <2>1. Aside(c)
    BY <1>2, EarlyAside
  <2> QED
    BY <2>1, AsideStays
<1>3. CASE Relaying(c) /\ Relaying(c)'
  BY <1>3, RelayingServes
<1>4. CASE ~Relaying(c) /\ Relaying(c)'
  <2>1. ProxyAsksTiny
    BY <1>1, <1>4 DEF ProxyServes, Relaying, ProxyPuts, ProxyTurns, ProxyAsksRio, ProxyConnects,
                      ProxyHears, ProxyLetsGo, ProxyDies
  <2> QED
    BY <1>1, <2>1, AsksFor DEF ProxyAsksTiny
<1>5. CASE Relaying(c) /\ ~Relaying(c)'
  <2>1. ProxyLetsGo \/ ProxyDies
    BY <1>1, <1>5 DEF ProxyServes, Relaying, ProxyPuts, ProxyTurns, ProxyAsksRio, ProxyConnects,
                      ProxyHears, ProxyAsksTiny
  <2> QED
    BY <1>1, <1>5, <2>1, LetsGoRelays, DiesRelays
<1> QED
  BY <1>2, <1>3, <1>4, <1>5

-----------------------------------------------------------------------------
\* What the proxy has taken over, its end of the response, and its own reply,
\* after each form of a step.
LEMMA PutsOn ==
    ASSUME ControlInv, ControlInv', ServedFor, ProxyLeavesTiny, ProxyPuts, proxy'.c = proxy.c, proxy.c \in Proxied
    PROVE  ServedFor'
<1>0. /\ proxy.pc = "write" /\ proxy'.pc = "write" /\ proxy.out # <<>> /\ proxy'.out = Tail(proxy.out)
      /\ proxy'.then = proxy.then /\ proxy'.text = proxy.text
      /\ Present(proxy.c)' = Present(proxy.c) /\ Here' = Here
      /\ Present(proxy.c) => sent'[Here] = sent[Here] \o Head(proxy.out)
      /\ proxy.out \in Seq(Seq(Byte)) /\ sent \in [Requests -> Seq(Byte)] /\ Here \in Requests
  <2>1. /\ proxy.pc = "write" /\ proxy'.pc = "write" /\ proxy.out # <<>> /\ proxy'.out = Tail(proxy.out)
        /\ proxy'.then = proxy.then /\ proxy'.text = proxy.text
        /\ Present(proxy.c) => sent'[Here] = sent[Here] \o Head(proxy.out)
    BY DEF ProxyPuts
  <2>2. Present(proxy.c)' = Present(proxy.c) /\ Here' = Here
    BY DEF ProxyLeavesTiny, Present, Here
  <2>3. proxy.out \in Seq(Seq(Byte)) /\ sent \in [Requests -> Seq(Byte)]
    BY DEF ControlInv, TypeInv, ProxyType
  <2>4. Here \in Requests
    <3>1. proxy.pc # "accept"
      BY <2>1
    <3> QED
      BY <3>1, Served, Zenon
  <2> QED
    BY <2>1, <2>2, <2>3, <2>4
<1>1. TakesFor' /\ EndsFor'
  BY <1>0 DEF TakesFor, EndsFor
<1> HIDE DEF Here
<1>2. ASSUME proxy.then = "headers", Present(proxy.c)
      PROVE  sent'[Here] \o FlattenSeq(proxy'.out) = Own(RequestLines[proxy.text])
  <2>1. sent[Here] \o FlattenSeq(proxy.out) = Own(RequestLines[proxy.text])
    BY <1>0, <1>2 DEF ServedFor, OwnFor
  <2>2. PICK s \in Seq(Byte) : s = sent[Here]
    BY <1>0
  <2>3. /\ Head(proxy.out) \in Seq(Byte) /\ FlattenSeq(Tail(proxy.out)) \in Seq(Byte)
        /\ FlattenSeq(proxy.out) = Head(proxy.out) \o FlattenSeq(Tail(proxy.out))
    BY <1>0, FlattenHead
  <2>4. PICK h \in Seq(Byte), t \in Seq(Byte) : h = Head(proxy.out) /\ t = FlattenSeq(Tail(proxy.out))
    BY <2>3
  <2>5. Assoc(s, h, t)
    BY AssocIs
  <2>6. (s \o h) \o t = s \o (h \o t)
    BY <2>5, Zenon DEF Assoc
  <2> QED
    BY <1>0, <1>2, <2>1, <2>2, <2>3, <2>4, <2>6
<1>3. OwnFor'
  BY <1>0, <1>2 DEF OwnFor, Own
<1> QED
  BY <1>1, <1>3 DEF ServedFor

\* It turns to its own reply, to the connection to tiny, or to the client.
LEMMA TurnsOn ==
    ASSUME ControlInv, ControlInv', ServedFor, ProxyLeavesTiny, ProxyTurns, proxy'.c = proxy.c, proxy.c \in Proxied,
           ClientFor(proxy.c)
    PROVE  ServedFor'
<1>0. /\ Present(proxy.c)' = Present(proxy.c) /\ Here' = Here /\ sent' = sent /\ rio' = rio
      /\ Here = RequestOf(proxy.c)
  BY DEF ProxyTurns, ProxyLeavesTiny, Present, Here, connVars, rioVars
<1> HIDE DEF Here
<1>1. CASE /\ proxy.pc = "requestline" /\ proxy'.pc = "write"
           /\ \/ proxy'.then = "close"
              \/ proxy'.then = "headers" /\ proxy'.out = modify_http_version(RequestLines[proxy'.text])
  <2>1. TakesFor' /\ EndsFor'
    BY <1>1 DEF TakesFor, EndsFor
  <2>2. sent[Here] = <<>>
    <3>1. over[Here] = "no"
      BY <1>1 DEF ControlInv, ServingInv
    <3> QED
      BY <1>0, <1>1, <3>1 DEF ClientFor
  <2>3. proxy'.then = "headers" => sent'[Here] \o FlattenSeq(proxy'.out) = Own(RequestLines[proxy'.text])
    <3>1. ASSUME proxy'.then = "headers" PROVE FlattenSeq(proxy'.out) = Own(RequestLines[proxy'.text])
      BY <1>1, <3>1 DEF Own
    <3>2. Own(RequestLines[proxy'.text]) \in Seq(Byte)
      BY OwnType
    <3> QED
      BY <1>0, <2>2, <3>1, <3>2, ConcatEmptySeq
  <2>4. OwnFor'
    BY <1>0, <1>1, <2>3 DEF OwnFor, Own
  <2> QED
    BY <2>1, <2>4 DEF ServedFor
<1>2. CASE /\ proxy.pc = "headers" /\ ~rio[Here].calling /\ proxy'.pc = "connect"
           /\ proxy'.text = proxy.text /\ proxy'.request = WithAdded(proxy.request)
  <2>1. Present(proxy.c) => IsWhole(proxy'.request)
    <3>1. proxy.request \in Seq(Byte)
      BY DEF ControlInv, TypeInv, ProxyType
    <3>2. Present(proxy.c) => InPieces(proxy.request)
      BY <1>2 DEF ServedFor, TakesFor
    <3> QED
      BY <1>2, <3>1, <3>2, WithAddedWhole
  <2>2. TakesFor' /\ EndsFor'
    BY <1>0, <1>2, <2>1 DEF TakesFor, EndsFor
  <2>3. Present(proxy.c) => sent[Here] = Own(RequestLines[proxy.text])
    BY <1>2 DEF ServedFor, OwnFor
  <2>4. OwnFor'
    BY <1>0, <1>2, <2>3 DEF OwnFor, Own
  <2> QED
    BY <2>2, <2>4 DEF ServedFor
<1>3. CASE proxy'.pc = "write" /\ proxy'.then = "relay"
  BY <1>3 DEF ServedFor, TakesFor, EndsFor, OwnFor
<1> QED
  BY <1>1, <1>2, <1>3 DEF ProxyTurns

\* It calls Rio_readlineb, or Rio_readnb.
LEMMA AsksOn ==
    ASSUME ControlInv, ControlInv', ServedFor, ProxyLeavesTiny, ProxyAsksRio, proxy'.c = proxy.c, proxy.c \in Proxied,
           proxy.pc \notin {"accept", "down"}
    PROVE  ServedFor'
<1>0. /\ Present(proxy.c)' = Present(proxy.c) /\ Here' = Here /\ sent' = sent
      /\ Here = RequestOf(proxy.c) /\ rio \in [Streams -> RioCall]
      /\ Here \in Requests /\ Here \in Streams /\ ReplyOf(proxy.c) \in Streams
      /\ sent \in [Requests -> Seq(Byte)] /\ proxy.request \in Seq(Byte)
      /\ proxy.text \in DOMAIN RequestLines
  BY Served DEF ProxyAsksRio, ProxyLeavesTiny, Present, Here, connVars, RioInv, ControlInv, TypeInv, ProxyType
<1> HIDE DEF Here
<1>1. CASE rio' = Called(Here) /\ proxy'.pc = "headers" /\ proxy'.text = proxy.text
  <2>1. ~rio'[Here].calling => HasLine(rio'[Here])
    <3>1. PICK s \in Streams, r \in RioCall, k \in Seq(Byte) : s = Here /\ r = rio[s] /\ k = <<>> /\ s \in Requests
      BY <1>0, NothingCut
    <3>2. PICK r2 : r2 = rio'[s]
      OBVIOUS
    <3>3. r2 = Copied(s, [r EXCEPT !.got = <<>>])
      BY <1>0, <1>1, <3>1, <3>2 DEF Called
    <3>4. CallsOn(s, r, r2)
      BY <3>3, CallIs
    <3>5. ~r2.calling => HasLine(r2)
      BY <3>1, <3>4, NextLine
    <3> QED
      BY <3>1, <3>2, <3>5
  <2>2. Present(proxy.c) => InPieces(proxy'.request)
    <3>1. CASE proxy'.request = <<RequestLines[proxy.text].file>> \o CRLF
      <4>1. /\ RequestLines[proxy.text].file \in DOMAIN RequestLines
            /\ {"cr", "lf"} \cap DOMAIN RequestLines = {}
        BY <1>0, RequestPathAssumption
      <4>2. RequestLines[proxy.text].file \in Byte
        BY <1>0, Strings
      <4>3. PICK name \in Byte : name = RequestLines[proxy.text].file /\ name # "cr" /\ name # "lf"
        BY <4>1, <4>2
      <4>4. PICK none \in Seq(Byte) : none = <<>> /\ InPieces(none)
        BY NothingCut
      <4>5. InPieces(none \o (<<name>> \o CRLF))
        BY <4>3, <4>4, NameAppend
      <4>6. <<name>> \o CRLF \in Seq(Byte)
        BY <4>3, Strings
      <4>7. none \o (<<name>> \o CRLF) = <<name>> \o CRLF
        BY <4>4, <4>6, ConcatEmptySeq
      <4> QED
        BY <3>1, <4>3, <4>5, <4>7
    <3>2. CASE /\ proxy.pc = "headers" /\ ~rio[Here].calling /\ rio[Here].got # CRLF
               /\ proxy'.request = proxy.request \o rio[Here].got
      <4> SUFFICES ASSUME Present(proxy.c) PROVE InPieces(proxy'.request)
        OBVIOUS
      <4>1. HasLine(rio[Here]) /\ InPieces(proxy.request)
        BY <3>2 DEF ServedFor, TakesFor
      <4>2. PICK b \in Seq(Byte) : b = proxy.request
        BY <1>0
      <4>3. rio[Here].got \in Seq(Byte)
        BY <1>0 DEF RioCall
      <4>4. PICK x \in Seq(Byte) : x = rio[Here].got
        BY <4>3
      <4> QED
        BY <3>2, <4>1, <4>2, <4>4, CutAppend DEF HasLine
    <3> QED
      BY <1>1, <3>1, <3>2 DEF ProxyAsksRio
  <2>3. Present(proxy.c) => sent[Here] = Own(RequestLines[proxy.text])
    <3>1. CASE proxy.pc = "write" /\ proxy.out = <<>> /\ proxy.then = "headers"
      <4> SUFFICES ASSUME Present(proxy.c) PROVE sent[Here] = Own(RequestLines[proxy.text])
        OBVIOUS
      <4>1. sent[Here] \o FlattenSeq(proxy.out) = Own(RequestLines[proxy.text])
        BY <3>1 DEF ServedFor, OwnFor
      <4>2. sent[Here] \o <<>> = sent[Here]
        BY <1>0, ConcatEmptySeq
      <4> QED
        BY <3>1, <4>1, <4>2, FlattenNone
    <3>2. CASE proxy.pc = "headers"
      BY <3>2 DEF ServedFor, OwnFor
    <3> QED
      BY <1>1, <3>1, <3>2 DEF ProxyAsksRio
  <2>4. TakesFor' /\ EndsFor'
    BY <1>0, <1>1, <2>1, <2>2 DEF TakesFor, EndsFor
  <2>5. OwnFor'
    BY <1>0, <1>1, <2>3 DEF OwnFor, Own
  <2> QED
    BY <2>4, <2>5 DEF ServedFor
<1>2. CASE rio' = Called(ReplyOf(proxy.c)) /\ proxy'.pc = "relay"
  <2>1. ~rio'[ReplyOf(proxy.c)].calling => rio'[ReplyOf(proxy.c)].rc > 0
    <3>1. PICK s \in Streams, r \in RioCall : s = ReplyOf(proxy.c) /\ r = rio[s]
      BY <1>0
    <3>2. PICK r2 : r2 = rio'[s]
      OBVIOUS
    <3>3. r2 = Copied(s, [r EXCEPT !.got = <<>>])
      BY <1>0, <1>2, <3>1, <3>2 DEF Called
    <3>4. CallsOn(s, r, r2)
      BY <3>3, CallIs
    <3>5. ~r2.calling => r2.got \in Seq(Byte) /\ r2.got # <<>> /\ r2.rc = Len(r2.got)
      BY <3>4 DEF CallsOn, CallOK, RioCall, Piece
    <3>6. ~r2.calling => r2.rc > 0
      BY <3>5
    <3> QED
      BY <3>1, <3>2, <3>6
  <2>2. ~rio'[ReplyOf(proxy.c)].calling => ~(rio'[ReplyOf(proxy.c)].rc <= 0)
    <3>1. rio'[ReplyOf(proxy.c)] \in RioCall
      BY <1>0 DEF ControlInv, RioInv
    <3>2. rio'[ReplyOf(proxy.c)].rc \in Int
      BY <3>1 DEF RioCall
    <3> QED
      BY <2>1, <3>2
  <2> QED
    BY <1>2, <2>2 DEF ServedFor, TakesFor, EndsFor, OwnFor
<1> QED
  BY <1>1, <1>2 DEF ProxyAsksRio

\* It reads a line, or a block.
LEMMA HearsOn ==
    ASSUME ControlInv, ControlInv', ServedFor, ProxyLeavesTiny, ProxyHears, proxy.c \in Proxied,
           proxy.pc \notin {"accept", "down"}
    PROVE  ServedFor'
<1>0. /\ Present(proxy.c)' = Present(proxy.c) /\ Here' = Here /\ sent' = sent /\ proxy' = proxy
      /\ Here \in Requests /\ Here \in Streams /\ ReplyOf(proxy.c) \in Streams
      /\ RioInv /\ (peer[Here] = "open" <=> Present(proxy.c))
  BY Served DEF ProxyHears, ProxyLeavesTiny, Present, Here, connVars
<1> HIDE DEF Here
<1>1. OwnFor'
  BY <1>0 DEF ServedFor, OwnFor, Own
<1>2. CASE proxy.pc \in {"requestline", "headers"} /\ Reading(Here)
  <2>1. ASSUME Present(proxy.c), ~rio'[Here].calling PROVE HasLine(rio'[Here])
    <3>1. PICK s \in Streams : s = Here /\ s \in Requests
      BY <1>0
    <3>2. CallOK(s, rio[s]) /\ kernel[s] \in Seq(Byte) /\ rio[s] \in RioCall
      BY <1>0 DEF RioInv
    <3>3. PICK r \in RioCall, k \in Seq(Byte) : r = rio[s] /\ k = kernel[s]
      BY <3>2
    <3>4. PICK r2, k2 : r2 = rio'[s] /\ k2 = kernel'[s]
      OBVIOUS
    <3>5. ReadsOn(s, r, k, r2, k2) /\ r.calling
      BY <1>0, <1>2, <2>1, <3>1, <3>3, <3>4 DEF Reading
    <3>6. ~r2.calling => HasLine(r2)
      BY <3>1, <3>2, <3>3, <3>5, MoreRead
    <3> QED
      BY <2>1, <3>1, <3>4, <3>6
  <2>2. TakesFor' /\ EndsFor'
    BY <1>0, <1>2, <2>1 DEF ServedFor, TakesFor, EndsFor
  <2> QED
    BY <1>1, <2>2 DEF ServedFor
<1>3. CASE proxy.pc = "relay" /\ Reading(ReplyOf(proxy.c))
  <2>1. PICK s \in Streams : s = ReplyOf(proxy.c)
    BY <1>0
  <2>2. /\ CallOK(s, rio[s]) /\ rio[s].calling /\ rio[s] \in RioCall /\ peer[s] \in Peer
    BY <1>0, <1>3, <2>1 DEF RioInv, Reading
  <2>3. rio[s].buf = <<>> /\ rio[s].got \in Seq(Byte)
    BY <2>2 DEF CallOK, RioCall
  <2>4. ASSUME ~rio'[s].calling, rio'[s].rc <= 0
        PROVE  peer'[s] # "open" /\ kernel'[s] = <<>> /\ rio'[s].got = <<>> /\ rio'[s].buf = <<>>
    <3>1. PICK r \in RioCall, r2 \in {rio'[s]} : r = rio[s] /\ r2 = rio'[s]
      BY <2>2
    <3>2. CASE ReadsOn(s, r, kernel[s], r2, kernel'[s])
      <4>1. r2.got \in Seq(Byte) /\ r2.got # <<>> /\ r2.rc = Len(r2.got)
        BY <2>4, <3>1, <3>2 DEF ReadsOn, CallOK, RioCall, Piece
      <4>2. FALSE
        BY <2>4, <3>1, <4>1
      <4> QED
        BY <4>2
    <3>3. CASE /\ kernel[s] = <<>> /\ peer[s] \notin {"open", "reset"}
               /\ r2 = [r EXCEPT !.calling = FALSE, !.rc = Len(r.got)]
               /\ kernel'[s] = kernel[s] /\ peer'[s] = peer[s]
      <4>1. r2.rc = Len(r.got) /\ r2.got = r.got /\ r2.buf = r.buf
        BY <3>1, <3>3 DEF RioCall
      <4>2. r.got = <<>>
        BY <2>3, <2>4, <3>1, <4>1
      <4> QED
        BY <2>3, <3>1, <3>3, <4>1, <4>2
    <3>4. CASE /\ kernel[s] = <<>> /\ kernel'[s] = kernel[s] /\ peer'[s] = "noticed"
               /\ r2 = [r EXCEPT !.calling = FALSE, !.got = <<>>, !.rc = -1]
      <4>1. r2.got = <<>> /\ r2.buf = r.buf
        BY <3>1, <3>4 DEF RioCall
      <4> QED
        BY <2>3, <3>1, <3>4, <4>1
    <3> QED
      BY <1>3, <2>1, <3>1, <3>2, <3>3, <3>4 DEF Reading
  <2>5. EndsFor'
    BY <1>0, <2>1, <2>4 DEF EndsFor
  <2>6. TakesFor'
    BY <1>0, <1>3 DEF TakesFor
  <2> QED
    BY <1>1, <2>5, <2>6 DEF ServedFor
<1> QED
  BY <1>2, <1>3 DEF ProxyHears

\* Whatever it does.
LEMMA ServedOn ==
    ASSUME ControlInv, ControlInv', ServedFor, ProxyIsDoing, proxy.pc # "accept" => ClientFor(proxy.c)
    PROVE  ServedFor'
<1>0. ProxyLeavesTiny /\ (ProxyTakesOne \/ ProxyServes)
  BY DEF ProxyIsDoing
<1>1. CASE ProxyTakesOne
  <2>1. proxy'.pc = "requestline" /\ rio'[Here'].calling
    BY <1>1 DEF ProxyTakesOne, Here
  <2> QED
    BY <2>1 DEF ServedFor, TakesFor, EndsFor, OwnFor
<1>2. CASE ProxyServes
  <2>1. /\ proxy.pc \notin {"accept", "down"} /\ proxy.c \in Proxied
        /\ proxy'.pc # "accept" => proxy'.c = proxy.c
    BY <1>2 DEF ProxyServes
  <2>2. CASE ProxyPuts
    BY <1>0, <2>1, <2>2, PutsOn DEF ProxyPuts
  <2>3. CASE ProxyTurns
    <3>1. proxy'.pc # "accept"
      BY <2>3 DEF ProxyTurns
    <3> QED
      BY <1>0, <2>1, <2>3, <3>1, TurnsOn
  <2>4. CASE ProxyAsksRio
    <3>1. proxy'.pc # "accept"
      BY <2>4 DEF ProxyAsksRio
    <3> QED
      BY <1>0, <2>1, <2>4, <3>1, AsksOn
  <2>5. CASE ProxyHears
    BY <1>0, <2>1, <2>5, HearsOn
  <2>6. CASE ProxyConnects
    <3>1. /\ proxy.pc = "connect" /\ proxy'.pc = "send" /\ proxy'.c = proxy.c
          /\ proxy'.text = proxy.text /\ proxy'.request = proxy.request /\ sent' = sent
          /\ Present(proxy.c)' = Present(proxy.c) /\ Here' = Here
      BY <1>0, <2>1, <2>6 DEF ProxyConnects, connVars, ProxyLeavesTiny, Present, Here
    <3> HIDE DEF Here
    <3>2. TakesFor' /\ EndsFor'
      BY <3>1 DEF TakesFor, EndsFor, ServedFor
    <3>3. OwnFor'
      BY <3>1 DEF OwnFor, ServedFor, Own
    <3> QED
      BY <3>2, <3>3 DEF ServedFor
  <2>7. CASE ProxyAsksTiny \/ ProxyLetsGo \/ ProxyDies
    <3>1. proxy'.pc \in {"accept", "down"} \/ (proxy'.pc = "write" /\ proxy'.then = "relay")
      BY <2>7 DEF ProxyAsksTiny, ProxyLetsGo, ProxyDies
    <3> QED
      BY <3>1 DEF ServedFor, TakesFor, EndsFor, OwnFor
  <2> QED
    BY <1>2, <2>2, <2>3, <2>4, <2>5, <2>6, <2>7 DEF ProxyServes
<1> QED
  BY <1>0, <1>1, <1>2

-----------------------------------------------------------------------------
\* Whatever the proxy does keeps the whole.
LEMMA ProxyForward ==
    ASSUME ControlInv, ControlInv', TextInv, ForwardInv, ProxyStep
    PROVE  ForwardInv'
<1>1. ServedFor /\ \A c \in Proxied : ClientFor(c)
  BY ForwardParts
<1>2. ProxyIsDoing
  BY ProxyIs
<1>3. ASSUME NEW c \in Proxied PROVE ClientFor(c)'
  <2>1. CASE proxy.pc = "accept" \/ c # proxy.c
    BY <1>1, <1>2, <2>1, OtherClients
  <2>2. CASE proxy.pc # "accept" /\ c = proxy.c
    <3>1. ProxyLeavesTiny /\ ProxyServes
      BY <1>2, <2>2 DEF ProxyIsDoing, ProxyTakesOne
    <3> QED
      BY <1>1, <2>2, <3>1, ServedClient
  <2> QED
    BY <2>1, <2>2
<1>4. ServedFor'
  <2>1. proxy.pc # "accept" => ClientFor(proxy.c)
    BY <1>1 DEF ControlInv, ServingInv
  <2> QED
    BY <1>1, <1>2, <2>1, ServedOn
<1> QED
  BY <1>3, <1>4, ForwardWhole

\* So does whatever tiny does.
LEMMA TinyForward ==
    ASSUME ControlInv, ControlInv', FirstInv, TextInv, ForwardInv, TinyStep, UNCHANGED <<proxyVars, clientVars>>
    PROVE  ForwardInv'
<1>1. TakenInv' /\ DroppedInv' /\ OwnInv'
  BY TinyTold DEF ForwardInv
<1>2. DoneInv'
  BY TinyDone DEF ForwardInv
<1>3. ResetInv'
  BY TinyResets DEF ForwardInv
<1>4. RelayInv'
  BY TinyReplies DEF ForwardInv
<1>5. TinyReadsInv'
  BY TinyReads DEF ForwardInv
<1> QED
  BY <1>1, <1>2, <1>3, <1>4, <1>5 DEF ForwardInv

\* The first state.
LEMMA InitForward == Init => ForwardInv
<1> SUFFICES ASSUME Init PROVE ForwardInv
  OBVIOUS
<1>1. /\ tiny.pc = "accept" /\ proxy.pc = "accept" /\ tinyQueue = <<>> /\ asked = [c \in Proxied |-> <<>>]
      /\ sent = [s \in Requests |-> <<>>] /\ over = [s \in Requests |-> "no"]
  BY NotRequestedParts DEF Init, TinyInit, ProxyInit, NotServing
<1>2. \A s \in Streams : kernel[s] = <<>> /\ rio[s].buf = <<>>
  BY DEF Init, RioInit, NoCall
<1>3. ToSet(tinyQueue) = {}
  BY <1>1 DEF ToSet
<1>4. \A c \in Proxied : /\ RequestOf(c) \in Requests /\ ForwardOf(c) \in Requests /\ ReplyOf(c) \in Streams
                         /\ ~Relaying(c) /\ ~TinyAt(ForwardOf(c)) /\ asked[c] = <<>>
  BY <1>1, Names DEF Relaying, TinyAt
<1>5. TakenInv
  BY <1>1, <1>4 DEF TakenInv
<1>6. TinyReadsInv
  BY <1>4 DEF TinyReadsInv
<1>7. DoneInv
  BY <1>1, <1>2, <1>3, <1>4 DEF DoneInv
<1>8. DroppedInv /\ ResetInv
  BY <1>1, <1>4 DEF DroppedInv, ResetInv
<1>9. OwnInv
  BY <1>1, <1>4 DEF OwnInv
<1>10. RelayInv
  BY <1>4 DEF RelayInv
<1> QED
  BY <1>5, <1>6, <1>7, <1>8, <1>9, <1>10 DEF ForwardInv

\* Every step keeps the whole.
LEMMA StepForward ==
    ASSUME FaultInv, ForwardInv, [Next]_vars
    PROVE  FaultInv' /\ ForwardInv'
<1>1. FaultInv'
  BY StepFault
<1>2. ControlInv /\ ControlInv' /\ FirstInv /\ TextInv
  BY <1>1 DEF FaultInv
<1>3. CASE TinyStep /\ UNCHANGED <<proxyVars, clientVars>>
  BY <1>1, <1>2, <1>3, TinyForward
<1>4. CASE ProxyStep
  BY <1>1, <1>2, <1>4, ProxyForward
<1>5. CASE (\E c \in Clients : Send(c) \/ Leave(c)) \/ UNCHANGED vars
  BY <1>1, <1>2, <1>5, ClientEffects, ClientForward
<1> QED
  BY <1>3, <1>4, <1>5 DEF Next

\* What the client has got is what the invariant says.
LEMMA RelayedIs ==
    ASSUME ControlInv, NEW c \in Proxied, NEW r, NEW x \in Seq(Byte), sent[RequestOf(c)] = Own(r) \o x
    PROVE  Relayed(c, r) = x
<1>1. PICK own \in Seq(Byte) : own = Own(r)
  BY OwnType
<1>2. PICK u : u = own \o x
  OBVIOUS
<1>3. SubSeq(u, Len(own) + 1, Len(u)) = x
  BY <1>2, SplitAt
<1> QED
  BY <1>1, <1>2, <1>3 DEF Relayed, Own

\* A beginning, by its definition.
LEMMA Beginning ==
    ASSUME NEW x \in Seq(Byte), NEW z \in Seq(Byte), NEW w, w = x \o z
    PROVE  IsPrefix(x, w)
<1>1. Len(x) \in Nat /\ Len(z) \in Nat /\ Len(w) = Len(x) + Len(z)
  OBVIOUS
<1>2. SubSeq(w, 1, Len(x)) = x
  BY SplitAt
<1> QED
  BY <1>1, <1>2 DEF IsPrefix

\* The relayed response is the one that tiny sent, as far as it goes.
LEMMA RelayShows == ControlInv /\ ForwardInv => ReplyRelayed
<1> SUFFICES ASSUME ControlInv, ForwardInv, NEW c \in Proxied, asked[c] # <<>>, phase[c] # "left"
             PROVE  \E r \in Gets(c) :
                      /\ IsPrefix(Relayed(c, r), sent[ForwardOf(c)])
                      /\ over[RequestOf(c)] = "served" /\ over[ForwardOf(c)] = "served" =>
                           Relayed(c, r) = sent[ForwardOf(c)]
  BY DEF ReplyRelayed
<1>1. PICK r \in Gets(c) : \E x, y \in Seq(Byte) :
            /\ sent[RequestOf(c)] = Own(r) \o x
            /\ sent[ForwardOf(c)] = x \o InHand(c) \o y
            /\ y = <<>> \/ over[ForwardOf(c)] = "dropped"
  BY DEF ForwardInv, RelayInv, Present
<1>2. PICK x \in Seq(Byte), y \in Seq(Byte) :
            /\ sent[RequestOf(c)] = Own(r) \o x
            /\ sent[ForwardOf(c)] = x \o InHand(c) \o y
            /\ y = <<>> \/ over[ForwardOf(c)] = "dropped"
  BY <1>1
<1>3. Relayed(c, r) = x
  BY <1>2, RelayedIs
<1>4. PICK h \in Seq(Byte) : h = InHand(c)
  BY InHandIs
<1>5. PICK z \in Seq(Byte) : z = h \o y
  BY ConcatProperties
<1>6. sent[ForwardOf(c)] = x \o z
  <2>1. Assoc(x, h, y)
    BY AssocIs
  <2>2. (x \o h) \o y = x \o z
    BY <1>5, <2>1, Zenon DEF Assoc
  <2> QED
    BY <1>2, <1>4, <2>2
<1>7. IsPrefix(x, sent[ForwardOf(c)])
  BY <1>6, Beginning
<1>8. ASSUME over[RequestOf(c)] = "served", over[ForwardOf(c)] = "served" PROVE x = sent[ForwardOf(c)]
  <2>1. y = <<>>
    BY <1>2, <1>8
  <2>2. ~Relaying(c)
    BY <1>8, RelayingIs
  <2>3. h = <<>>
    BY <1>4, <2>2, InHandIs
  <2>4. z = <<>> /\ x \o <<>> = x
    BY <1>5, <2>1, <2>3, ConcatEmptySeq
  <2> QED
    BY <1>6, <2>4
<1> QED
  BY <1>3, <1>7, <1>8

\* ReplyRelayed: of tiny's reply the client gets a beginning, block by block,
\* and all of it when nobody left early.
THEOREM RepliesAreRelayed == FairSpec => []ReplyRelayed
<1>1. FairSpec => Init /\ [][Next]_vars
  BY PTL DEF FairSpec
<1>2. Init => FaultInv /\ ForwardInv
  BY InitFault, InitForward
<1>3. FaultInv /\ ForwardInv /\ [Next]_vars => (FaultInv /\ ForwardInv)'
  BY StepForward
<1>4. FaultInv /\ ForwardInv => ReplyRelayed
  BY RelayShows DEF FaultInv
<1> QED
  BY <1>1, <1>2, <1>3, <1>4, PTL

-----------------------------------------------------------------------------
\* What tiny is asked (RequestForwarded).  Where a call of Rio_readlineb begins,
\* in what the client sends, is the beginning of a line or a cut in one that is
\* too long; the proxy has kept what is before that place, and goes on until the
\* piece that it gets is CRLF.
IsCut(m) == \E cuts \in 0..m : m = cuts * (MAXLINE - 1)

\* kept is what h says up to such a place, and rest what it says from there, if
\* anything; no line before has ended with CRLF in a piece of its own.
AtPlace(h, k, m, kept, rest) ==
    /\ IsCut(m)
    /\ \A i \in 1..k-1 : ~LastPieceIsCRLF(h[i])
    /\ kept = FlattenSeq(SubSeq(h, 1, k - 1)) \o SubSeq(h[k], 1, m)
    /\ rest = SubSeq(h[k], m + 1, Len(h[k])) \o FlattenSeq(SubSeq(h, k + 1, Len(h)))
Place(h, kept, rest) ==
    \/ rest = <<>>
    \/ \E k \in 1..Len(h) : \E m \in 0..Len(h[k])-1 : AtPlace(h, k, m, kept, rest)

\* A call has returned the last of what the client has sent, or nothing.
Over(r, k) == r.rc >= 0 /\ r.got # CRLF /\ r.buf = <<>> /\ k = <<>>

\* The call that reads the request line.
LineCall(r, k, all) ==
    ~r.calling => Over(r, k) \/ (HasLine(r) /\ (r.got \o r.buf) \o k = all)

\* The call that reads a line of the headers.
HeaderCall(r, k, h, kept) ==
    \/ Place(h, kept, (r.got \o r.buf) \o k) /\ (~r.calling => HasLine(r))
    \/ ~r.calling /\ Over(r, k)

Opening(text) == <<RequestLines[text].file>> \o CRLF

\* Where the proxy is in what its client has sent.
ReadsAt(c) ==
    LET r == rio[RequestOf(c)]
        k == kernel[RequestOf(c)]
    IN  /\ proxy.pc = "requestline" => LineCall(r, k, Sends(c))
        /\ proxy.pc = "write" /\ proxy.then = "headers" => Place(Headers(c), <<>>, r.buf \o k)
        /\ proxy.pc = "headers" =>
             \E kept \in Seq(Byte) : /\ proxy.request = Opening(proxy.text) \o kept
                                     /\ HeaderCall(r, k, Headers(c), kept)
        /\ proxy.pc \in {"connect", "send"} =>
             /\ EndOfHeaders(c) # 0
             /\ \E file \in {RequestLines[proxy.text].file} : proxy.request = ToForward(c, file)

\* That is so unless a reset has struck.
ReadsFor(c) ==
    proxy.pc \notin {"accept", "down"} /\ proxy.c = c /\ peer[RequestOf(c)] # "noticed" => ReadsAt(c)

ForwardedFor(c) ==
    asked[c] # <<>> =>
        \/ EndOfHeaders(c) # 0 /\ \E r \in Gets(c) : asked[c] = ToForward(c, r.file)
        \/ phase[c] = "left" /\ peer[RequestOf(c)] = "noticed"

PlaceInv == script \in Scripts /\ \A c \in Proxied : ReadsFor(c) /\ ForwardedFor(c)

\* A sequence in parts.
PartsOf(x, l, m, n) ==
    /\ SubSeq(x, 1, m) \in Seq(Byte) /\ SubSeq(x, m + 1, n) \in Seq(Byte)
    /\ SubSeq(x, n + 1, l) \in Seq(Byte) /\ Len(SubSeq(x, m + 1, n)) = n - m
    /\ SubSeq(x, 1, m) \o SubSeq(x, m + 1, n) = SubSeq(x, 1, n)
    /\ SubSeq(x, m + 1, n) \o SubSeq(x, n + 1, l) = SubSeq(x, m + 1, l)
    /\ \A i \in 1..n-m : SubSeq(x, m + 1, n)[i] = x[m+i]
    /\ m = n => SubSeq(x, m + 1, n) = <<>>
    /\ SubSeq(x, 1, l) = x

\* They are put together again.
LEMMA Parts ==
    ASSUME NEW x \in Seq(Byte), NEW l \in Nat, l = Len(x), NEW m \in 0..l, NEW n \in m..l
    PROVE  PartsOf(x, l, m, n)
<1>1. l \in Nat /\ m \in Nat /\ n \in Nat /\ m <= n /\ n <= l /\ \A i \in 1..l : x[i] \in Byte
  OBVIOUS
<1>2. PICK a \in Seq(Byte), b \in Seq(Byte), d \in Seq(Byte) :
         a = SubSeq(x, 1, m) /\ b = SubSeq(x, m + 1, n) /\ d = SubSeq(x, n + 1, l)
  <2>1. SubSeq(x, 1, m) \in Seq(Byte) /\ SubSeq(x, m + 1, n) \in Seq(Byte) /\ SubSeq(x, n + 1, l) \in Seq(Byte)
    BY <1>1, SubSeqProperties
  <2> QED
    BY <2>1
<1>3. Len(a) = m /\ Len(b) = n - m /\ Len(d) = l - n
  BY <1>1, <1>2, SubSeqProperties
<1>4. /\ \A i \in 1..m : a[i] = x[i]
      /\ \A i \in 1..n-m : b[i] = x[m+i]
      /\ \A i \in 1..l-n : d[i] = x[n+i]
  BY <1>1, <1>2, SubSeqProperties
<1>5. a \o b = SubSeq(x, 1, n)
  <2>1. a \o b \in Seq(Byte) /\ Len(a \o b) = n /\ \A i \in 1..n : (a \o b)[i] = x[i]
    <3>1. a \o b \in Seq(Byte) /\ Len(a \o b) = n /\ Len(a) + Len(b) = n
      <4>1. a \o b \in Seq(Byte) /\ Len(a \o b) = Len(a) + Len(b)
        BY ConcatProperties
      <4>2. Len(a) + Len(b) = n
        BY <1>1, <1>3
      <4> QED
        BY <4>1, <4>2
    <3>2. ASSUME NEW i \in 1..n PROVE (a \o b)[i] = x[i]
      <4>1. (a \o b)[i] = IF i <= m THEN a[i] ELSE b[i-m]
        <5>1. i \in 1..Len(a)+Len(b)
          BY <3>1
        <5>2. (a \o b)[i] = IF i <= Len(a) THEN a[i] ELSE b[i-Len(a)]
          BY <5>1, ConcatProperties
        <5> QED
          BY <5>2, <1>3
      <4>2. CASE i <= m
        BY <4>1, <4>2, <1>4, <1>1
      <4>3. CASE i > m
        <5>1. i - m \in 1..n-m /\ m + (i - m) = i
          BY <4>3, <1>1
        <5> QED
          BY <4>1, <4>3, <5>1, <1>4
      <4>4. i <= m \/ i > m
        BY <1>1
      <4> QED
        BY <4>2, <4>3, <4>4, Zenon
    <3> QED
      BY <3>1, <3>2
  <2>2. SubSeq(x, 1, n) \in Seq(Byte) /\ Len(SubSeq(x, 1, n)) = n /\ \A i \in 1..n : SubSeq(x, 1, n)[i] = x[i]
    BY <1>1, SubSeqProperties
  <2> QED
    BY <2>1, <2>2, SeqEqual
<1>6. b \o d = SubSeq(x, m + 1, l)
  <2>1. b \o d \in Seq(Byte) /\ Len(b \o d) = l - m /\ \A i \in 1..l-m : (b \o d)[i] = x[m+i]
    <3>1. b \o d \in Seq(Byte) /\ Len(b \o d) = l - m
      <4>1. b \o d \in Seq(Byte) /\ Len(b \o d) = Len(b) + Len(d)
        BY ConcatProperties
      <4>2. Len(b) + Len(d) = l - m
        BY <1>1, <1>3
      <4> QED
        BY <4>1, <4>2
    <3>2. ASSUME NEW i \in 1..l-m PROVE (b \o d)[i] = x[m+i]
      <4>1. (b \o d)[i] = IF i <= n - m THEN b[i] ELSE d[i-(n-m)]
        BY <1>1, <1>3, ConcatProperties
      <4>2. CASE i <= n - m
        BY <4>1, <4>2, <1>4, <1>1
      <4>3. CASE i > n - m
        <5>1. i - (n - m) \in 1..l-n /\ n + (i - (n - m)) = m + i
          BY <4>3, <1>1
        <5> QED
          BY <4>1, <4>3, <5>1, <1>4
      <4>4. i <= n - m \/ i > n - m
        BY <1>1
      <4> QED
        BY <4>2, <4>3, <4>4, Zenon
    <3> QED
      BY <3>1, <3>2
  <2>2. SubSeq(x, m + 1, l) \in Seq(Byte) /\ Len(SubSeq(x, m + 1, l)) = l - m
        /\ \A i \in 1..l-m : SubSeq(x, m + 1, l)[i] = x[m+i]
    <3>1. \A i \in m+1..l : x[i] \in Byte
      BY <1>1
    <3>2. m + 1 \in Int /\ l \in Int
      BY <1>1
    <3>3. /\ SubSeq(x, m + 1, l) \in Seq(Byte)
          /\ Len(SubSeq(x, m + 1, l)) = IF m + 1 <= l THEN l - (m + 1) + 1 ELSE 0
          /\ \A i \in 1..l-(m+1)+1 : SubSeq(x, m + 1, l)[i] = x[(m+1)+i-1]
      BY <3>1, <3>2, SubSeqProperties
    <3> QED
      BY <3>3, <1>1
  <2> QED
    BY <2>1, <2>2, SeqEqual
<1>7. m = n => b = <<>>
  BY <1>3
<1>8. SubSeq(x, 1, l) = x
  BY <1>1, SubSeqProperties, SeqEqual
<1> QED
  BY <1>2, <1>3, <1>4, <1>5, <1>6, <1>7, <1>8 DEF PartsOf

\* The piece that a call returns which begins behind the m-th byte of a line:
\* the rest of the line, or as much of it as there is room for.
Continues(x, m, got, rest, more) ==
    /\ got \o rest = SubSeq(x, m + 1, Len(x)) \o more
    /\ IsLine(got)
    /\ \A i \in 1..Len(x)-1 : x[i] # NewLine
    /\ x[Len(x)] = NewLine \/ more = <<>>
PieceOf(x, m, n, got, rest, more) ==
    /\ n = m + Len(got) /\ n <= Len(x) /\ m < n /\ n - m < MAXLINE
    /\ got = SubSeq(x, m + 1, n)
    /\ rest = SubSeq(x, n + 1, Len(x)) \o more
    /\ n < Len(x) => n - m = MAXLINE - 1

\* That is the piece.
LEMMA PieceFound ==
    ASSUME NEW x \in Seq(Byte), NEW m \in 0..Len(x)-1, NEW got \in Seq(Byte), NEW rest \in Seq(Byte),
           NEW more \in Seq(Byte), Continues(x, m, got, rest, more)
    PROVE  PieceOf(x, m, m + Len(got), got, rest, more)
<1>0. PICK l \in Nat, g \in Nat : l = Len(x) /\ g = Len(got)
  OBVIOUS
<1>1. /\ m \in Nat /\ m < l /\ m + 1 \in Nat /\ MAXLINE \in Nat /\ MAXLINE > 1
      /\ m \in 0..l /\ l \in m..l
  BY <1>0, RioAssumption
<1>2. /\ got \o rest = SubSeq(x, m + 1, l) \o more
      /\ got # <<>> /\ g < MAXLINE /\ (g = MAXLINE - 1 \/ got[g] = NewLine)
      /\ \A p \in 1..g-1 : got[p] # NewLine
      /\ \A i \in 1..l-1 : x[i] # NewLine
      /\ x[l] = NewLine \/ more = <<>>
      /\ IsLine(got)
  BY <1>0 DEF Continues, IsLine
<1>3. g > 0
  BY <1>0, <1>2
<1>4a. l = Len(x) /\ m \in 0..l /\ l \in m..l /\ l \in 0..l
  BY <1>0, <1>1
<1>4. PICK y \in Seq(Byte) : /\ y = SubSeq(x, m + 1, l) /\ Len(y) = l - m
                             /\ \A i \in 1..l-m : y[i] = x[m+i]
  <2>1. /\ SubSeq(x, m + 1, l) \in Seq(Byte) /\ Len(SubSeq(x, m + 1, l)) = l - m
        /\ \A i \in 1..l-m : SubSeq(x, m + 1, l)[i] = x[m+i]
    <3>1. PartsOf(x, l, m, l)
      BY <1>4a, Parts
    <3> QED
      BY <3>1 DEF PartsOf
  <2> QED
    BY <2>1
<1>5. PICK e : e = SubSeq(x, l + 1, l) /\ e = <<>>
  <2>1. l \in l..l
    OBVIOUS
  <2>2. SubSeq(x, l + 1, l) = <<>>
    <3>1. PartsOf(x, l, l, l)
      BY <1>4a, <2>1, Parts
    <3> QED
      BY <3>1 DEF PartsOf
  <2> QED
    BY <2>2
<1>6. <<>> \o more = more
  BY ConcatEmptySeq
<1>7. CASE l - m <= MAXLINE - 1 /\ (x[l] = NewLine \/ l - m = MAXLINE - 1)
  <2>1. IsLine(y)
    <3>1. y # <<>> /\ Len(y) < MAXLINE
      <4>1. Len(y) > 0 /\ Len(y) < MAXLINE
        BY <1>1, <1>4, <1>7
      <4> QED
        BY <4>1
    <3>2. \A p \in 1..Len(y)-1 : y[p] # NewLine
      <4> SUFFICES ASSUME NEW p \in 1..Len(y)-1 PROVE y[p] # NewLine
        OBVIOUS
      <4>0. p \in 1..(l-m)-1
        BY <1>4, Zenon
      <4>1. p \in 1..l-m /\ m + p \in 1..l-1
        BY <1>1, <4>0
      <4> QED
        BY <4>1, <1>2, <1>4
    <3>3. Len(y) = MAXLINE - 1 \/ y[Len(y)] = NewLine
      <4>1. y[l-m] = x[l]
        BY <1>1, <1>4
      <4> QED
        BY <4>1, <1>4, <1>7
    <3> QED
      BY <3>1, <3>2, <3>3 DEF IsLine
  <2>2. got = y /\ rest = more
    <3>1. got \o rest = y \o more /\ IsLine(got)
      BY <1>2, <1>4
    <3> QED
      BY <2>1, <3>1, LineUnique
  <2>3. m + g = l
    BY <2>2, <1>0, <1>1, <1>4
  <2> QED
    <3>1. m + Len(got) = l /\ l - m < MAXLINE
      BY <2>3, <1>0, <1>1, <1>7
    <3>2. got = SubSeq(x, m + 1, l) /\ rest = SubSeq(x, l + 1, Len(x)) \o more
      BY <2>2, <1>0, <1>4, <1>5, <1>6
    <3>3. PieceOf(x, m, l, got, rest, more)
      BY <3>1, <3>2, <1>0, <1>1 DEF PieceOf
    <3> QED
      BY <3>1, <3>3
<1>8. CASE l - m > MAXLINE - 1
  <2>1. PICK n \in Nat : n = m + (MAXLINE - 1) /\ n \in m..l /\ n < l
    BY <1>1, <1>8
  <2>2. PICK z \in Seq(Byte), w \in Seq(Byte) :
           /\ z = SubSeq(x, m + 1, n) /\ w = SubSeq(x, n + 1, l) /\ Len(z) = MAXLINE - 1 /\ y = z \o w
           /\ \A i \in 1..n-m : z[i] = x[m+i]
    <3>1. /\ SubSeq(x, m + 1, n) \in Seq(Byte) /\ SubSeq(x, n + 1, l) \in Seq(Byte)
          /\ Len(SubSeq(x, m + 1, n)) = n - m
          /\ SubSeq(x, m + 1, n) \o SubSeq(x, n + 1, l) = SubSeq(x, m + 1, l)
          /\ \A i \in 1..n-m : SubSeq(x, m + 1, n)[i] = x[m+i]
      <4>1. PartsOf(x, l, m, n)
        BY <1>4a, <2>1, Parts
      <4> QED
        BY <4>1 DEF PartsOf
    <3>2. n - m = MAXLINE - 1
      BY <1>1, <2>1
    <3> QED
      BY <3>1, <3>2, <1>4
  <2>3. IsLine(z)
    <3>1. z # <<>> /\ Len(z) < MAXLINE
      <4>1. Len(z) > 0 /\ Len(z) < MAXLINE
        <5>1. Len(z) = MAXLINE - 1 /\ MAXLINE \in Nat /\ MAXLINE > 1
          BY <1>1, <2>2
        <5> QED
          BY <5>1
      <4> QED
        BY <4>1
    <3>2. \A p \in 1..Len(z)-1 : z[p] # NewLine
      <4> SUFFICES ASSUME NEW p \in 1..Len(z)-1 PROVE z[p] # NewLine
        OBVIOUS
      <4>0. p \in 1..(MAXLINE-1)-1
        BY <2>2, Zenon
      <4>1. p \in 1..n-m /\ m + p \in 1..l-1
        BY <1>1, <2>1, <4>0
      <4> QED
        BY <4>1, <1>2, <2>2
    <3> QED
      BY <3>1, <3>2, <2>2 DEF IsLine
  <2>4. got \o rest = z \o (w \o more) /\ w \o more \in Seq(Byte)
    <3>1. Assoc(z, w, more)
      BY <2>2, AssocIs
    <3>2. (z \o w) \o more = z \o (w \o more)
      BY <3>1 DEF Assoc
    <3>3. w \o more \in Seq(Byte)
      BY <2>2, ConcatProperties
    <3> QED
      BY <3>2, <3>3, <1>2, <1>4, <2>2
  <2>5. got = z /\ rest = w \o more
    <3>1. PICK v \in Seq(Byte) : v = w \o more
      BY <2>4
    <3>2. got \o rest = z \o v /\ IsLine(got)
      BY <2>4, <3>1, <1>2
    <3>3. got = z /\ rest = v
      BY <2>3, <3>2, LineUnique
    <3> QED
      BY <3>1, <3>3
  <2>6. m + g = n /\ g = MAXLINE - 1
    BY <2>5, <1>0, <1>1, <2>1, <2>2
  <2> QED
    <3>1. m + Len(got) = n /\ m < n /\ n <= l /\ n < l /\ n - m = MAXLINE - 1 /\ n - m < MAXLINE
      <4>1. n = m + (MAXLINE - 1) /\ n < l /\ n \in Nat /\ m + Len(got) = n
        BY <2>1, <2>6, <1>0
      <4>2. m \in Nat /\ l \in Nat /\ MAXLINE \in Nat /\ MAXLINE > 1
        BY <1>1
      <4> QED
        BY <4>1, <4>2
    <3>2. got = SubSeq(x, m + 1, n) /\ rest = SubSeq(x, n + 1, Len(x)) \o more
      BY <2>2, <2>5, <1>0
    <3>3. PieceOf(x, m, n, got, rest, more)
      BY <3>1, <3>2, <1>0 DEF PieceOf
    <3> QED
      BY <3>1, <3>3
<1>9. CASE l - m < MAXLINE - 1 /\ x[l] # NewLine
  <2>1. got \o rest = y
    BY <1>2, <1>4, <1>9, ConcatEmptySeq
  <2>2. g <= l - m /\ \A i \in 1..g : y[i] = got[i]
    <3>1. Len(got \o rest) = g + Len(rest) /\ \A i \in 1..g : (got \o rest)[i] = got[i]
      BY <1>0, ConcatProperties
    <3>2. \A i \in 1..g : y[i] = got[i]
      BY <2>1, <3>1
    <3>3. PICK d \in Nat : d = Len(rest)
      OBVIOUS
    <3>4. l - m = g + d
      BY <2>1, <3>1, <3>3, <1>4
    <3>5. g <= l - m
      <4>1. l \in Nat /\ m \in Nat /\ g \in Nat /\ d \in Nat
        BY <1>1
      <4> QED
        BY <3>4, <4>1
    <3> QED
      BY <3>2, <3>5
  <2>3. got[g] = NewLine /\ got[g] = x[m+g] /\ m + g \in 1..l
    <3>1. g \in 1..g /\ g \in 1..l-m /\ m + g \in 1..l
      BY <2>2, <1>1, <1>3
    <3>2. y[g] = got[g] /\ y[g] = x[m+g]
      BY <2>2, <3>1, <1>4
    <3>3. g # MAXLINE - 1
      BY <2>2, <1>1, <1>9
    <3> QED
      BY <3>1, <3>2, <3>3, <1>2
  <2>4. m + g # l
    BY <2>3, <1>9
  <2>5. m + g \in 1..l-1
    <3>1. m + g \in 1..l
      BY <2>3
    <3>2. l \in Nat /\ m \in Nat /\ g \in Nat
      BY <1>1
    <3> QED
      BY <2>4, <3>1, <3>2
  <2>6. FALSE
    BY <2>3, <2>5, <1>2
  <2> QED
    BY <2>6
<1>10. \/ l - m <= MAXLINE - 1 /\ (x[l] = NewLine \/ l - m = MAXLINE - 1)
       \/ l - m > MAXLINE - 1
       \/ l - m < MAXLINE - 1 /\ x[l] # NewLine
  BY <1>1
<1> QED
  BY <1>7, <1>8, <1>9, <1>10

\* The rest of the lines, from the k-th on.
LEMMA FlattenFrom ==
    ASSUME NEW h \in Seq(Seq(Byte)), NEW n \in Nat, n = Len(h), NEW k \in 1..n
    PROVE  /\ h[k] \in Seq(Byte) /\ FlattenSeq(SubSeq(h, k + 1, n)) \in Seq(Byte)
           /\ FlattenSeq(SubSeq(h, k, n)) = h[k] \o FlattenSeq(SubSeq(h, k + 1, n))
           /\ k = n => FlattenSeq(SubSeq(h, k + 1, n)) = <<>>
<1>1. PICK q \in Seq(Seq(Byte)), t \in Seq(Seq(Byte)) : q = SubSeq(h, k, n) /\ t = SubSeq(h, k + 1, n)
  <2>1. \A i \in k..n : h[i] \in Seq(Byte)
    OBVIOUS
  <2>2. SubSeq(h, k, n) \in Seq(Seq(Byte)) /\ SubSeq(h, k + 1, n) \in Seq(Seq(Byte))
    BY <2>1, SubSeqProperties
  <2> QED
    BY <2>2
<1>2. Len(q) = n - k + 1 /\ \A i \in 1..n-k+1 : q[i] = h[k+i-1]
  BY <1>1
<1>3. Len(t) = n - k /\ \A i \in 1..n-k : t[i] = h[k+i]
  BY <1>1
<1>4. q # <<>> /\ Head(q) = h[k] /\ Len(q) > 0
  <2>1. Len(q) > 0 /\ 1 \in 1..n-k+1 /\ k + 1 - 1 = k
    BY <1>2
  <2>2. q[1] = h[k]
    BY <1>2, <2>1
  <2> QED
    BY <2>1, <2>2
<1>5. Tail(q) = t
  <2>1. Tail(q) \in Seq(Seq(Byte)) /\ Len(Tail(q)) = n - k /\ \A i \in 1..n-k : Tail(q)[i] = q[i+1]
    <3>1. Tail(q) \in Seq(Seq(Byte)) /\ Len(Tail(q)) = Len(q) - 1 /\ \A i \in 1..Len(Tail(q)) : Tail(q)[i] = q[i+1]
      BY <1>4, HeadTailProperties
    <3>2. Len(q) - 1 = n - k
      BY <1>2
    <3> QED
      BY <3>1, <3>2
  <2>2. ASSUME NEW i \in 1..n-k PROVE Tail(q)[i] = t[i]
    <3>1. PICK j \in 1..n-k+1 : j = i + 1 /\ k + j - 1 = k + i
      OBVIOUS
    <3>2. q[j] = h[k+i]
      BY <3>1, <1>2
    <3> QED
      BY <2>1, <3>1, <3>2, <1>3
  <2> QED
    BY <2>1, <2>2, <1>3, SeqEqual
<1>6. /\ FlattenSeq(Tail(q)) \in Seq(Byte)
      /\ FlattenSeq(q) = Head(q) \o FlattenSeq(Tail(q))
  BY <1>4, FlattenHead
<1>7. k = n => t = <<>>
  BY <1>3
<1>8. FlattenSeq(t) \in Seq(Byte) /\ FlattenSeq(q) = h[k] \o FlattenSeq(t)
  BY <1>4, <1>5, <1>6
<1>9. k = n => FlattenSeq(t) = <<>>
  BY <1>7, FlattenNone
<1>10. h[k] \in Seq(Byte)
  OBVIOUS
<1> QED
  BY <1>1, <1>8, <1>9, <1>10, Zenon

\* The places where a line is cut.
LEMMA Cuts ==
    ASSUME NEW m \in Nat, IsCut(m)
    PROVE  IsCut(m + (MAXLINE - 1))
<1>1. PICK cuts \in 0..m : m = cuts * (MAXLINE - 1)
  BY DEF IsCut
<1>2. MAXLINE - 1 \in Nat /\ MAXLINE - 1 > 0 /\ cuts \in Nat /\ MAXLINE \in Nat
  BY RioAssumption
<1>3. PICK w \in Nat : w = MAXLINE - 1
  BY <1>2
<1>4. (cuts + 1) * w = cuts * w + w
  BY <1>2
<1>5. cuts + 1 \in 0..m+w
  BY <1>2, <1>3
<1> QED
  BY <1>1, <1>3, <1>4, <1>5 DEF IsCut

\* A line whose last piece is CRLF is read up to it, and the piece is read then.
LEMMA LastPiece ==
    ASSUME NEW x \in Seq(Byte), NEW m \in 0..Len(x)-1, IsCut(m), Len(x) - m < MAXLINE
    PROVE  LastPieceIsCRLF(x) <=> SubSeq(x, m + 1, Len(x)) = CRLF
<1>0. PICK w \in Nat, l \in Nat : w = MAXLINE - 1 /\ l = Len(x)
  BY RioAssumption
<1>1. PICK j \in 0..m : m = j * w
  BY <1>0 DEF IsCut
<1>2. w > 1 /\ l - m \in 1..w /\ j \in Nat /\ m \in Nat
  BY <1>0, RequestPathAssumption, RioAssumption
<1>3. ASSUME LastPieceIsCRLF(x) PROVE SubSeq(x, m + 1, l) = CRLF
  <2>1. PICK cuts \in 0..l : l = cuts * w + 2
    BY <1>0, <1>3 DEF LastPieceIsCRLF
  <2>2. SubSeq(x, l - 1, l) = CRLF
    BY <1>0, <1>3 DEF LastPieceIsCRLF
  <2>3. cuts = j
    <3>1. cuts \in Nat /\ cuts * w + 2 - j * w \in 1..w
      BY <1>1, <1>2, <2>1
    <3>2. CASE cuts > j
      <4>1. PICK d \in Nat : cuts = j + 1 + d
        <5>1. cuts - j - 1 \in Nat /\ cuts = j + 1 + (cuts - j - 1)
          BY <3>1, <3>2, <1>2
        <5> QED
          BY <5>1
      <4>2. cuts * w = j * w + w + d * w /\ d * w >= 0
        BY <4>1, <1>2
      <4> QED
        BY <3>1, <4>2, <1>2
    <3>3. CASE cuts < j
      <4>1. PICK d \in Nat : j = cuts + 1 + d
        <5>1. j - cuts - 1 \in Nat /\ j = cuts + 1 + (j - cuts - 1)
          BY <3>1, <3>3, <1>2
        <5> QED
          BY <5>1
      <4>2. j * w = cuts * w + w + d * w /\ d * w >= 0
        BY <4>1, <3>1, <1>2
      <4> QED
        BY <3>1, <4>2, <1>2
    <3> QED
      BY <3>1, <3>2, <3>3, <1>2
  <2>4. l - 1 = m + 1
    BY <1>1, <1>2, <2>1, <2>3
  <2> QED
    BY <2>2, <2>4
<1>4. ASSUME SubSeq(x, m + 1, l) = CRLF PROVE LastPieceIsCRLF(x)
  <2>1. Len(SubSeq(x, m + 1, l)) = l - m
    <3>1. PartsOf(x, l, m, l)
      BY <1>0, Parts
    <3> QED
      BY <3>1 DEF PartsOf
  <2>2. l = m + 2
    <3>1. Len(CRLF) = 2
      BY CRLFIsLine
    <3>2. l - m = 2
      BY <2>1, <3>1, <1>4
    <3> QED
      BY <3>2, <1>2
  <2>3. l - 1 = m + 1 /\ l = j * w + 2 /\ j \in 0..l
    BY <2>2, <1>1, <1>2
  <2>4. SubSeq(x, l - 1, l) = CRLF
    BY <2>3, <1>4
  <2> QED
    BY <2>3, <2>4, <1>0 DEF LastPieceIsCRLF
<1> QED
  BY <1>0, <1>3, <1>4

\* The lines of a client.
LineOK(h) ==
    /\ h \in Seq(Seq(Byte))
    /\ \A k \in 1..Len(h) : /\ h[k] # <<>>
                            /\ \A i \in 1..Len(h[k])-1 : h[k][i] # NewLine
                            /\ k < Len(h) => h[k][Len(h[k])] = NewLine

\* The first line whose last piece is CRLF, and what is kept when it is read.
Finds(h, k, kept) ==
    /\ k \in 1..Len(h) /\ LastPieceIsCRLF(h[k]) /\ Len(h[k]) > 1
    /\ \A i \in 1..k-1 : ~LastPieceIsCRLF(h[i])
    /\ kept = FlattenSeq(SubSeq(h, 1, k - 1)) \o SubSeq(h[k], 1, Len(h[k]) - 2)

Goes(h, kept, got, rest) ==
    IF got = CRLF THEN \E k \in 1..Len(h) : Finds(h, k, kept) ELSE Place(h, kept \o got, rest)

\* At the end of a line, the next place is the beginning of the next line.
LEMMA NextPlace ==
    ASSUME NEW h, LineOK(h), NEW k \in 1..Len(h), ~LastPieceIsCRLF(h[k]),
           \A i \in 1..k-1 : ~LastPieceIsCRLF(h[i])
    PROVE  Place(h, FlattenSeq(SubSeq(h, 1, k - 1)) \o h[k], FlattenSeq(SubSeq(h, k + 1, Len(h))))
<1>1. h \in Seq(Seq(Byte))
  BY DEF LineOK
<1>2. PICK n \in Nat : n = Len(h) /\ k \in 1..n /\ k \in Nat
  BY <1>1
<1>3. CASE k = n
  BY <1>1, <1>2, <1>3, FlattenFrom DEF Place
<1>4. CASE k < n
  <2>1. k + 1 \in 1..n /\ (k - 1) + 1 = k /\ (k + 1) - 1 = k
    BY <1>2, <1>4
  <2>2. PICK y \in Seq(Byte) : y = h[k+1] /\ y # <<>>
    <3>1. h[k+1] \in Seq(Byte) /\ h[k+1] # <<>>
      BY <1>1, <1>2, <2>1 DEF LineOK
    <3> QED
      BY <3>1
  <2>3. Len(y) > 0 /\ SubSeq(y, 1, 0) = <<>> /\ SubSeq(y, 1, Len(y)) = y
    <3>1. PartsOf(y, Len(y), 0, 0)
      BY Parts
    <3>2. SubSeq(y, 1, 0) = <<>>
      BY <3>1 DEF PartsOf
    <3> QED
      BY <3>1, <3>2, <2>2 DEF PartsOf
  <2>4. PICK f \in Seq(Byte) : f = FlattenSeq(SubSeq(h, 1, k))
    <3>1. SubSeq(h, 1, k) \in Seq(Seq(Byte))
      BY <1>1, <1>2
    <3> QED
      BY <3>1, FlattenType
  <2>5. f = FlattenSeq(SubSeq(h, 1, k - 1)) \o h[k]
    <3>1. k - 1 \in 0..Len(h)-1
      BY <1>2
    <3>2. FlattenSeq(SubSeq(h, 1, (k-1)+1)) = FlattenSeq(SubSeq(h, 1, k-1)) \o h[(k-1)+1]
      BY <1>1, <3>1, FlattenLast
    <3> QED
      BY <2>1, <2>4, <3>2
  <2>6. f \o SubSeq(y, 1, 0) = f
    BY <2>3, ConcatEmptySeq
  <2>7. FlattenSeq(SubSeq(h, k + 1, n)) = y \o FlattenSeq(SubSeq(h, (k + 1) + 1, n))
    BY <1>1, <1>2, <2>1, <2>2, FlattenFrom
  <2>8. IsCut(0)
    <3>1. 0 = 0 * (MAXLINE - 1)
      BY RioAssumption
    <3> QED
      BY <3>1 DEF IsCut
  <2>9. \A i \in 1..(k+1)-1 : ~LastPieceIsCRLF(h[i])
    BY <1>2
  <2>10. PICK j \in 1..n : j = k + 1
    BY <2>1
  <2>11. AtPlace(h, j, 0, f, FlattenSeq(SubSeq(h, j, n)))
    <3>1. 0 + 1 = 1 /\ j - 1 = k /\ j + 1 = (k + 1) + 1 /\ h[j] = y
      BY <1>2, <2>2, <2>10
    <3>2. f = FlattenSeq(SubSeq(h, 1, j - 1)) \o SubSeq(h[j], 1, 0)
      BY <3>1, <2>4, <2>6
    <3>3. SubSeq(h[j], 0 + 1, Len(h[j])) = y
      BY <3>1, <2>3
    <3>4. FlattenSeq(SubSeq(h, j, n)) = SubSeq(h[j], 0 + 1, Len(h[j])) \o FlattenSeq(SubSeq(h, j + 1, Len(h)))
      <4>1. FlattenSeq(SubSeq(h, j, n)) = y \o FlattenSeq(SubSeq(h, j + 1, n))
        BY <3>1, <2>7, <2>10
      <4> QED
        BY <3>3, <4>1, <1>2
    <3>5. \A i \in 1..j-1 : ~LastPieceIsCRLF(h[i])
      BY <3>1, <2>9, <2>10
    <3> QED
      BY <2>8, <3>2, <3>4, <3>5, Zenon DEF AtPlace
  <2>12. 0 \in 0..Len(h[j])-1
    BY <2>2, <2>3, <2>10
  <2> QED
    BY <1>2, <2>5, <2>10, <2>11, <2>12 DEF Place
<1> QED
  BY <1>2, <1>3, <1>4

\* So a call takes the proxy from one place to the next, or to the end of the
\* headers.
LEMMA Onward ==
    ASSUME NEW h, LineOK(h), NEW kept \in Seq(Byte), NEW got \in Seq(Byte), NEW rest \in Seq(Byte),
           NEW all, all = got \o rest, Place(h, kept, all), IsLine(got)
    PROVE  Goes(h, kept, got, rest)
<1>0. h \in Seq(Seq(Byte))
  BY DEF LineOK
<1>1. all # <<>>
  <2>1. got # <<>>
    BY DEF IsLine
  <2> QED
    BY <2>1, ConcatEqualIffEmpty
<1>2. PICK k \in 1..Len(h) : \E m \in 0..Len(h[k])-1 : AtPlace(h, k, m, kept, all)
  BY <1>1 DEF Place
<1>3. PICK x \in Seq(Byte), n \in Nat : x = h[k] /\ n = Len(h) /\ k \in 1..n
  BY <1>0, <1>2
<1>4. PICK m \in 0..Len(x)-1 : AtPlace(h, k, m, kept, all)
  BY <1>2, <1>3
<1>5. PICK more \in Seq(Byte) : more = FlattenSeq(SubSeq(h, k + 1, n)) /\ (k = n => more = <<>>)
  <2>1. FlattenSeq(SubSeq(h, k + 1, n)) \in Seq(Byte) /\ (k = n => FlattenSeq(SubSeq(h, k + 1, n)) = <<>>)
    BY <1>0, <1>3, FlattenFrom
  <2> QED
    BY <2>1
<1>6. PICK pre \in Seq(Byte) : pre = FlattenSeq(SubSeq(h, 1, k - 1))
  <2>1. SubSeq(h, 1, k - 1) \in Seq(Seq(Byte))
    BY <1>0, <1>3
  <2> QED
    BY <2>1, FlattenType
<1>7. /\ IsCut(m) /\ \A i \in 1..k-1 : ~LastPieceIsCRLF(h[i])
      /\ kept = pre \o SubSeq(x, 1, m)
      /\ all = SubSeq(x, m + 1, Len(x)) \o more
  BY <1>3, <1>4, <1>5, <1>6 DEF AtPlace
<1>8. x # <<>> /\ \A i \in 1..Len(x)-1 : x[i] # NewLine
  BY <1>3 DEF LineOK
<1>9. x[Len(x)] = NewLine \/ more = <<>>
  <2>1. k < n => x[Len(x)] = NewLine
    BY <1>3 DEF LineOK
  <2>2. k < n \/ k = n
    BY <1>3
  <2> QED
    BY <2>1, <2>2, <1>5
<1>10. PieceOf(x, m, m + Len(got), got, rest, more)
  <2>1. Continues(x, m, got, rest, more)
    BY <1>7, <1>8, <1>9 DEF Continues
  <2> QED
    BY <2>1, PieceFound
<1>11. PICK l \in Nat, g \in Nat : l = Len(x) /\ g = Len(got) /\ m \in Nat /\ m < l /\ m \in 0..l
  BY <1>4
<1>12. PICK q \in Nat : q = m + g
  BY <1>11
<1>13. /\ q <= l /\ m < q /\ q - m < MAXLINE /\ got = SubSeq(x, m + 1, q)
       /\ rest = SubSeq(x, q + 1, l) \o more
       /\ q < l => q - m = MAXLINE - 1
  BY <1>10, <1>11, <1>12 DEF PieceOf
<1>14. PartsOf(x, l, m, q)
  <2>1. q \in m..l
    BY <1>11, <1>12, <1>13
  <2> QED
    BY <1>11, <2>1, Parts
<1>15. kept \o got = pre \o SubSeq(x, 1, q)
  <2>1. PICK a \in Seq(Byte) : a = SubSeq(x, 1, m) /\ a \o got = SubSeq(x, 1, q)
    BY <1>13, <1>14 DEF PartsOf
  <2>2. Assoc(pre, a, got)
    BY AssocIs
  <2>3. (pre \o a) \o got = pre \o (a \o got)
    BY <2>2 DEF Assoc
  <2> QED
    BY <1>7, <2>1, <2>3
<1>16. CASE q < l
  <2>1. got # CRLF
    <3>1. SUFFICES ASSUME got = CRLF PROVE FALSE
      OBVIOUS
    <3>2. g = 2 /\ got[2] = NewLine
      BY <1>11, <3>1, CRLFIsLine DEF NewLine
    <3>3. q - m = 2 /\ 2 \in 1..q-m /\ m + 2 \in 1..l-1
      BY <1>11, <1>12, <1>16, <3>2
    <3>4. got[2] = x[m+2]
      BY <3>3, <1>13, <1>14 DEF PartsOf
    <3> QED
      BY <3>2, <3>3, <3>4, <1>8, <1>11
  <2>2. IsCut(q)
    <3>1. q = m + (MAXLINE - 1)
      <4>1. q - m = MAXLINE - 1 /\ MAXLINE \in Nat
        BY <1>13, <1>16, RioAssumption
      <4> QED
        BY <4>1, <1>11
    <3>2. IsCut(m + (MAXLINE - 1))
      BY <1>7, <1>11, Cuts
    <3> QED
      BY <3>1, <3>2
  <2>3. AtPlace(h, k, q, kept \o got, rest)
    BY <2>2, <1>3, <1>5, <1>6, <1>7, <1>11, <1>13, <1>15 DEF AtPlace
  <2>4. q \in 0..Len(h[k])-1
    BY <1>3, <1>11, <1>16
  <2>5. Place(h, kept \o got, rest)
    BY <2>3, <2>4 DEF Place
  <2> QED
    BY <2>1, <2>5 DEF Goes
<1>17. CASE q = l
  <2>1. rest = more
    <3>1. l \in 0..l /\ l \in l..l
      OBVIOUS
    <3>2. PartsOf(x, l, l, l)
      BY <3>1, <1>11, Parts
    <3>3. SubSeq(x, l + 1, l) = <<>>
      BY <3>2 DEF PartsOf
    <3> QED
      BY <3>3, <1>13, <1>17, ConcatEmptySeq
  <2>2. LastPieceIsCRLF(x) <=> got = CRLF
    <3>1. l - m < MAXLINE
      BY <1>13, <1>17
    <3>2. LastPieceIsCRLF(x) <=> SubSeq(x, m + 1, Len(x)) = CRLF
      BY <3>1, <1>4, <1>7, <1>11, LastPiece
    <3> QED
      BY <3>2, <1>11, <1>13, <1>17
  <2>3. CASE got = CRLF
    <3>1. g = 2
      BY <1>11, <2>3, CRLFIsLine
    <3>2. m = l - 2 /\ l > 1
      BY <3>1, <1>11, <1>12, <1>17
    <3>3. kept = FlattenSeq(SubSeq(h, 1, k - 1)) \o SubSeq(h[k], 1, Len(h[k]) - 2)
      BY <3>2, <1>3, <1>6, <1>7, <1>11
    <3>4. Finds(h, k, kept)
      BY <3>2, <3>3, <2>2, <2>3, <1>2, <1>3, <1>7, <1>11 DEF Finds
    <3> QED
      BY <2>3, <3>4 DEF Goes
  <2>4. CASE got # CRLF
    <3>1. SubSeq(x, 1, q) = x
      BY <1>14, <1>17 DEF PartsOf
    <3>2. kept \o got = FlattenSeq(SubSeq(h, 1, k - 1)) \o h[k]
      BY <3>1, <1>3, <1>6, <1>15
    <3>3. rest = FlattenSeq(SubSeq(h, k + 1, Len(h)))
      BY <2>1, <1>3, <1>5
    <3>4. ~LastPieceIsCRLF(h[k])
      BY <2>2, <2>4, <1>3
    <3>5. Place(h, FlattenSeq(SubSeq(h, 1, k - 1)) \o h[k], FlattenSeq(SubSeq(h, k + 1, Len(h))))
      BY <3>4, <1>2, <1>7, NextPlace
    <3> QED
      BY <2>4, <3>2, <3>3, <3>5 DEF Goes
  <2> QED
    BY <2>3, <2>4
<1>18. q < l \/ q = l
  BY <1>13, <1>11
<1> QED
  BY <1>16, <1>17, <1>18

\* What a client sends is such lines,
LEMMA LinesOK ==
    ASSUME TypeInv, script \in Scripts, NEW c \in Clients
    PROVE  LineOK(Lines(c))
<1>1. PICK h \in Seq(Seq(Byte)) : h = Lines(c)
  BY DEF TypeInv, Lines
<1>2. InLines(h)
  <2>1. \A plan \in Scripts, d \in Clients : InLines(plan[d].lines)
    BY RequestPathAssumption
  <2> QED
    BY <1>1, <2>1 DEF Lines
<1>3. \A k \in 1..Len(h) : /\ h[k] # <<>>
                           /\ \A i \in 1..Len(h[k])-1 : h[k][i] # NewLine
                           /\ k < Len(h) => h[k][Len(h[k])] = NewLine
  BY <1>2 DEF InLines, Last
<1> QED
  BY <1>1, <1>3 DEF LineOK

\* and so is what is behind the first of them, as Rio cuts it.
HeadersFrom(h, x, t) ==
    h = IF Len(x) < MAXLINE THEN t ELSE <<SubSeq(x, MAXLINE, Len(x))>> \o t

\* Those that follow the first line.
LEMMA HeadersAre ==
    ASSUME NEW c, LineOK(Lines(c)), Lines(c) # <<>>
    PROVE  \E x \in Seq(Byte), t \in Seq(Seq(Byte)) :
             /\ LineOK(t) /\ x # <<>> /\ \A i \in 1..Len(x)-1 : x[i] # NewLine
             /\ x[Len(x)] = NewLine \/ t = <<>>
             /\ Sends(c) = x \o FlattenSeq(t)
             /\ HeadersFrom(Headers(c), x, t)
<1>1. PICK h \in Seq(Seq(Byte)) : h = Lines(c) /\ h # <<>>
  BY DEF LineOK
<1>2. PICK n \in Nat : n = Len(h) /\ n > 0 /\ 1 \in 1..n
  BY <1>1
<1>3. PICK x \in Seq(Byte), t \in Seq(Seq(Byte)) : x = h[1] /\ x = Head(h) /\ t = Tail(h)
  <2>1. Head(h) \in Seq(Byte) /\ Tail(h) \in Seq(Seq(Byte))
    BY <1>1, FlattenHead
  <2>2. Head(h) = h[1]
    BY <1>1
  <2> QED
    BY <2>1, <2>2
<1>4. Len(t) = n - 1 /\ \A i \in 1..n-1 : t[i] = h[i+1]
  BY <1>1, <1>2, <1>3
<1>5. LineOK(t)
  <2> SUFFICES ASSUME NEW k \in 1..n-1
               PROVE  /\ t[k] # <<>>
                      /\ \A i \in 1..Len(t[k])-1 : t[k][i] # NewLine
                      /\ k < n - 1 => t[k][Len(t[k])] = NewLine
    BY <1>3, <1>4 DEF LineOK
  <2>1. PICK j \in 1..n : j = k + 1 /\ t[k] = h[j] /\ (k < n - 1 => j < n)
    BY <1>2, <1>4
  <2> QED
    BY <2>1, <1>1, <1>2 DEF LineOK
<1>6. x # <<>> /\ \A i \in 1..Len(x)-1 : x[i] # NewLine
  BY <1>1, <1>2, <1>3 DEF LineOK
<1>7. x[Len(x)] = NewLine \/ t = <<>>
  <2>1. 1 < n => x[Len(x)] = NewLine
    BY <1>1, <1>2, <1>3 DEF LineOK
  <2>2. n = 1 => t = <<>>
    BY <1>4
  <2> QED
    BY <1>2, <2>1, <2>2
<1>8. Sends(c) = x \o FlattenSeq(t)
  BY <1>1, <1>3, FlattenHead DEF Sends
<1>9. HeadersFrom(Headers(c), x, t)
  <2>1. Headers(c) = (IF Len(x) < MAXLINE THEN <<>> ELSE <<SubSeq(x, MAXLINE, Len(x))>>) \o t
    BY <1>1, <1>3 DEF Headers
  <2>2. <<>> \o t = t
    BY ConcatEmptySeq
  <2> QED
    BY <2>1, <2>2 DEF HeadersFrom
<1> QED
  BY <1>3, <1>5, <1>6, <1>7, <1>8, <1>9

\* What a line is too long by is a line itself.
LEMMA LongLine ==
    ASSUME NEW x \in Seq(Byte), \A i \in 1..Len(x)-1 : x[i] # NewLine, Len(x) >= MAXLINE
    PROVE  LET y == SubSeq(x, MAXLINE, Len(x)) IN
           /\ y \in Seq(Byte) /\ y # <<>> /\ \A i \in 1..Len(y)-1 : y[i] # NewLine
           /\ y[Len(y)] = x[Len(x)]
<1>1. PICK m \in Nat, l \in Nat : MAXLINE = m + 1 /\ l = Len(x) /\ m < l
  <2>1. MAXLINE \in Nat /\ MAXLINE > 1
    BY RioAssumption
  <2>2. MAXLINE - 1 \in Nat /\ MAXLINE = (MAXLINE - 1) + 1 /\ MAXLINE - 1 < Len(x)
    BY <2>1
  <2> QED
    BY <2>2
<1>2. PartsOf(x, l, m, l)
  <2>1. m \in 0..l /\ l \in m..l
    BY <1>1
  <2> QED
    BY <1>1, <2>1, Parts
<1>3. PICK y \in Seq(Byte) : /\ y = SubSeq(x, m + 1, l) /\ Len(y) = l - m
                             /\ \A i \in 1..l-m : y[i] = x[m+i]
  BY <1>2 DEF PartsOf
<1>4. y # <<>> /\ y[l-m] = x[l]
  <2>1. PICK j \in 1..l-m : j = l - m /\ m + j = l
    BY <1>1
  <2>2. y[j] = x[m+j] /\ Len(y) > 0
    BY <2>1, <1>3
  <2> QED
    BY <2>1, <2>2
<1>5. ASSUME NEW i \in 1..Len(y)-1 PROVE y[i] # NewLine
  <2>1. i \in 1..l-m /\ m + i \in 1..l-1
    BY <1>1, <1>3
  <2> QED
    BY <2>1, <1>1, <1>3
<1> QED
  BY <1>1, <1>3, <1>4, <1>5

\* A line in front of lines.
LEMMA LineBefore ==
    ASSUME NEW y \in Seq(Byte), NEW t, LineOK(t), y # <<>>, \A i \in 1..Len(y)-1 : y[i] # NewLine,
           y[Len(y)] = NewLine \/ t = <<>>
    PROVE  LineOK(<<y>> \o t) /\ FlattenSeq(<<y>> \o t) = y \o FlattenSeq(t)
<1>1. t \in Seq(Seq(Byte))
  BY DEF LineOK
<1>2. PICK n \in Nat : n = Len(t)
  BY <1>1
<1>3. PICK h \in Seq(Seq(Byte)) : h = <<y>> \o t
  <2>1. <<y>> \in Seq(Seq(Byte))
    OBVIOUS
  <2> QED
    BY <1>1, <2>1, ConcatProperties
<1>4. Len(h) = n + 1 /\ h[1] = y /\ \A k \in 2..n+1 : h[k] = t[k-1]
  BY <1>1, <1>2, <1>3
<1>5. LineOK(h)
  <2> SUFFICES ASSUME NEW k \in 1..n+1
               PROVE  /\ h[k] # <<>>
                      /\ \A i \in 1..Len(h[k])-1 : h[k][i] # NewLine
                      /\ k < n + 1 => h[k][Len(h[k])] = NewLine
    BY <1>3, <1>4 DEF LineOK
  <2>1. CASE k = 1
    <3>1. 1 < n + 1 => t # <<>>
      BY <1>2
    <3> QED
      BY <2>1, <1>4, <3>1
  <2>2. CASE k # 1
    <3>1. PICK j \in 1..n : j = k - 1 /\ h[k] = t[j] /\ (k < n + 1 => j < n)
      BY <2>2, <1>4
    <3> QED
      BY <3>1, <1>2 DEF LineOK
  <2> QED
    BY <2>1, <2>2
<1>6. FlattenSeq(h) = y \o FlattenSeq(t)
  <2>1. h # <<>> /\ Head(h) = y
    BY <1>4
  <2>2. Tail(h) = t
    BY <1>1, <1>3
  <2> QED
    BY <2>1, <2>2, FlattenHead
<1> QED
  BY <1>3, <1>5, <1>6

\* The headers of a client are lines.
LEMMA HeadersOK ==
    ASSUME NEW c, LineOK(Lines(c))
    PROVE  LineOK(Headers(c))
<1>1. CASE Lines(c) = <<>>
  <2>1. Headers(c) = <<>>
    BY <1>1 DEF Headers
  <2>2. PICK none \in Seq(Seq(Byte)) : none = <<>> /\ Len(none) = 0
    <3>1. <<>> \in Seq(Seq(Byte)) /\ Len(<<>>) = 0
      BY EmptySeq
    <3> QED
      BY <3>1
  <2>3. LineOK(none)
    BY <2>2 DEF LineOK
  <2> QED
    BY <2>1, <2>2, <2>3
<1>2. CASE Lines(c) # <<>>
  <2>1. PICK x \in Seq(Byte), t \in Seq(Seq(Byte)) :
             /\ LineOK(t) /\ x # <<>> /\ \A i \in 1..Len(x)-1 : x[i] # NewLine
             /\ x[Len(x)] = NewLine \/ t = <<>>
             /\ HeadersFrom(Headers(c), x, t)
    BY <1>2, HeadersAre
  <2>2. CASE Len(x) < MAXLINE
    BY <2>1, <2>2 DEF HeadersFrom
  <2>3. CASE Len(x) >= MAXLINE
    <3>1. PICK y \in Seq(Byte) : /\ y = SubSeq(x, MAXLINE, Len(x)) /\ y # <<>>
                                 /\ (\A i \in 1..Len(y)-1 : y[i] # NewLine) /\ y[Len(y)] = x[Len(x)]
      BY <2>1, <2>3, LongLine
    <3>2. LineOK(<<y>> \o t)
      BY <2>1, <3>1, LineBefore
    <3>3. ~(Len(x) < MAXLINE)
      BY <2>3, RioAssumption
    <3> QED
      BY <2>1, <3>1, <3>2, <3>3 DEF HeadersFrom
  <2>4. Len(x) < MAXLINE \/ Len(x) >= MAXLINE
    BY RioAssumption
  <2> QED
    BY <2>2, <2>3, <2>4
<1> QED
  BY <1>1, <1>2

\* What begins with something is something.
LEMMA NotNothing ==
    ASSUME NEW a \in Seq(Byte), NEW b \in Seq(Byte), a # <<>>
    PROVE  a \o b # <<>>
  BY ConcatEqualIffEmpty

\* Behind the first line begin the headers.
LEMMA FirstLine ==
    ASSUME NEW c, LineOK(Lines(c)), NEW got \in Seq(Byte), NEW rest \in Seq(Byte),
           NEW all, all = got \o rest, all = Sends(c), IsLine(got)
    PROVE  rest = FlattenSeq(Headers(c))
<1>1. Lines(c) # <<>>
  <2>1. got # <<>>
    BY DEF IsLine
  <2>2. got \o rest # <<>>
    BY <2>1, NotNothing
  <2>3. Sends(c) # <<>>
    BY <2>2
  <2> QED
    BY <2>3, FlattenNone DEF Sends
<1>2. PICK x \in Seq(Byte), t \in Seq(Seq(Byte)) :
           /\ LineOK(t) /\ x # <<>> /\ \A i \in 1..Len(x)-1 : x[i] # NewLine
           /\ x[Len(x)] = NewLine \/ t = <<>>
           /\ Sends(c) = x \o FlattenSeq(t)
           /\ HeadersFrom(Headers(c), x, t)
  BY <1>1, HeadersAre
<1>3. PICK more \in Seq(Byte) : more = FlattenSeq(t) /\ (t = <<>> => more = <<>>)
  BY FlattenType, FlattenNone
<1>4. PICK l \in Nat, q \in Nat, m \in {0} : l = Len(x) /\ q = Len(got) /\ l > 0
  BY <1>2
<1>5. PartsOf(x, l, m, l)
  <2>1. m \in 0..l /\ l \in m..l
    BY <1>4
  <2> QED
    BY <1>4, <2>1, Parts
<1>6. m + 1 = 1 /\ SubSeq(x, 1, l) = x /\ m \in 0..Len(x)-1 /\ m + Len(got) = q
  BY <1>4, <1>5 DEF PartsOf
<1>7. PieceOf(x, m, m + Len(got), got, rest, more)
  <2>1. Continues(x, m, got, rest, more)
    BY <1>2, <1>3, <1>4, <1>6 DEF Continues
  <2> QED
    BY <1>6, <2>1, PieceFound
<1>8. /\ q <= l /\ q < MAXLINE /\ rest = SubSeq(x, q + 1, l) \o more
      /\ q < l => q = MAXLINE - 1
  <2>1. PieceOf(x, m, q, got, rest, more)
    BY <1>6, <1>7
  <2>2. q - m = q
    BY <1>4
  <2> QED
    BY <2>1, <2>2, <1>4 DEF PieceOf
<1>9. CASE q < l
  <2>1. q + 1 = MAXLINE /\ ~(l < MAXLINE) /\ l >= MAXLINE
    BY <1>4, <1>8, <1>9, RioAssumption
  <2>2. PICK y \in Seq(Byte) : /\ y = SubSeq(x, MAXLINE, Len(x)) /\ y # <<>>
                               /\ (\A i \in 1..Len(y)-1 : y[i] # NewLine) /\ y[Len(y)] = x[Len(x)]
    BY <1>2, <1>4, <2>1, LongLine
  <2>3. FlattenSeq(<<y>> \o t) = y \o FlattenSeq(t)
    BY <1>2, <2>2, LineBefore
  <2>4. Headers(c) = <<y>> \o t
    BY <1>2, <1>4, <2>1, <2>2 DEF HeadersFrom
  <2> QED
    BY <1>3, <1>4, <1>8, <2>1, <2>2, <2>3, <2>4
<1>10. CASE q = l
  <2>1. l < MAXLINE /\ Headers(c) = t
    BY <1>2, <1>4, <1>8, <1>10 DEF HeadersFrom
  <2>2. SubSeq(x, l + 1, l) = <<>>
    <3>1. PartsOf(x, l, l, l)
      <4>1. l \in 0..l /\ l \in l..l
        OBVIOUS
      <4> QED
        BY <1>4, <4>1, Parts
    <3> QED
      BY <3>1 DEF PartsOf
  <2>3. rest = more
    BY <1>8, <1>10, <2>2, ConcatEmptySeq
  <2> QED
    BY <1>3, <2>1, <2>3
<1>11. q < l \/ q = l
  BY <1>4, <1>8
<1> QED
  BY <1>9, <1>10, <1>11

\* And nothing is kept there.
LEMMA AtBeginning ==
    ASSUME NEW h, LineOK(h), NEW none, none = <<>>
    PROVE  Place(h, none, FlattenSeq(h))
<1>1. h \in Seq(Seq(Byte))
  BY DEF LineOK
<1>2. CASE h = <<>>
  BY <1>2, FlattenNone DEF Place
<1>3. CASE h # <<>>
  <2>1. PICK n \in Nat, k \in {1} : n = Len(h) /\ k \in 1..n
    BY <1>1, <1>3
  <2>2. PICK y \in Seq(Byte) : y = h[k] /\ y # <<>>
    BY <1>1, <2>1 DEF LineOK
  <2>3. PICK m \in {0} : Len(y) > 0 /\ SubSeq(y, 1, m) = <<>> /\ SubSeq(y, 1, Len(y)) = y /\ m + 1 = 1
    <3>1. PartsOf(y, Len(y), 0, 0)
      BY Parts
    <3>2. SubSeq(y, 1, 0) = <<>>
      BY <3>1 DEF PartsOf
    <3> QED
      BY <3>1, <3>2, <2>2 DEF PartsOf
  <2>4. IsCut(m)
    <3>1. 0 = 0 * (MAXLINE - 1)
      BY RioAssumption
    <3> QED
      BY <3>1 DEF IsCut
  <2>5. FlattenSeq(SubSeq(h, 1, k - 1)) = <<>>
    <3>1. SubSeq(h, 1, k - 1) = <<>>
      BY <1>1, <2>1
    <3> QED
      BY <3>1, FlattenNone
  <2>6. FlattenSeq(h) = y \o FlattenSeq(SubSeq(h, k + 1, n))
    <3>1. FlattenSeq(SubSeq(h, k, n)) = h[k] \o FlattenSeq(SubSeq(h, k + 1, n))
      BY <1>1, <2>1, FlattenFrom
    <3>2. SubSeq(h, k, n) = h
      BY <1>1, <2>1
    <3> QED
      BY <3>1, <3>2, <2>2
  <2>7. none = FlattenSeq(SubSeq(h, 1, k - 1)) \o SubSeq(h[k], 1, m)
    <3>1. PICK e \in Seq(Byte) : e = <<>>
      BY NothingCut
    <3>2. e \o e = e
      BY <3>1, ConcatEmptySeq
    <3> QED
      BY <2>2, <2>3, <2>5, <3>1, <3>2
  <2>8. FlattenSeq(h) = SubSeq(h[k], m + 1, Len(h[k])) \o FlattenSeq(SubSeq(h, k + 1, Len(h)))
    BY <2>1, <2>2, <2>3, <2>6
  <2>9. \A i \in 1..k-1 : ~LastPieceIsCRLF(h[i])
    BY <2>1
  <2>10. AtPlace(h, k, m, none, FlattenSeq(h))
    BY <2>4, <2>7, <2>8, <2>9, Zenon DEF AtPlace
  <2>11. m \in 0..Len(h[k])-1
    BY <2>2, <2>3
  <2> QED
    BY <2>1, <2>10, <2>11 DEF Place
<1> QED
  BY <1>2, <1>3

\* What two sequences hold together.
LEMMA BothHold ==
    ASSUME NEW S, NEW a \in Seq(S), NEW b \in Seq(S)
    PROVE  ToSet(a \o b) = ToSet(a) \cup ToSet(b)
<1>1a. PICK m \in Nat, n \in Nat : m = Len(a) /\ n = Len(b)
  OBVIOUS
<1>2a. ToSet(a) = {a[i] : i \in 1..m} /\ ToSet(b) = {b[i] : i \in 1..n}
  <2>1. DOMAIN a = 1..m /\ DOMAIN b = 1..n
    BY <1>1a
  <2> QED
    BY <2>1 DEF ToSet
<1>0. PICK u \in Seq(S) : m = Len(a) /\ n = Len(b) /\ u = a \o b /\ Len(u) = m + n
  <2>1. a \o b \in Seq(S) /\ Len(a \o b) = Len(a) + Len(b)
    BY ConcatProperties
  <2> QED
    BY <1>1a, <2>1
<1>1. \A i \in 1..m+n : u[i] = IF i <= m THEN a[i] ELSE b[i-m]
  BY <1>0, ConcatProperties
<1>2. ASSUME NEW i \in 1..m+n PROVE u[i] \in ToSet(a) \cup ToSet(b)
  <2>1. CASE i <= m
    <3>1. i \in 1..m /\ u[i] = a[i]
      BY <1>1, <2>1
    <3> QED
      BY <3>1, <1>2a
  <2>2. CASE i > m
    <3>1. PICK j \in 1..n : j = i - m /\ ~(i <= m)
      BY <2>2
    <3>2. u[i] = b[j]
      BY <1>1, <3>1
    <3> QED
      BY <3>1, <3>2, <1>2a
  <2> QED
    BY <1>0, <2>1, <2>2
<1>3. ASSUME NEW i \in 1..m PROVE a[i] \in ToSet(u)
  <2>1. i \in 1..m+n /\ u[i] = a[i]
    BY <1>0, <1>1
  <2> QED
    BY <1>0, <2>1 DEF ToSet
<1>4. ASSUME NEW i \in 1..n PROVE b[i] \in ToSet(u)
  <2>1. PICK j \in 1..m+n : j = m + i /\ ~(j <= m) /\ j - m = i
    BY <1>0
  <2>2. u[j] = b[i]
    BY <1>1, <2>1
  <2> QED
    BY <1>0, <2>2 DEF ToSet
<1>5. ToSet(u) \subseteq ToSet(a) \cup ToSet(b)
  BY <1>0, <1>2 DEF ToSet
<1>6. ToSet(a) \subseteq ToSet(u) /\ ToSet(b) \subseteq ToSet(u)
  BY <1>2a, <1>3, <1>4
<1> QED
  BY <1>0, <1>5, <1>6

\* What the request line holds is no header that is added.
LEMMA OpeningHolds ==
    ASSUME NEW text \in DOMAIN RequestLines
    PROVE  /\ Opening(text) \in Seq(Byte)
           /\ \A k \in DOMAIN Added : Added[k] \notin ToSet(Opening(text))
<1>1. PICK file \in Byte : file = RequestLines[text].file /\ file \in DOMAIN RequestLines
  BY RequestPathAssumption, Strings
<1>2. PICK a \in Seq(Byte) : a = <<file>> /\ Len(a) = 1 /\ a[1] = file
  <2>1. <<file>> \in Seq(Byte) /\ Len(<<file>>) = 1 /\ <<file>>[1] = file
    OBVIOUS
  <2> QED
    BY <2>1
<1>3. PICK b \in Seq(Byte) : b = CRLF /\ Len(b) = 2 /\ b[1] = "cr" /\ b[2] = "lf"
  BY CRLFIsLine
<1>4. ToSet(a) = {file}
  BY <1>2 DEF ToSet
<1>5. ToSet(b) = {"cr", "lf"}
  <2>1. DOMAIN b = {1, 2}
    BY <1>3
  <2> QED
    BY <1>3, <2>1 DEF ToSet
<1>6. ToSet(a \o b) = {file, "cr", "lf"} /\ a \o b \in Seq(Byte)
  <2>1. ToSet(a \o b) = ToSet(a) \cup ToSet(b)
    BY BothHold
  <2>2. a \o b \in Seq(Byte)
    BY ConcatProperties
  <2> QED
    BY <2>1, <2>2, <1>4, <1>5
<1>7. Opening(text) = a \o b
  BY <1>1, <1>2, <1>3 DEF Opening
<1>8. ASSUME NEW k \in DOMAIN Added PROVE Added[k] \notin {file, "cr", "lf"}
  <2>1. ToSet(Added) \cap ({"cr", "lf"} \cup DOMAIN RequestLines) = {}
    BY RequestPathAssumption
  <2>2. Added[k] \in ToSet(Added)
    BY DEF ToSet
  <2> QED
    BY <1>1, <2>1, <2>2
<1> QED
  BY <1>6, <1>7, <1>8

\* The first end that is found is the first there is, and what is forwarded then
\* is what is to be forwarded.
LEMMA FoundEnd ==
    ASSUME NEW c, LineOK(Headers(c)), NEW k, NEW kept \in Seq(Byte), Finds(Headers(c), k, kept),
           NEW text \in DOMAIN RequestLines
    PROVE  /\ EndOfHeaders(c) # 0
           /\ WithAdded(Opening(text) \o kept) = ToForward(c, RequestLines[text].file)
<1>1. PICK h \in Seq(Seq(Byte)) : h = Headers(c)
  <2>1. Headers(c) \in Seq(Seq(Byte))
    BY DEF LineOK
  <2> QED
    BY <2>1
<1>2. /\ k \in 1..Len(h) /\ LastPieceIsCRLF(h[k]) /\ \A i \in 1..k-1 : ~LastPieceIsCRLF(h[i])
      /\ kept = FlattenSeq(SubSeq(h, 1, k - 1)) \o SubSeq(h[k], 1, Len(h[k]) - 2)
  BY <1>1 DEF Finds
<1>3. EndOfHeaders(c) = k
  <2>1. PICK ends \in SUBSET (1..Len(h)) : ends = {j \in DOMAIN h : LastPieceIsCRLF(h[j])}
    <3>1. DOMAIN h = 1..Len(h) /\ {j \in DOMAIN h : LastPieceIsCRLF(h[j])} \in SUBSET DOMAIN h
      OBVIOUS
    <3> QED
      BY <3>1, Zenon
  <2>2. k \in ends /\ \A j \in ends : k =< j
    BY <1>2, <2>1
  <2>3. Min(ends) = k
    BY <2>1, <2>2, <1>2 DEF Min
  <2> QED
    BY <1>1, <2>1, <2>2, <2>3 DEF EndOfHeaders
<1>4. k # 0
  BY <1>2
<1>5. PICK opening \in Seq(Byte) : /\ opening = Opening(text)
                                   /\ \A j \in DOMAIN Added : Added[j] \notin ToSet(opening)
  BY OpeningHolds
<1>6. PICK request \in Seq(Byte) : request = opening \o kept /\ ToSet(request) = ToSet(opening) \cup ToSet(kept)
  <2>1. opening \o kept \in Seq(Byte)
    BY ConcatProperties
  <2>2. ToSet(opening \o kept) = ToSet(opening) \cup ToSet(kept)
    BY BothHold
  <2> QED
    BY <2>1, <2>2, Zenon
<1>7. \A j \in DOMAIN Added : Added[j] \in ToSet(request) <=> Added[j] \in ToSet(kept)
  BY <1>5, <1>6
<1>8. [j \in DOMAIN Added |-> IF Added[j] \in ToSet(request) THEN <<>> ELSE <<Added[j]>> \o CRLF]
      = [j \in DOMAIN Added |-> IF Added[j] \in ToSet(kept) THEN <<>> ELSE <<Added[j]>> \o CRLF]
  BY <1>7
<1>9. PICK missing : missing = [j \in DOMAIN Added |-> IF Added[j] \in ToSet(kept) THEN <<>> ELSE <<Added[j]>> \o CRLF]
  OBVIOUS
<1>10. WithAdded(request) = (request \o FlattenSeq(missing)) \o CRLF
  BY <1>8, <1>9, Zenon DEF WithAdded
<1>11. ToForward(c, RequestLines[text].file) = ((opening \o kept) \o FlattenSeq(missing)) \o CRLF
  BY <1>1, <1>2, <1>3, <1>5, <1>9, Zenon DEF ToForward, Opening
<1> QED
  BY <1>3, <1>4, <1>5, <1>6, <1>10, <1>11

-----------------------------------------------------------------------------
\* A call of Rio goes on, and no reset strikes.
GoesOn(s, r, k, r2, k2) ==
    \/ ReadsOn(s, r, k, r2, k2)
    \/ k = <<>> /\ k2 = <<>> /\ r2 = [r EXCEPT !.calling = FALSE, !.rc = Len(r.got)]

\* What it returns at the end of the stream is no empty line.
LEMMA EndsOver ==
    ASSUME NEW s \in Requests, NEW r \in RioCall, NEW r2, NEW k2, CallOK(s, r), r.calling, k2 = <<>>,
           r2 = [r EXCEPT !.calling = FALSE, !.rc = Len(r.got)]
    PROVE  ~r2.calling /\ Over(r2, k2)
<1>1. r.buf = <<>> /\ r.got \in Seq(Byte) /\ Unfinished(s, r.got)
  BY DEF CallOK, RioCall
<1>2. r2.rc = Len(r.got) /\ r2.got = r.got /\ r2.buf = r.buf /\ ~r2.calling
  BY DEF RioCall
<1>3. r.got # CRLF
  <2>1. \A p \in 1..Len(r.got) : r.got[p] # NewLine
    BY <1>1, RequestPathAssumption DEF Unfinished
  <2>2. Len(CRLF) = 2 /\ CRLF[2] = NewLine /\ 2 \in 1..2
    BY CRLFIsLine DEF NewLine
  <2>3. SUFFICES ASSUME r.got = CRLF PROVE FALSE
    OBVIOUS
  <2>4. r.got[2] # NewLine
    BY <2>1, <2>2, <2>3
  <2> QED
    BY <2>2, <2>3, <2>4
<1>4. r2.rc >= 0
  BY <1>1, <1>2
<1> QED
  BY <1>1, <1>2, <1>3, <1>4 DEF Over

\* The request line is the first that the client sends.
LEMMA LineAnswer ==
    ASSUME NEW s \in Requests, NEW r \in RioCall, NEW r2, NEW k \in Seq(Byte), NEW k2, NEW all,
           CallOK(s, r), r.calling, r.got \o k = all, GoesOn(s, r, k, r2, k2)
    PROVE  LineCall(r2, k2, all)
<1>1. CASE ReadsOn(s, r, k, r2, k2)
  <2>1. r2.got \o r2.buf \o k2 = r.got \o r.buf \o k /\ (~r2.calling => HasLine(r2))
    BY <1>1, MoreRead
  <2>2. r.buf = <<>> /\ r.got \in Seq(Byte)
    BY DEF CallOK, RioCall
  <2>3. r.got \o r.buf = r.got
    BY <2>2, ConcatEmptySeq
  <2> QED
    BY <2>1, <2>3 DEF LineCall
<1>2. CASE k = <<>> /\ k2 = <<>> /\ r2 = [r EXCEPT !.calling = FALSE, !.rc = Len(r.got)]
  BY <1>2, EndsOver DEF LineCall
<1> QED
  BY <1>1, <1>2 DEF GoesOn

\* A line of the headers is the one at the place where the call began.
LEMMA HeaderAnswer ==
    ASSUME NEW s \in Requests, NEW r \in RioCall, NEW r2, NEW k \in Seq(Byte), NEW k2, NEW h, NEW kept,
           CallOK(s, r), r.calling, HeaderCall(r, k, h, kept), GoesOn(s, r, k, r2, k2)
    PROVE  HeaderCall(r2, k2, h, kept)
<1>1. CASE ReadsOn(s, r, k, r2, k2)
  <2>1. r2.got \o r2.buf \o k2 = r.got \o r.buf \o k /\ (~r2.calling => HasLine(r2))
    BY <1>1, MoreRead
  <2> QED
    BY <2>1 DEF HeaderCall
<1>2. CASE k = <<>> /\ k2 = <<>> /\ r2 = [r EXCEPT !.calling = FALSE, !.rc = Len(r.got)]
  BY <1>2, EndsOver DEF HeaderCall
<1> QED
  BY <1>1, <1>2 DEF GoesOn

\* The next call begins where the last one ended.
LEMMA HeaderBegins ==
    ASSUME NEW s \in Requests, NEW r \in RioCall, NEW r2, NEW k \in Seq(Byte), NEW h, NEW kept,
           CallsOn(s, r, r2), Place(h, kept, r.buf \o k)
    PROVE  HeaderCall(r2, k, h, kept)
<1>1. r2.got \o r2.buf \o k = r.buf \o k /\ (~r2.calling => HasLine(r2))
  BY NextLine
<1> QED
  BY <1>1 DEF HeaderCall

\* What is behind the piece that was returned.
LEMMA BehindLine ==
    ASSUME NEW r \in RioCall, NEW k \in Seq(Byte)
    PROVE  /\ r.got \in Seq(Byte) /\ r.buf \o k \in Seq(Byte)
           /\ (r.got \o r.buf) \o k = r.got \o (r.buf \o k)
<1>1. PICK got \in Seq(Byte), buf \in Seq(Byte) : got = r.got /\ buf = r.buf
  BY DEF RioCall
<1>2. Assoc(got, buf, k)
  BY AssocIs
<1>3. (got \o buf) \o k = got \o (buf \o k)
  BY <1>2 DEF Assoc
<1>4. buf \o k \in Seq(Byte)
  BY ConcatProperties
<1> QED
  BY <1>1, <1>3, <1>4

\* Behind a line that does not end the headers is the next place.
LEMMA HeaderKept ==
    ASSUME NEW r \in RioCall, NEW k \in Seq(Byte), NEW h, LineOK(h), NEW kept \in Seq(Byte),
           ~r.calling, HeaderCall(r, k, h, kept), r.got # CRLF
    PROVE  Place(h, kept \o r.got, r.buf \o k)
<1>1. PICK got \in Seq(Byte), rest \in Seq(Byte) :
         got = r.got /\ rest = r.buf \o k /\ (r.got \o r.buf) \o k = got \o rest
  BY BehindLine
<1>2. CASE Over(r, k)
  <2>1. PICK none \in Seq(Byte) : none = <<>>
    BY NothingCut
  <2>2. none \o none = none
    BY <2>1, ConcatEmptySeq
  <2>3. r.buf \o k = <<>>
    BY <1>2, <2>1, <2>2 DEF Over
  <2> QED
    BY <2>3 DEF Place
<1>3. CASE Place(h, kept, (r.got \o r.buf) \o k) /\ HasLine(r)
  <2>1. PICK all : all = got \o rest /\ Place(h, kept, all) /\ IsLine(got)
    BY <1>1, <1>3 DEF HasLine
  <2>2. Goes(h, kept, got, rest)
    BY <2>1, Onward
  <2> QED
    BY <1>1, <2>2 DEF Goes
<1> QED
  BY <1>2, <1>3 DEF HeaderCall

\* Where the proxy stops is the end of the headers.
LEMMA HeaderLast ==
    ASSUME NEW r \in RioCall, NEW k \in Seq(Byte), NEW h, LineOK(h), NEW kept \in Seq(Byte),
           ~r.calling, HeaderCall(r, k, h, kept), r.got = CRLF \/ r.rc = -1
    PROVE  \E j \in 1..Len(h) : Finds(h, j, kept)
<1>1. PICK got \in Seq(Byte), rest \in Seq(Byte) :
         got = r.got /\ rest = r.buf \o k /\ (r.got \o r.buf) \o k = got \o rest
  BY BehindLine
<1>2. ~Over(r, k)
  BY DEF Over
<1>3. Place(h, kept, (r.got \o r.buf) \o k) /\ HasLine(r)
  BY <1>2 DEF HeaderCall
<1>4. got = CRLF
  BY <1>1, <1>3 DEF HasLine
<1>5. PICK all : all = got \o rest /\ Place(h, kept, all) /\ IsLine(got)
  BY <1>1, <1>3 DEF HasLine
<1>6. Goes(h, kept, got, rest)
  BY <1>5, Onward
<1> QED
  BY <1>4, <1>6 DEF Goes

\* Behind the request line the headers begin.
LEMMA LineTaken ==
    ASSUME NEW c, LineOK(Lines(c)), NEW r \in RioCall, NEW k \in Seq(Byte), ~r.calling,
           LineCall(r, k, Sends(c)), NEW none, none = <<>>
    PROVE  Place(Headers(c), none, r.buf \o k)
<1>1. PICK got \in Seq(Byte), rest \in Seq(Byte) :
         got = r.got /\ rest = r.buf \o k /\ (r.got \o r.buf) \o k = got \o rest
  BY BehindLine
<1>2. CASE Over(r, k)
  <2>1. PICK e \in Seq(Byte) : e = <<>>
    BY NothingCut
  <2>2. e \o e = e
    BY <2>1, ConcatEmptySeq
  <2>3. r.buf \o k = <<>>
    BY <1>2, <2>1, <2>2 DEF Over
  <2> QED
    BY <2>3 DEF Place
<1>3. CASE HasLine(r) /\ (r.got \o r.buf) \o k = Sends(c)
  <2>1. PICK all : all = got \o rest /\ all = Sends(c) /\ IsLine(got)
    BY <1>1, <1>3 DEF HasLine
  <2>2. rest = FlattenSeq(Headers(c))
    BY <2>1, FirstLine
  <2>3. LineOK(Headers(c))
    BY HeadersOK
  <2>4. PICK h : h = Headers(c) /\ LineOK(h)
    BY <2>3
  <2>5. Place(h, none, FlattenSeq(h))
    BY <2>4, AtBeginning
  <2> QED
    BY <1>1, <2>2, <2>4, <2>5
<1> QED
  BY <1>2, <1>3 DEF LineCall

-----------------------------------------------------------------------------
\* What is forwarded of headers that end with the given line.
Forwarding(file, h, last) ==
    LET kept == FlattenSeq(SubSeq(h, 1, last - 1)) \o SubSeq(h[last], 1, Len(h[last]) - 2)
        missing == [k \in DOMAIN Added |->
                      IF Added[k] \in ToSet(kept) THEN <<>> ELSE <<Added[k]>> \o CRLF]
    IN  <<file>> \o CRLF \o kept \o FlattenSeq(missing) \o CRLF

\* What a script says stays.
LEMMA SameScript ==
    ASSUME script' = script
    PROVE  /\ \A c : /\ Lines(c)' = Lines(c) /\ Sends(c)' = Sends(c) /\ Headers(c)' = Headers(c)
                     /\ EndOfHeaders(c)' = EndOfHeaders(c)
           /\ \A c, file : ToForward(c, file)' = ToForward(c, file)
<1>1. ASSUME NEW c
      PROVE  /\ Lines(c)' = Lines(c) /\ Sends(c)' = Sends(c) /\ Headers(c)' = Headers(c)
             /\ EndOfHeaders(c)' = EndOfHeaders(c)
  <2>1. Lines(c)' = Lines(c)
    BY DEF Lines
  <2>2. Sends(c)' = Sends(c)
    BY <2>1 DEF Sends
  <2>3. Headers(c)' = Headers(c)
    BY <2>1 DEF Headers
  <2>4. EndOfHeaders(c)' = EndOfHeaders(c)
    BY <2>3 DEF EndOfHeaders
  <2> QED
    BY <2>1, <2>2, <2>3, <2>4
<1>2. ASSUME NEW c, NEW file PROVE ToForward(c, file)' = ToForward(c, file)
  <2>1. ToForward(c, file) = Forwarding(file, Headers(c), EndOfHeaders(c))
    BY DEF ToForward, Forwarding
  <2>2. ToForward(c, file)' = Forwarding(file, Headers(c)', EndOfHeaders(c)')
    BY DEF ToForward, Forwarding
  <2>3. Headers(c)' = Headers(c) /\ EndOfHeaders(c)' = EndOfHeaders(c)
    BY <1>1
  <2> QED
    BY <2>1, <2>2, <2>3
<1> QED
  BY <1>1, <1>2

\* A reset that was found is not forgotten.
LEMMA NoticedStays ==
    ASSUME StreamsStep, NEW s \in Streams, peer[s] = "noticed"
    PROVE  peer'[s] = "noticed"
<1>1. StreamStep(s)
  BY DEF StreamsStep
<1> QED
  BY <1>1 DEF StreamStep, Quiet, Closing, Growing, Calling, Reading

\* As long as neither the proxy nor the stream moves, nothing changes,
LEMMA ReadsStay ==
    ASSUME NEW c, ReadsFor(c), script' = script, proxy' = proxy,
           proxy.pc \notin {"accept", "down"} /\ proxy.c = c =>
             /\ rio'[RequestOf(c)] = rio[RequestOf(c)] /\ kernel'[RequestOf(c)] = kernel[RequestOf(c)]
             /\ peer[RequestOf(c)] = "noticed" => peer'[RequestOf(c)] = "noticed"
    PROVE  ReadsFor(c)'
<1> SUFFICES ASSUME proxy.pc \notin {"accept", "down"}, proxy.c = c, peer'[RequestOf(c)] # "noticed"
             PROVE  ReadsAt(c)'
  BY DEF ReadsFor
<1>1. ReadsAt(c) /\ rio'[RequestOf(c)] = rio[RequestOf(c)] /\ kernel'[RequestOf(c)] = kernel[RequestOf(c)]
  BY DEF ReadsFor
<1>2. /\ Sends(c)' = Sends(c) /\ Headers(c)' = Headers(c) /\ EndOfHeaders(c)' = EndOfHeaders(c)
      /\ \A file : ToForward(c, file)' = ToForward(c, file)
  BY SameScript
<1> QED
  BY <1>1, <1>2 DEF ReadsAt

\* and what has been forwarded stays what it was.
LEMMA ForwardedStays ==
    ASSUME NEW c, ForwardedFor(c), script' = script, asked'[c] = asked[c],
           phase[c] # "new" => phase'[c] # "new", phase[c] = "left" => phase'[c] = "left",
           peer[RequestOf(c)] = "noticed" => peer'[RequestOf(c)] = "noticed"
    PROVE  ForwardedFor(c)'
<1>1. /\ EndOfHeaders(c)' = EndOfHeaders(c)
      /\ \A file : ToForward(c, file)' = ToForward(c, file)
  BY SameScript
<1>2. Gets(c) \subseteq Gets(c)'
  BY GetsGrow
<1> QED
  BY <1>1, <1>2 DEF ForwardedFor

\* So it is with what tiny does, and the clients.
LEMMA OthersPlace ==
    ASSUME ControlInv, ControlInv', StreamsStep, PlaceInv,
           (TinyStep /\ UNCHANGED <<proxyVars, clientVars>>) \/ ClientTouches
    PROVE  PlaceInv'
<1>1. /\ script' = script /\ proxy' = proxy /\ asked' = asked
      /\ \A c \in Proxied : /\ phase[c] # "new" => phase'[c] # "new"
                            /\ phase[c] = "left" => phase'[c] = "left"
  BY Names DEF ClientTouches, proxyVars, clientVars
<1>2. ASSUME NEW c \in Proxied
      PROVE  peer[RequestOf(c)] = "noticed" => peer'[RequestOf(c)] = "noticed"
  <2>1. RequestOf(c) \in Streams
    BY Names
  <2> QED
    BY <2>1, NoticedStays
<1>3. ASSUME NEW c \in Proxied, proxy.pc \notin {"accept", "down"}, proxy.c = c
      PROVE  rio'[RequestOf(c)] = rio[RequestOf(c)] /\ kernel'[RequestOf(c)] = kernel[RequestOf(c)]
  <2>1. CASE TinyStep /\ UNCHANGED <<proxyVars, clientVars>>
    <3>1. TinyTouches
      BY <2>1, TinyFrame
    <3>2. Quiet(RequestOf(c))
      BY <3>1, TinyLeavesProxys
    <3> QED
      BY <3>2 DEF Quiet
  <2>2. CASE ClientTouches
    <3>1. c \in Clients
      BY Names
    <3>2. phase[c] # "new"
      BY <1>3, <3>1 DEF ControlInv, NewInv, ProxyAt
    <3>3. Quiet(RequestOf(c)) \/ Closing(RequestOf(c))
      BY <2>2, <3>1, <3>2 DEF ClientTouches
    <3> QED
      BY <3>3 DEF Quiet, Closing
  <2> QED
    BY <2>1, <2>2
<1>4. ASSUME NEW c \in Proxied PROVE ReadsFor(c)' /\ ForwardedFor(c)'
  <2>1. ReadsFor(c) /\ ForwardedFor(c)
    BY DEF PlaceInv
  <2>2. ReadsFor(c)'
    BY <1>1, <1>2, <1>3, <2>1, ReadsStay
  <2>3. ForwardedFor(c)'
    BY <1>1, <1>2, <2>1, ForwardedStays
  <2> QED
    BY <2>2, <2>3
<1> QED
  BY <1>1, <1>4 DEF PlaceInv

\* The proxy goes on with the request that it reads.
LEMMA ReadsOnwards ==
    ASSUME ControlInv, ControlInv', FirstInv, StreamsStep, script \in Scripts, ProxyLeavesTiny, ProxyServes,
           NEW c \in Proxied, c = proxy.c, ReadsFor(c)
    PROVE  ReadsFor(c)'
<1> SUFFICES ASSUME proxy'.pc \notin {"accept", "down"}, peer'[RequestOf(c)] # "noticed"
             PROVE  ReadsAt(c)'
  BY DEF ReadsFor
<1>1. PICK s \in Streams : s = RequestOf(c) /\ s = Here /\ s \in Requests
  BY Names DEF Here
<1>2. peer[s] # "noticed"
  BY <1>1, NoticedStays
<1>3. ReadsAt(c) /\ proxy.pc \notin {"accept", "down"} /\ c \in Clients /\ script' = script
  BY <1>1, <1>2, Names DEF ReadsFor, ProxyServes, ProxyLeavesTiny
<1>4. PICK r \in RioCall, k \in Seq(Byte) : r = rio[s] /\ k = kernel[s] /\ CallOK(s, r)
  BY DEF ControlInv, RioInv
<1>5. PICK r2 \in RioCall, k2 \in Seq(Byte) : r2 = rio'[s] /\ k2 = kernel'[s]
  BY DEF ControlInv, RioInv
<1>6. LineOK(Lines(c)) /\ LineOK(Headers(c))
  <2>1. LineOK(Lines(c))
    BY <1>3, LinesOK DEF ControlInv
  <2> QED
    BY <2>1, HeadersOK
<1>7. /\ Sends(c)' = Sends(c) /\ EndOfHeaders(c)' = EndOfHeaders(c)
      /\ \A file : ToForward(c, file)' = ToForward(c, file)
      /\ Headers(c)' = Headers(c)
  BY <1>3, SameScript
<1>8. PICK h : h = Headers(c) /\ LineOK(h) /\ Headers(c)' = h
  BY <1>6, <1>7
<1>9. proxy \in ProxyType
  BY DEF ControlInv, TypeInv
<1>10. CASE ProxyPuts
  <2>1. /\ proxy.pc = "write" /\ proxy'.pc = "write" /\ proxy'.then = proxy.then
        /\ r2 = r /\ k2 = k
    BY <1>4, <1>5, <1>10 DEF ProxyPuts
  <2> QED
    BY <1>1, <1>3, <1>4, <1>5, <1>7, <2>1 DEF ReadsAt
<1>11. CASE ProxyTurns
  <2>1. r2 = r /\ k2 = k
    BY <1>4, <1>5, <1>11 DEF ProxyTurns, rioVars
  <2>2. CASE proxy.pc = "requestline" /\ ~rio[Here].calling /\ proxy'.pc = "write"
    <3>1. LineCall(r, k, Sends(c)) /\ ~r.calling
      BY <1>1, <1>3, <1>4, <2>2 DEF ReadsAt
    <3>2. PICK none : none = <<>>
      OBVIOUS
    <3>3. Place(Headers(c), none, r.buf \o k)
      BY <1>6, <3>1, <3>2, LineTaken
    <3> QED
      BY <1>1, <1>5, <1>7, <2>1, <2>2, <3>2, <3>3 DEF ReadsAt
  <2>3. CASE /\ proxy.pc = "headers" /\ ~rio[Here].calling /\ proxy'.pc = "connect"
             /\ rio[Here].got = CRLF \/ rio[Here].rc = -1
             /\ proxy'.text = proxy.text /\ proxy'.request = WithAdded(proxy.request)
    <3>1. PICK kept \in Seq(Byte) : /\ proxy.request = Opening(proxy.text) \o kept
                                    /\ HeaderCall(r, k, h, kept)
      BY <1>1, <1>3, <1>4, <1>8, <2>3 DEF ReadsAt
    <3>2. ~r.calling /\ (r.got = CRLF \/ r.rc = -1)
      BY <1>1, <1>4, <2>3
    <3>3. PICK j \in 1..Len(h) : Finds(h, j, kept)
      BY <1>8, <3>1, <3>2, HeaderLast
    <3>4. PICK text \in DOMAIN RequestLines : text = proxy.text
      BY <1>9 DEF ProxyType
    <3>5. /\ EndOfHeaders(c) # 0
          /\ WithAdded(Opening(text) \o kept) = ToForward(c, RequestLines[text].file)
      BY <1>8, <3>3, FoundEnd
    <3>6. PICK file : file = RequestLines[text].file
      OBVIOUS
    <3>7. proxy'.request = ToForward(c, file) /\ file = RequestLines[proxy'.text].file
      BY <2>3, <3>1, <3>4, <3>5, <3>6
    <3>8. EndOfHeaders(c)' # 0 /\ proxy'.request = ToForward(c, file)'
      BY <1>7, <3>5, <3>7
    <3> QED
      BY <2>3, <3>7, <3>8 DEF ReadsAt
  <2>4. CASE proxy.pc = "relay" /\ proxy'.pc = "write" /\ proxy'.then = "relay"
    BY <2>4 DEF ReadsAt
  <2> QED
    BY <1>11, <2>2, <2>3, <2>4 DEF ProxyTurns
<1>12. CASE ProxyAsksRio
  <2>1. k2 = k
    BY <1>4, <1>5, <1>12 DEF ProxyAsksRio
  <2>2. ASSUME rio' = Called(Here), NEW kept, Place(h, kept, r.buf \o k)
        PROVE  HeaderCall(r2, k2, h, kept)
    <3>1. CallsOn(s, r, r2)
      <4>1. RioInv
        BY DEF ControlInv
      <4>2. r2 = Copied(s, [r EXCEPT !.got = <<>>])
        BY <1>1, <1>4, <1>5, <2>2, <4>1 DEF Called, RioInv
      <4> QED
        BY <4>2, CallIs
    <3> QED
      BY <1>1, <2>1, <2>2, <3>1, HeaderBegins
  <2>3. CASE /\ proxy.pc = "write" /\ proxy.out = <<>> /\ proxy.then = "headers" /\ proxy'.pc = "headers"
             /\ proxy'.text = proxy.text /\ proxy'.request = <<RequestLines[proxy.text].file>> \o CRLF
             /\ rio' = Called(Here)
    <3>1. PICK none \in Seq(Byte) : none = <<>>
      BY NothingCut
    <3>2. Place(h, none, r.buf \o k)
      BY <1>1, <1>3, <1>4, <1>8, <2>3, <3>1 DEF ReadsAt
    <3>3. HeaderCall(r2, k2, h, none)
      BY <2>2, <2>3, <3>2
    <3>4. PICK opening \in Seq(Byte) : opening = Opening(proxy'.text)
      <4>1. proxy.text \in DOMAIN RequestLines
        BY <1>9 DEF ProxyType
      <4> QED
        BY <2>3, <4>1, OpeningHolds
    <3>5. proxy'.request = opening \o none
      <4>1. opening \o none = opening
        BY <3>1, <3>4, ConcatEmptySeq
      <4> QED
        BY <2>3, <3>4, <4>1 DEF Opening
    <3> QED
      BY <1>1, <1>5, <1>8, <2>3, <3>3, <3>4, <3>5 DEF ReadsAt
  <2>4. CASE /\ proxy.pc = "headers" /\ ~rio[Here].calling /\ rio[Here].got # CRLF /\ proxy'.pc = "headers"
             /\ proxy'.text = proxy.text /\ proxy'.request = proxy.request \o rio[Here].got
             /\ rio' = Called(Here)
    <3>1. PICK kept \in Seq(Byte) : /\ proxy.request = Opening(proxy.text) \o kept
                                    /\ HeaderCall(r, k, h, kept)
      BY <1>1, <1>3, <1>4, <1>8, <2>4 DEF ReadsAt
    <3>2. Place(h, kept \o r.got, r.buf \o k)
      BY <1>1, <1>4, <1>8, <2>4, <3>1, HeaderKept
    <3>3. PICK got \in Seq(Byte), more \in Seq(Byte) : got = r.got /\ more = kept \o got
      BY ConcatProperties DEF RioCall
    <3>4. HeaderCall(r2, k2, h, more)
      BY <2>2, <2>4, <3>2, <3>3
    <3>5. PICK opening \in Seq(Byte) : opening = Opening(proxy.text)
      <4>1. proxy.text \in DOMAIN RequestLines
        BY <1>9 DEF ProxyType
      <4> QED
        BY <4>1, OpeningHolds
    <3>6. proxy'.request = opening \o more
      <4>1. Assoc(opening, kept, got)
        BY AssocIs
      <4>2. (opening \o kept) \o got = opening \o (kept \o got)
        BY <4>1 DEF Assoc
      <4> QED
        BY <1>1, <1>4, <2>4, <3>1, <3>3, <3>5, <4>2
    <3>7. opening = Opening(proxy'.text)
      BY <2>4, <3>5
    <3> QED
      BY <1>1, <1>5, <1>8, <2>4, <3>4, <3>6, <3>7 DEF ReadsAt
  <2>5. CASE proxy'.pc = "relay"
    BY <2>5 DEF ReadsAt
  <2> QED
    BY <1>12, <2>3, <2>4, <2>5 DEF ProxyAsksRio
<1>13. CASE ProxyConnects
  <2>1. /\ proxy.pc = "connect" /\ proxy'.pc = "send" /\ proxy'.text = proxy.text
        /\ proxy'.request = proxy.request
    BY <1>13 DEF ProxyConnects
  <2>2. EndOfHeaders(c) # 0 /\ \E file \in {RequestLines[proxy.text].file} : proxy.request = ToForward(c, file)
    BY <1>3, <2>1 DEF ReadsAt
  <2> QED
    BY <1>7, <2>1, <2>2 DEF ReadsAt
<1>14. CASE ProxyAsksTiny \/ ProxyLetsGo \/ ProxyDies
  BY <1>14 DEF ReadsAt, ProxyAsksTiny, ProxyLetsGo, ProxyDies
<1>15. CASE ProxyHears
  <2>1. proxy' = proxy
    BY <1>15 DEF ProxyHears
  <2>2. CASE proxy.pc = "relay"
    BY <2>1, <2>2 DEF ReadsAt
  <2>3. CASE proxy.pc \in {"requestline", "headers"} /\ Reading(Here)
    <3>1. GoesOn(s, r, k, r2, k2) /\ r.calling
      <4>1. Reading(s)
        BY <1>1, <2>3
      <4> QED
        BY <1>1, <1>4, <1>5, <4>1 DEF Reading, GoesOn
    <3>2. CASE proxy.pc = "requestline"
      <4>1. r.got \o k = Sends(c)
        BY <1>1, <1>4, <3>1, <3>2 DEF FirstInv, OnFirstCall, FirstCall
      <4>2. PICK all : all = Sends(c)
        OBVIOUS
      <4>3. LineCall(r2, k2, all)
        BY <1>1, <1>4, <3>1, <4>1, <4>2, LineAnswer
      <4> QED
        BY <1>1, <1>5, <1>7, <2>1, <3>2, <4>2, <4>3 DEF ReadsAt
    <3>3. CASE proxy.pc = "headers"
      <4>1. PICK kept \in Seq(Byte) : /\ proxy.request = Opening(proxy.text) \o kept
                                      /\ HeaderCall(r, k, h, kept)
        BY <1>1, <1>3, <1>4, <1>8, <3>3 DEF ReadsAt
      <4>2. HeaderCall(r2, k2, h, kept)
        BY <1>1, <1>4, <3>1, <4>1, HeaderAnswer
      <4> QED
        BY <1>1, <1>5, <1>8, <2>1, <3>3, <4>1, <4>2 DEF ReadsAt
    <3> QED
      BY <2>3, <3>2, <3>3
  <2> QED
    BY <1>15, <2>2, <2>3 DEF ProxyHears
<1> QED
  BY <1>10, <1>11, <1>12, <1>13, <1>14, <1>15 DEF ProxyServes

\* Whatever the proxy does.
LEMMA ProxyPlace ==
    ASSUME ControlInv, ControlInv', FirstInv, TextInv, StreamsStep, PlaceInv, ProxyStep
    PROVE  PlaceInv'
<1>1. /\ ProxyLeavesTiny /\ (ProxyTakesOne \/ ProxyServes)
      /\ \A d \in Proxied : proxy.pc = "accept" \/ d # proxy.c => Alone(d)
  BY ProxyIs DEF ProxyIsDoing
<1>2. script' = script /\ phase' = phase /\ script \in Scripts
  BY <1>1 DEF ProxyLeavesTiny, PlaceInv
<1>3. ASSUME NEW c \in Proxied PROVE ReadsFor(c)'
  <2>1. CASE ProxyTakesOne
    <3>1. proxy'.pc = "requestline" /\ (proxy'.c = c => rio'[RequestOf(c)].calling)
      BY <2>1 DEF ProxyTakesOne
    <3> QED
      BY <3>1 DEF ReadsFor, ReadsAt, LineCall
  <2>2. CASE ProxyServes /\ c = proxy.c
    <3>1. ReadsFor(c)
      BY DEF PlaceInv
    <3> QED
      BY <1>1, <1>2, <2>2, <3>1, ReadsOnwards
  <2>3. CASE ProxyServes /\ c # proxy.c
    <3>1. proxy'.pc # "accept" => proxy'.c # c
      BY <2>3 DEF ProxyServes
    <3> QED
      BY <3>1 DEF ReadsFor
  <2> QED
    BY <1>1, <2>1, <2>2, <2>3
<1>4. ASSUME NEW c \in Proxied PROVE ForwardedFor(c)'
  <2>1. ForwardedFor(c) /\ ReadsFor(c)
    BY DEF PlaceInv
  <2>2. RequestOf(c) \in Streams /\ c \in Clients
    BY Names
  <2>3. peer[RequestOf(c)] = "noticed" => peer'[RequestOf(c)] = "noticed"
    BY <2>2, NoticedStays
  <2>4. CASE asked'[c] = asked[c]
    BY <1>2, <2>1, <2>3, <2>4, ForwardedStays
  <2>5. CASE ProxyServes /\ ProxyAsksTiny /\ c = proxy.c
    <3>1. proxy.pc = "send" /\ asked'[c] = proxy.request
      BY <2>5 DEF ProxyAsksTiny
    <3>2. RequestLines[proxy.text] \in Gets(c)
      BY <2>5, <3>1 DEF TextInv, IsAsked
    <3>3. PICK r : r = RequestLines[proxy.text] /\ r \in Gets(c)'
      <4>1. Gets(c)' = Gets(c)
        BY <1>2, ReasonsSame
      <4> QED
        BY <3>2, <4>1
    <3>4. CASE peer[RequestOf(c)] = "noticed"
      <4>1. phase[c] = "left"
        BY <2>2, <3>4 DEF ControlInv, PeerInv
      <4> QED
        BY <1>2, <2>3, <3>4, <4>1 DEF ForwardedFor
    <3>5. CASE peer[RequestOf(c)] # "noticed"
      <4>1. ReadsAt(c)
        BY <2>1, <2>5, <3>1, <3>5 DEF ReadsFor
      <4>2. PICK file : file = r.file /\ proxy.request = ToForward(c, file) /\ EndOfHeaders(c) # 0
        BY <3>1, <3>3, <4>1 DEF ReadsAt
      <4>3. EndOfHeaders(c)' # 0 /\ proxy.request = ToForward(c, file)'
        BY <1>2, <4>2, SameScript
      <4>4. \E r1 \in Gets(c)' : asked'[c] = ToForward(c, r1.file)'
        BY <3>1, <3>3, <4>2, <4>3
      <4> QED
        BY <4>3, <4>4 DEF ForwardedFor
    <3> QED
      BY <3>4, <3>5
  <2>6. asked'[c] = asked[c] \/ (ProxyServes /\ ProxyAsksTiny /\ c = proxy.c)
    <3>1. CASE ProxyTakesOne
      BY <3>1 DEF ProxyTakesOne
    <3>2. CASE ProxyServes /\ c # proxy.c
      BY <1>1, <3>2 DEF Alone
    <3>3. CASE ProxyServes /\ c = proxy.c
      BY <3>3 DEF ProxyServes, ProxyPuts, ProxyTurns, ProxyAsksRio, ProxyConnects, ProxyHears, ProxyLetsGo, ProxyDies
    <3> QED
      BY <1>1, <3>1, <3>2, <3>3
  <2> QED
    BY <2>4, <2>5, <2>6
<1> QED
  BY <1>2, <1>3, <1>4 DEF PlaceInv

\* The first state.
LEMMA InitPlace == Init => PlaceInv
<1> SUFFICES ASSUME Init PROVE PlaceInv
  OBVIOUS
<1>1. proxy.pc = "accept" /\ asked = [c \in Proxied |-> <<>>] /\ script \in Scripts
  BY NotRequestedParts DEF Init, ProxyInit
<1> QED
  BY <1>1 DEF PlaceInv, ReadsFor, ForwardedFor

\* Every step.
LEMMA StepPlace ==
    ASSUME FaultInv, PlaceInv, [Next]_vars
    PROVE  FaultInv' /\ PlaceInv'
<1>1. FaultInv'
  BY StepFault
<1>2. ControlInv /\ ControlInv' /\ FirstInv /\ TextInv
  BY <1>1 DEF FaultInv
<1>3. StreamsStep
  BY <1>2, StepControl, StutterControl
<1>4. CASE TinyStep /\ UNCHANGED <<proxyVars, clientVars>>
  BY <1>1, <1>2, <1>3, <1>4, OthersPlace
<1>5. CASE ProxyStep
  BY <1>1, <1>2, <1>3, <1>5, ProxyPlace
<1>6. CASE (\E c \in Clients : Send(c) \/ Leave(c)) \/ UNCHANGED vars
  <2>1. ClientTouches
    BY <1>2, <1>6, ClientEffects DEF ClientEffect
  <2> QED
    BY <1>1, <1>2, <1>3, <2>1, OthersPlace
<1> QED
  BY <1>4, <1>5, <1>6 DEF Next

\* RequestForwarded: what tiny is asked for a client is what the client sent to
\* the end of its headers, with the added ones, unless a reset has struck.
THEOREM RequestsAreForwarded == FairSpec => []RequestForwarded
<1>1. FairSpec => Init /\ [][Next]_vars
  BY PTL DEF FairSpec
<1>2. Init => FaultInv /\ PlaceInv
  BY InitFault, InitPlace
<1>3. FaultInv /\ PlaceInv /\ [Next]_vars => (FaultInv /\ PlaceInv)'
  BY StepPlace
<1>4. PlaceInv => RequestForwarded
  BY DEF PlaceInv, ForwardedFor, RequestForwarded
<1> QED
  BY <1>1, <1>2, <1>3, <1>4, PTL
=============================================================================
