----------------------------- MODULE RequestPath -----------------------------
(***************************************************************************)
(* The sequential proxy (part1-only/proxy.c) between its clients and tiny, *)
(* which has clients of its own.  process_request, which the concurrent    *)
(* proxy has taken over, reads a request, rewrites it, forwards it and     *)
(* relays the response.                                                    *)
(*                                                                         *)
(* Each client sends one request and stays to the end, or leaves whenever  *)
(* it likes.  What it sends, and which clients leave, is its script.       *)
(***************************************************************************)
EXTENDS Tiny

CONSTANTS
    Proxied, Direct,    \* the clients of the proxy, and of tiny
    Scripts,            \* what each client sends, in lines, and whether it leaves
    Added,              \* names of the headers that the proxy adds, in order
    TinysAddresses,     \* the host names and ports that lead to tiny
    AtStart             \* what process_request's frame may hold at the start

VARIABLES
    proxy,          \* where process_request is, for which client
    proxyQueue,     \* connections that have not been accepted yet
    asked,          \* asked[c]: history, what the proxy forwarded for c
    script,         \* script[c]: what client c does
    phase           \* phase[c]: how far it has got

proxyVars == <<proxy, proxyQueue, asked>>
clientVars == <<script, phase>>
vars == <<rioVars, connVars, tinyVars, proxyVars, clientVars>>

Clients == Proxied \cup Direct
RequestOf(c) == <<c, "request">>
ForwardOf(c) == <<c, "forward">>
Addresses == [host : Seq(STRING), port : Seq(STRING)]
ReplyOf(c) == <<c, "reply">>

\* What a client sends, in lines: a line ends with its only newline, except that
\* there may be none behind the last.
InLines(lines) ==
    \A k \in DOMAIN lines :
        /\ lines[k] # <<>>
        /\ \A i \in 1..Len(lines[k]) - 1 : lines[k][i] # NewLine
        /\ k < Len(lines) => Last(lines[k]) = NewLine

\* Each client has a stream to its server, and each client of the proxy two more,
\* between the proxy and tiny; blocks are read only from the last.  The proxy's
\* own request for a file is a request line too, whose text is the file's name.
\* urlOK: behind its first seven characters, taken for "http://", the URL has both
\* a colon and a slash, the first colon before the first slash.  A line has three
\* words and a URL those seven characters: else the code reads what older ones left.
ASSUME RequestPathAssumption ==
    /\ Proxied \cap Direct = {}
    /\ Requests = {RequestOf(c) : c \in Clients} \cup {ForwardOf(c) : c \in Proxied}
    /\ Streams = Requests \cup {ReplyOf(c) : c \in Proxied}
    /\ LineStreams = Requests
    /\ \A s \in Requests : ReplyTo(s) = IF s[2] = "forward" THEN ReplyOf(s[1]) ELSE NoStream
    /\ MAXLINE > 2
    /\ Added \in Seq(STRING) /\ ToSet(Added) \cap ({"cr", "lf"} \cup DOMAIN RequestLines) = {}
    /\ Scripts \subseteq [Clients -> [lines : Seq(Seq(STRING)), leaves : BOOLEAN]]
    /\ \A plan \in Scripts, c \in Clients : InLines(plan[c].lines)
    /\ "other" \in DOMAIN RequestLines /\ {"cr", "lf"} \cap DOMAIN RequestLines = {}
    /\ RequestLines["other"].method # "GET"
    /\ \A text \in DOMAIN RequestLines :
         LET request == RequestLines[text] IN
         /\ text \in STRING
         /\ request \in [method : STRING, versionOK : BOOLEAN, urlOK : BOOLEAN,
                         at : Addresses, file : STRING]
         /\ request.file \in DOMAIN RequestLines
         /\ RequestLines[request.file].method = "GET"
         /\ RequestLines[request.file].file = request.file
    /\ AtStart \subseteq Addresses

\* at: the arrays hostname and port of process_request, whose frame is the same
\* for every request.
NotRequested == [pc |-> "accept", c |-> "none", out |-> <<>>, then |-> "none",
                 first |-> FALSE, text |-> "other", request |-> <<>>,
                 at |-> [host |-> <<>>, port |-> <<>>]]

ProxyInit ==
    /\ proxy \in {[NotRequested EXCEPT !.at = start] : start \in AtStart}
    /\ proxyQueue = <<>>
    /\ asked = [c \in Proxied |-> <<>>]

-----------------------------------------------------------------------------
Here == RequestOf(proxy.c)

ProxyGoesOn(state) ==
    proxy' = state /\ UNCHANGED <<rioVars, connVars, tinyVars, proxyQueue, asked, clientVars>>

ProxyCalls(s, state) ==
    /\ rio' = Called(s) /\ proxy' = state
    /\ UNCHANGED <<kernel, peer, connVars, tinyVars, proxyQueue, asked, clientVars>>

\* main closes the connection and goes back to accept.
ProxyCloses ==
    /\ proxy' = [NotRequested EXCEPT !.at = proxy.at]
    /\ over' = [over EXCEPT ![Here] = "served"]
    /\ UNCHANGED <<rioVars, sent, tinyVars, proxyQueue, asked, clientVars>>

\* unix_error, or a signal: the process ends.  Its connection to tiny is closed with it, and
\* its end is a RST if there is something that it has not read.
ProxyExits ==
    LET forward == ForwardOf(proxy.c) IN
    /\ proxy' = [proxy EXCEPT !.pc = "down"]
    /\ over' = [s \in Requests |->
                  IF s = Here \/ s \in ToSet(proxyQueue) THEN "dropped" ELSE over[s]]
    /\ peer' = IF asked[proxy.c] # <<>> /\ peer[forward] = "open"
               THEN [peer EXCEPT ![forward] = IF kernel[ReplyOf(proxy.c)] # <<>> THEN "reset" ELSE "closed"]
               ELSE peer
    /\ UNCHANGED <<kernel, rio, sent, tinyVars, proxyQueue, asked, clientVars>>

ProxyAccept ==
    /\ proxy.pc = "accept" /\ proxyQueue # <<>>
    /\ LET c == Head(proxyQueue)[1] IN
       /\ rio' = Called(RequestOf(c))
       /\ proxy' = [proxy EXCEPT !.pc = "requestline", !.c = c]
    /\ proxyQueue' = Tail(proxyQueue)
    /\ UNCHANGED <<kernel, peer, connVars, tinyVars, asked, clientVars>>

reply_client_error == << <<"501">>, <<"html">> >>

\* A version of the wrong form is answered, corrected, and the request goes on.
modify_http_version(request) == IF request.versionOK THEN <<>> ELSE reply_client_error

\* strncpy copies a name and no NUL: behind it stands what the array held
\* there, unless other calls have cleared that part of the stack since.
strncpy(name, old) == {name \o tail : tail \in {<<>>, SubSeq(old, Len(name) + 1, Len(old))}}

\* What parse_uri may leave in the two arrays.
parse_uri(at) == [host : strncpy(at.host, proxy.at.host), port : strncpy(at.port, proxy.at.port)]

\* The texts of the request line.  After an error buf is what it was.
ProxyTexts(r) == IF r.rc = -1 THEN DOMAIN RequestLines ELSE Texts(r.got)

\* The request line: what process_request does with it up to change_request.
\* parse_uri comes behind the reply to the version, and not back from a bad URL.
ProxyRequestLine ==
    LET r == rio[Here] IN
    /\ proxy.pc = "requestline" /\ ~r.calling
    /\ \/ r.rc = 0 /\ ProxyCloses
       \/ /\ r.got = CRLF
          /\ ProxyGoesOn([proxy EXCEPT !.pc = "write", !.out = reply_client_error, !.then = "close"])
       \/ /\ r.rc # 0 /\ r.got # CRLF
          /\ \E text \in ProxyTexts(r) :
               LET request == RequestLines[text] IN
               \/ /\ request.method # "GET"
                  /\ ProxyGoesOn([proxy EXCEPT !.pc = "write", !.out = reply_client_error,
                                               !.then = "close"])
               \/ /\ request.method = "GET"
                  /\ \E at \in parse_uri(request.at) :
                       ProxyGoesOn([proxy EXCEPT
                           !.pc = "write", !.then = "headers",
                           !.out = modify_http_version(request),
                           !.text = text, !.at = at])

\* A slip: once the client is gone, the rest of the response is not read.
ProxyWriteUntilGone ==
    /\ proxy.pc = "write" /\ proxy.out # <<>>
    /\ \E outcome \in WriteOutcomes(Here) :
         \/ /\ outcome[1] = "ok"
            /\ Written(Here, Head(proxy.out), outcome)
            /\ proxy' = [proxy EXCEPT !.out = Tail(@)]
            /\ UNCHANGED <<rio, over, tinyVars, proxyQueue, asked, clientVars>>
         \/ /\ outcome[1] # "ok"
            /\ proxy' = [NotRequested EXCEPT !.at = proxy.at]
            /\ over' = [over EXCEPT ![Here] = "served"]
            /\ peer' = IF proxy.then = "relay" THEN [peer EXCEPT ![ForwardOf(proxy.c)] = "reset"]
                       ELSE peer
            /\ UNCHANGED <<kernel, rio, sent, tinyVars, proxyQueue, asked, clientVars>>

\* A Rio_writen to the client tolerates EPIPE; any other error ends the proxy.
ProxyWrite ==
    /\ proxy.pc = "write" /\ proxy.out # <<>>
    /\ \E outcome \in WriteOutcomes(Here) :
         \/ /\ outcome[1] # "ECONNRESET"
            /\ Written(Here, Head(proxy.out), outcome)
            /\ proxy' = [proxy EXCEPT !.out = Tail(@)]
            /\ UNCHANGED <<rio, over, tinyVars, proxyQueue, asked, clientVars>>
         \/ outcome[1] = "ECONNRESET" /\ ProxyExits

\* All is written.  Of a URL that has no colon, no slash, or them in the wrong
\* order, parse_uri copies from NULL or a length below 0: SIGSEGV.
ProxyWritten ==
    /\ proxy.pc = "write" /\ proxy.out = <<>>
    /\ \/ proxy.then = "close" /\ ProxyCloses
       \/ proxy.then = "headers" /\ ~RequestLines[proxy.text].urlOK /\ ProxyExits
       \/ /\ proxy.then = "headers" /\ RequestLines[proxy.text].urlOK
          /\ ProxyCalls(Here, [proxy EXCEPT !.pc = "headers", !.first = TRUE,
                     !.request = <<RequestLines[proxy.text].file>> \o CRLF])
       \/ /\ proxy.then = "relay"
          /\ ProxyCalls(ReplyOf(proxy.c), [proxy EXCEPT !.pc = "relay"])

\* A slip: only the first name is added.
WithFirstAdded(request) ==
    request \o (IF Added[1] \in ToSet(request) THEN <<>> ELSE <<Added[1]>> \o CRLF) \o CRLF

\* The headers that no line named are added, then the empty line.
WithAdded(request) ==
    request
    \o FlattenSeq([k \in DOMAIN Added |->
         IF Added[k] \in ToSet(request) THEN <<>> ELSE <<Added[k]>> \o CRLF])
    \o CRLF

\* change_request.  After an error the loop goes on; the first call's buffer is
\* not initialised, and may hold the last line of the request before.
ProxyHeaders ==
    LET r == rio[Here] IN
    /\ proxy.pc = "headers" /\ ~r.calling
    /\ \/ r.rc = 0 /\ ProxyCloses
       \/ /\ r.got = CRLF \/ (r.rc = -1 /\ proxy.first)
          /\ ProxyGoesOn([proxy EXCEPT !.pc = "connect", !.request = WithAdded(@)])
       \/ /\ r.rc # 0 /\ r.got # CRLF
          /\ ProxyCalls(Here, [proxy EXCEPT !.first = FALSE, !.request = @ \o r.got])

\* Open_clientfd resolves the name and finds tiny there, or the process ends.
ProxyConnect ==
    /\ proxy.pc = "connect"
    /\ IF proxy.at \in TinysAddresses /\ tiny.pc # "down"
       THEN /\ tinyQueue' = Append(tinyQueue, ForwardOf(proxy.c))
            /\ proxy' = [proxy EXCEPT !.pc = "send"]
            /\ UNCHANGED <<rioVars, connVars, tiny, proxyQueue, asked, clientVars>>
       ELSE ProxyExits

\* The request is written to tiny, in one piece.
ProxySend ==
    LET s == ForwardOf(proxy.c) IN
    /\ proxy.pc = "send"
    /\ \E outcome \in WriteOutcomes(ReplyOf(proxy.c)) :
         \/ /\ outcome[1] # "ECONNRESET"
            /\ asked' = [asked EXCEPT ![proxy.c] = proxy.request]
            /\ kernel' = IF outcome[2] = "open" THEN [kernel EXCEPT ![s] = @ \o proxy.request]
                         ELSE kernel
            /\ peer' = [peer EXCEPT ![ReplyOf(proxy.c)] = outcome[2]]
            /\ proxy' = [proxy EXCEPT !.pc = "write", !.out = <<>>, !.then = "relay"]
            /\ UNCHANGED <<rio, connVars, tinyVars, proxyQueue, clientVars>>
         \/ outcome[1] = "ECONNRESET" /\ ProxyExits

\* A slip: a block that is not full is taken for the end.
ShortBlock(rc) == rc < MAXLINE

ResponseEnded(rc) == rc = 0

\* A block of the response is passed on.  Of an error, -1, the loop makes a
\* write of that length, which fails without an effect or a report.
ProxyRelay ==
    LET r == rio[ReplyOf(proxy.c)] IN
    /\ proxy.pc = "relay" /\ ~r.calling
    /\ \/ ResponseEnded(r.rc) /\ ProxyCloses
       \/ ~ResponseEnded(r.rc) /\ ProxyGoesOn([proxy EXCEPT !.pc = "write", !.then = "relay",
                        !.out = IF r.rc = -1 THEN <<>> ELSE <<r.got>>])

ProxyStep ==
    \/ ProxyAccept \/ ProxyRequestLine \/ ProxyWrite \/ ProxyWritten \/ ProxyHeaders
    \/ ProxyConnect \/ ProxySend \/ ProxyRelay
    \/ /\ \/ proxy.pc \in {"requestline", "headers"} /\ Read(Here)
          \/ proxy.pc = "relay" /\ Read(ReplyOf(proxy.c))
       /\ UNCHANGED <<connVars, tinyVars, proxyVars, clientVars>>

-----------------------------------------------------------------------------
\* A client connects to its server and sends all that it has to send.
Send(c) ==
    /\ phase[c] = "new"
    /\ IF c \in Proxied
       THEN /\ proxy.pc # "down"
            /\ proxyQueue' = Append(proxyQueue, RequestOf(c))
            /\ UNCHANGED tinyQueue
       ELSE /\ tiny.pc # "down"
            /\ tinyQueue' = Append(tinyQueue, RequestOf(c))
            /\ UNCHANGED proxyQueue
    /\ kernel' = [kernel EXCEPT ![RequestOf(c)] = FlattenSeq(script[c].lines)]
    /\ phase' = [phase EXCEPT ![c] = "sent"]
    /\ UNCHANGED <<peer, rio, connVars, tiny, proxy, asked, script>>

\* It leaves, with a RST when there is part of the reply that it has not read;
\* how much it has read is left open.
Leave(c) ==
    /\ phase[c] = "sent" /\ script[c].leaves
    /\ over[RequestOf(c)] = "no"
    /\ peer[RequestOf(c)] = "open"
    /\ \E end \in {"closed", "reset"} : peer' = [peer EXCEPT ![RequestOf(c)] = end]
    /\ phase' = [phase EXCEPT ![c] = "left"]
    /\ UNCHANGED <<kernel, rio, connVars, tinyVars, proxyVars, script>>

Init ==
    /\ RioInit /\ TinyInit /\ ProxyInit
    /\ script \in Scripts
    /\ phase = [c \in Clients |-> "new"]

Next ==
    \/ TinyStep /\ UNCHANGED <<proxyVars, clientVars>>
    \/ ProxyStep
    \/ \E c \in Clients : Send(c) \/ Leave(c)

\* Every process runs while it can, and a client that leaves does so some time.
FairSpec ==
    /\ Init /\ [][Next]_vars
    /\ WF_vars(TinyStep /\ UNCHANGED <<proxyVars, clientVars>>)
    /\ WF_vars(ProxyStep)
    /\ \A c \in Clients : WF_vars(Send(c)) /\ WF_vars(Leave(c))

-----------------------------------------------------------------------------
Lines(c) == script[c].lines
Sends(c) == FlattenSeq(Lines(c))

\* What a server that has read c's first line may be asked for; where the line
\* is empty that is anything.
Gets(c) ==
    IF phase[c] = "new" \/ Sends(c) = <<>> THEN {}
    ELSE {request \in {RequestLines[text] : text \in Texts(Sends(c))} : request.method = "GET"}

\* The lines behind the request line, with what it is too long by.
Headers(c) ==
    LET lines == Lines(c) IN
    IF lines = <<>> THEN <<>>
    ELSE (IF Len(lines[1]) < MAXLINE THEN <<>> ELSE <<SubSeq(lines[1], MAXLINE, Len(lines[1]))>>)
         \o Tail(lines)

\* Rio_readlineb cuts a line that is too long; the last piece may be CRLF.
LastPieceIsCRLF(line) ==
    /\ \E cuts \in 0..Len(line) : Len(line) = cuts * (MAXLINE - 1) + 2
    /\ SubSeq(line, Len(line) - 1, Len(line)) = CRLF

\* The first line that change_request takes for the end of the headers.
EndOfHeaders(c) ==
    LET ends == {k \in DOMAIN Headers(c) : LastPieceIsCRLF(Headers(c)[k])}
    IN  IF ends = {} THEN 0 ELSE Min(ends)

\* What is to be forwarded of a request for a file: the request line, the headers
\* to their end, those that are missing, and an empty line.
ToForward(c, file) ==
    LET last == EndOfHeaders(c)
        kept == FlattenSeq(SubSeq(Headers(c), 1, last - 1))
                \o SubSeq(Headers(c)[last], 1, Len(Headers(c)[last]) - 2)
        missing == [k \in DOMAIN Added |->
                      IF Added[k] \in ToSet(kept) THEN <<>> ELSE <<Added[k]>> \o CRLF]
    IN  <<file>> \o CRLF \o kept \o FlattenSeq(missing) \o CRLF

\* process_request: a request reaches tiny only when its headers came to an end,
\* and then as the client sent it but for the added headers.  The one exception
\* is a reset that strikes while the request is being read.
RequestForwarded ==
    \A c \in Proxied :
        asked[c] # <<>> =>
            \/ EndOfHeaders(c) # 0 /\ \E r \in Gets(c) : asked[c] = ToForward(c, r.file)
            \/ phase[c] = "left" /\ peer[RequestOf(c)] = "noticed"

\* What c was sent behind the proxy's own reply to the version of its request r.
Relayed(c, r) ==
    LET own == Len(FlattenSeq(modify_http_version(r)))
    IN  SubSeq(sent[RequestOf(c)], own + 1, Len(sent[RequestOf(c)]))

\* process_request: of tiny's reply the client gets a beginning, block by block,
\* and all of it when nobody left early.
ReplyRelayed ==
    \A c \in Proxied :
        asked[c] # <<>> /\ phase[c] # "left" =>
            \E r \in Gets(c) :
                /\ IsPrefix(Relayed(c, r), sent[ForwardOf(c)])
                /\ over[RequestOf(c)] = "served" /\ over[ForwardOf(c)] = "served" =>
                       Relayed(c, r) = sent[ForwardOf(c)]

\* A name or a port that an earlier, longer one may have spoilt, or what the
\* array held at the start.
SpoiltName(c) ==
    \E r \in Gets(c), part \in {"host", "port"} :
        \/ \E o \in Proxied \ {c} : \E q \in Gets(o) : Len(q.at[part]) > Len(r.at[part])
        \/ \E start \in AtStart : Len(start[part]) > Len(r.at[part])

\* Whoever brings a server down.  Tiny ends only with a client of its own that
\* left, an empty file, or the proxy; the proxy ends only with a client that
\* left before it was answered, a URL that parse_uri cannot take apart, an
\* address that is not tiny's or is spoilt, or tiny.
FaultsContained ==
    /\ tiny.pc = "down" =>
         \/ \E c \in Direct : phase[c] = "left"
         \/ \E c \in Clients : \E r \in Gets(c) : r.file = "empty"
         \/ proxy.pc = "down"
    /\ proxy.pc = "down" =>
         \/ \E c \in Proxied :
               \/ phase[c] = "left"
               \/ \E r \in Gets(c) : ~r.urlOK \/ r.at \notin TinysAddresses
               \/ SpoiltName(c)
         \/ tiny.pc = "down"

\* A request whose headers end, from a client that stays.
WellBehaved(c) == ~script[c].leaves /\ EndOfHeaders(c) # 0

\* Clients that may keep a server for ever: one whose headers do not end and
\* who stays; at tiny, also one that leaves, because its loop knows no end.
MayHold(c) == EndOfHeaders(c) = 0 /\ (c \in Direct \/ ~script[c].leaves)

\* A client is answered to the end unless a server has ended or somebody holds
\* one that it needs; clients of the proxy, whatever they do, do not hold tiny.
EveryoneServed ==
    \A c \in Clients :
        WellBehaved(c) =>
            <>(\/ over[RequestOf(c)] = "served"
               \/ tiny.pc = "down" \/ proxy.pc = "down"
               \/ \E o \in Clients : MayHold(o) /\ (c \in Direct => o \in Direct))
=============================================================================
