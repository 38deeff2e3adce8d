-------------------------------- MODULE Tiny --------------------------------
(***************************************************************************)
(* tiny.c: an iterative web server.  It accepts one connection at a time   *)
(* and handles one request of it: doit, with what it calls.                *)
(*                                                                         *)
(* A byte stands for a piece of text that is looked at as a whole: a       *)
(* request line but for its end, the name of a header, a piece of a reply. *)
(* The wrappers of tiny/csapp.c end the server on every error, and SIGPIPE *)
(* is not ignored.                                                         *)
(***************************************************************************)
EXTENDS Rio

CONSTANTS
    Requests,       \* streams that bring requests, to tiny or to the proxy
    ReplyTo(_),     \* the stream to which the replies to a request go, if any
    RequestLines    \* what the text of a request line says

VARIABLES
    tiny,       \* where doit is, on which connection, and what it is to write
    tinyQueue,  \* connections that have not been accepted yet
    sent,       \* sent[s]: history, the bytes written in reply to s
    over        \* over[s]: whether the server of s has closed it

tinyVars == <<tiny, tinyQueue>>
connVars == <<sent, over>>

CRLF == <<"cr", "lf">>
NoStream == <<"none", "none">>

NotServing == [pc |-> "accept", s |-> NoStream, out |-> <<>>, then |-> "none", first |-> FALSE]

TinyInit ==
    /\ tiny = NotServing
    /\ tinyQueue = <<>>
    /\ sent = [s \in Requests |-> <<>>]
    /\ over = [s \in Requests |-> "no"]

-----------------------------------------------------------------------------
\* One write() in reply to s with one of its outcomes.
Written(s, bytes, outcome) ==
    /\ peer' = [peer EXCEPT ![s] = outcome[2]]
    /\ sent' = [sent EXCEPT ![s] = IF outcome[1] = "ok" THEN @ \o bytes ELSE @]
    /\ kernel' = IF outcome[1] = "ok" /\ peer[s] = "open" /\ ReplyTo(s) \in Streams
                 THEN [kernel EXCEPT ![ReplyTo(s)] = @ \o bytes]
                 ELSE kernel

\* The connections in closed are closed by their server, and the unread bytes
\* of a connection turn the FIN into a RST.  Those in dropped are reset.
Hangup(closed, dropped) ==
    LET seen == [s \in closed \cup dropped |->
                    IF s \in dropped \/ kernel[s] # <<>> THEN "reset" ELSE "closed"]
    IN  [p \in Streams |->
            IF \E s \in DOMAIN seen : ReplyTo(s) = p /\ peer[p] = "open"
            THEN seen[CHOOSE s \in DOMAIN seen : ReplyTo(s) = p]
            ELSE peer[p]]

\* main goes back to accept.
TinyCloses ==
    /\ tiny' = NotServing
    /\ over' = [over EXCEPT ![tiny.s] = "served"]
    /\ peer' = Hangup({tiny.s}, {})
    /\ UNCHANGED <<kernel, rio, tinyQueue, sent>>

\* unix_error, or SIGPIPE: the process ends.
TinyExits ==
    /\ tiny' = [tiny EXCEPT !.pc = "down"]
    /\ over' = [s \in Requests |->
                  IF s = tiny.s \/ s \in ToSet(tinyQueue) THEN "dropped" ELSE over[s]]
    /\ peer' = Hangup({tiny.s}, ToSet(tinyQueue))
    /\ UNCHANGED <<kernel, rio, tinyQueue, sent>>

-----------------------------------------------------------------------------
TinyAccept ==
    /\ tiny.pc = "accept" /\ tinyQueue # <<>>
    /\ tiny' = [NotServing EXCEPT !.pc = "requestline", !.s = Head(tinyQueue)]
    /\ tinyQueue' = Tail(tinyQueue)
    /\ rio' = Called(Head(tinyQueue))
    /\ UNCHANGED <<kernel, peer, connVars>>

\* The texts that sscanf may find in a line.  From an empty line it takes
\* nothing: method and uri are what the stack holds.
Texts(line) ==
    CASE line[1] \in DOMAIN RequestLines -> {line[1]}
      [] line[1] \in {"cr", "lf"} -> DOMAIN RequestLines
      [] OTHER -> {"other"}

Call(s, call) == rio' = Called(s) /\ tiny' = call /\ UNCHANGED <<kernel, peer, tinyQueue, connVars>>

TinyGoOn(call) == tiny' = call /\ UNCHANGED <<rioVars, tinyQueue, connVars>>

clienterror == << <<"error">>, <<"html">> >>

\* serve_static, serve_dynamic or clienterror, whichever the file calls for:
\* what is written, and what comes after.  The page of serve_static takes
\* rio_writen more than one write().
ReplyFor(file) ==
    CASE file = "static" -> [out |-> << <<"ok", "length">>, <<"b1", "b2">>, <<"b3">> >>,
                            then |-> "close"]
      [] file = "empty" -> [out |-> << <<"ok", "length">> >>, then |-> "mmap"]
      [] file = "cgi" -> [out |-> << <<"ok">> >>, then |-> "wait"]
      [] OTHER -> [out |-> clienterror, then |-> "close"]

\* The first line of doit, and what sscanf takes from it.
TinyRequestLine ==
    LET s == tiny.s
        r == rio[s]
    IN  /\ tiny.pc = "requestline" /\ ~r.calling
        /\ \/ r.rc = 0 /\ TinyCloses
           \/ r.rc = -1 /\ TinyExits
           \/ /\ r.rc > 0
              /\ \E text \in Texts(r.got) :
                   LET request == RequestLines[text] IN
                   IF request.method # "GET"
                   THEN TinyGoOn([tiny EXCEPT !.pc = "write", !.out = clienterror, !.then = "close"])
                   ELSE Call(s, [tiny EXCEPT !.pc = "headers", !.first = TRUE,
                                             !.out = ReplyFor(request.file).out,
                                             !.then = ReplyFor(request.file).then])

\* read_requesthdrs: at the end of the stream buf keeps the line before, and
\* the loop goes round without end: from then on no step is enabled.  Before
\* the first line buf is not initialised; what it holds may be the last line of
\* the request before, which ends the loop, or anything else.
TinyHeaders ==
    LET s == tiny.s
        r == rio[s]
    IN  /\ tiny.pc = "headers" /\ ~r.calling
        /\ \/ /\ r.got = CRLF \/ (r.rc = 0 /\ tiny.first)
              /\ TinyGoOn([tiny EXCEPT !.pc = "write"])
           \/ /\ r.rc = 0 /\ tiny.first
              /\ TinyGoOn([tiny EXCEPT !.first = FALSE])
           \/ r.rc = -1 /\ TinyExits
           \/ /\ r.rc > 0 /\ r.got # CRLF
              /\ Call(s, [tiny EXCEPT !.first = FALSE])

\* A Rio_writen; an error ends the server.
TinyWrite ==
    /\ tiny.pc = "write" /\ tiny.out # <<>>
    /\ \E outcome \in WriteOutcomes(tiny.s) :
         \/ /\ outcome[1] = "ok"
            /\ Written(tiny.s, Head(tiny.out), outcome)
            /\ tiny' = [tiny EXCEPT !.out = Tail(@)]
            /\ UNCHANGED <<rio, tinyQueue, over>>
         \/ outcome[1] # "ok" /\ TinyExits

\* All is written; or mmap refuses the length 0 of an empty file.
TinyFinish ==
    /\ tiny.pc = "write" /\ tiny.out = <<>>
    /\ \/ tiny.then = "close" /\ TinyCloses
       \/ tiny.then = "mmap" /\ TinyExits
       \/ tiny.then = "wait" /\ TinyGoOn([tiny EXCEPT !.pc = "wait"])

\* The CGI program writes its page to the connection and ends, or crashes where
\* its query has no '&'; wait returns.
CgiProgram ==
    /\ tiny.pc = "wait"
    /\ \/ /\ \E outcome \in WriteOutcomes(tiny.s) : Written(tiny.s, <<"sum">>, outcome)
       \/ UNCHANGED <<kernel, peer, sent>>
    /\ tiny' = [tiny EXCEPT !.pc = "write", !.then = "close"]
    /\ UNCHANGED <<rio, tinyQueue, over>>

TinyStep ==
    \/ TinyAccept \/ TinyRequestLine \/ TinyHeaders
    \/ TinyWrite \/ TinyFinish \/ CgiProgram
    \/ tiny.pc \in {"requestline", "headers"} /\ Read(tiny.s) /\ UNCHANGED <<tinyVars, connVars>>
=============================================================================
