-------------------------------- MODULE MCHttp --------------------------------
(* Two clients of the proxy and one of tiny.  Buffers of four bytes: a request *)
(* line and the lines of the added headers fit, longer ones are cut, a header  *)
(* of five bytes before its CRLF, and tiny's page takes two blocks.            *)
EXTENDS RequestPath

MCProxied == {"p", "q"}
MCDirect == {"d"}
MCRequests ==
    ((MCProxied \cup MCDirect) \X {"request"}) \cup (MCProxied \X {"forward"})
MCStreams == MCRequests \cup (MCProxied \X {"reply"})
MCReplyTo(s) == IF s[2] = "forward" THEN <<s[1], "reply">> ELSE NoStream

\* Two host names and two ports lead to tiny.  At the start the array port
\* holds a port, and hostname nothing.
home == [host |-> <<"a", "b">>, port |-> <<"8", "0">>]
shorthost == [home EXCEPT !.host = <<"c">>]
shortport == [home EXCEPT !.port = <<"9">>]
MCAddresses == {home, shorthost, shortport}
MCAtStart == {[host |-> <<>>, port |-> <<"1", "1">>]}
MCAdded == <<"host", "agent">>

Get(at, file) == [method |-> "GET", versionOK |-> TRUE, urlOK |-> TRUE, at |-> at, file |-> file]
Static == Get(home, "static")
MCRequestLines ==
    [static |-> Static, cgi |-> Get(home, "cgi"), empty |-> Get(home, "empty"),
     shorthost |-> Get(shorthost, "static"), shortport |-> Get(shortport, "static"),
     elsewhere |-> Get([home EXCEPT !.host = <<"d">>], "static"),
     badversion |-> [Static EXCEPT !.versionOK = FALSE],
     badurl |-> [Static EXCEPT !.versionOK = FALSE, !.urlOK = FALSE],
     other |-> [Static EXCEPT !.method = "other"]]

Line(text) == <<text, "cr", "lf">>
Long(text) == <<text, "x", "x", "x", "cr", "lf">>
Cut == <<"x", "x", "x", "cr", "lf">>

\* Requests that end, and some that do not.
Whole == {
    <<Line("static"), CRLF>>,
    <<Line("cgi"), CRLF>>,
    <<Line("empty"), CRLF>>,
    <<Line("other"), CRLF>>}
Partial == {<<>>, <<CRLF>>, << <<"lf">>, CRLF>>, << <<"static">> >>, <<Line("static"), Line("host")>>}

\* Requests with something that only the proxy minds.
BadVersion == <<Line("badversion"), <<"x", "lf">>, CRLF>>
ToProxy == {
    <<Line("shorthost"), Line("host"), CRLF>>,
    <<Line("shortport"), CRLF>>,
    <<Line("elsewhere"), CRLF>>,
    <<Line("badurl"), CRLF>>,
    <<Long("static"), Cut, Line("host"), CRLF>>,
    BadVersion}

\* Requests of clients that leave.
Left == {<<>>, <<Line("static")>>, <<Line("static"), CRLF>>, <<Line("static"), Line("host")>>}

Stays(lines) == [lines |-> lines, leaves |-> FALSE]
Leaves(lines) == [lines |-> lines, leaves |-> TRUE]
AnyClient == {Stays(l) : l \in Whole \cup Partial} \cup {Leaves(l) : l \in Left}
OfProxy == AnyClient \cup {Stays(l) : l \in ToProxy} \cup {Leaves(BadVersion)}
OfTiny == AnyClient \cup {Leaves(<<Line("cgi"), CRLF>>)}

\* One client of any kind beside two that stay; they ask for the page, or by a
\* method that both servers refuse.
Page == Stays(<<Line("static"), CRLF>>)
Refused == Stays(<<Line("other"), CRLF>>)
MCScripts ==
    {[p |-> any, q |-> Page, d |-> Page] : any \in OfProxy}
    \cup {[p |-> Page, q |-> Refused, d |-> any] : any \in OfTiny}
=============================================================================
