---------------------------- MODULE MCSourceFetch ----------------------------
(* Instance of SourceFetch for TLC.                                        *)
EXTENDS SourceFetch

V4(block) == [family |-> 4, mapped |-> FALSE, block |-> block]
Mapped(block) == [family |-> 6, mapped |-> TRUE, block |-> block]
Embedding == [family |-> 6, mapped |-> FALSE, block |-> "unlisted"]
Public == V4("public")

Named(name) == [literal |-> FALSE, name |-> name]
At(address) == [literal |-> TRUE, address |-> address]
Web(host) == [scheme |-> "https", credentials |-> FALSE, host |-> host, port |-> 443]

SomeUrls == {
    Web(Named("public")), Web(Named("localhost")), Web(At(Public)),
    Web(At(V4("loopback"))), Web(At(Mapped("private"))), Web(At(Embedding)),
    [Web(Named("public")) EXCEPT !.scheme = "other"],
    [Web(Named("public")) EXCEPT !.credentials = TRUE],
    [Web(Named("public")) EXCEPT !.port = 22]}

SomeAnswers == {{}, {Public}, {Public, Mapped("private")}, {Public, Embedding}, {V4("loopback")}}

Expanding == {0, 1, 5}
Some == {<<>>, <<"identity">>, <<"gzip">>, <<"br", "identity">>, <<"gzip", "zstd">>}
=============================================================================
