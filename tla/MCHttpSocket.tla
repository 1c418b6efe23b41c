---------------------------- MODULE MCHttpSocket ----------------------------
(* Instantiates HttpSocket with three peers:                               *)
(*  - four requests; M1 has a two-byte url, field name and value, so that *)
(*    a read boundary can cut each of them;                                *)
(*  - two requests followed by a byte that is not HTTP;                    *)
(*  - a request asking for an upgrade, followed by two frame bytes.        *)
EXTENDS HttpSocket

R(url, head, body, up) == [url |-> url, head |-> head, body |-> body, up |-> up]

M1 == R(<<"a", "b">>, << <<<<"a", "b">>, <<"a">>>>, <<<<"b">>, <<"b", "a">>>> >>,
        <<"b">>, FALSE)
M2 == R(<<"b">>, << <<<<"b">>, <<"a">>>> >>, <<>>, FALSE)
MU == R(<<"a">>, << <<<<"a">>, <<"b">>>> >>, <<>>, TRUE)
Raw == Tok("raw", "a")

MCStreams == { [msgs |-> <<M1, M2, M2, M1>>, tail |-> <<>>],
               [msgs |-> <<M2, M1>>, tail |-> <<Raw>>],
               [msgs |-> <<MU>>, tail |-> <<Raw, Raw>>] }
====
