----------------------------- MODULE HttpSocket -----------------------------
(***************************************************************************)
(* The HTTP socket of src/master/lua/lhttp_socket.cpp.  Each read hands   *)
(* the whole receive buffer to http_parser_execute (is_message_complete),  *)
(* whose callbacks append to the current http_info (url, header map,       *)
(* body) and push it onto _http at on_message_complete; the buffer is then *)
(* cleared.  Lua reads the front message through the getters and drops it  *)
(* with next().                                                            *)
(*                                                                         *)
(* The peer's bytes are tokens [k, c]: k says which part of a message the *)
(* byte belongs to as http_parser sees it ("url", "field", "value",        *)
(* "body", "end" for the byte that completes a message, "raw" for a byte   *)
(* that is not HTTP), c is the character.  http_parser calls a data        *)
(* callback once per contiguous span of a buffer; a span cut by a read     *)
(* boundary gives one call per piece.  Two successive calls of the same    *)
(* callback act in this code as one call with the joined text, so the      *)
(* model feeds the parser one token at a time.  An empty header value is  *)
(* not sent (http_parser reports it with a zero-length call).              *)
(*                                                                         *)
(* http_parser is not in the repository.  Taken from its documented       *)
(* behaviour: it stops after the message that requests an upgrade         *)
(* (setting upgrade, after on_message_complete) and on a byte that is not *)
(* HTTP (returning fewer bytes than given); once upgrade is set it         *)
(* consumes no further bytes.  A -1 from is_message_complete makes the     *)
(* socket drop the connection (spec 4.6).                                  *)
(***************************************************************************)
EXTENDS Naturals, Sequences, SequencesExt

CONSTANTS
  Streams,   \* what a peer may send: [msgs, tail], messages then other bytes
  MaxRecv,   \* most bytes one read delivers
  NULL

VARIABLES
  stream,     \* what this peer sends, chosen at start
  pos,        \* bytes read from the socket so far
  consumed,   \* of those, bytes http_parser_execute consumed
  cur_field,  \* lhttp_socket::_cur_field
  old_field,  \* lhttp_socket::_old_field
  cur_http,   \* lhttp_socket::_cur_http: [url, head, body] or NULL
  http,       \* lhttp_socket::_http, the completed messages
  upgrade,    \* lhttp_socket::_upgrade
  p_upgrade,  \* http_parser::upgrade
  phase,      \* "open", or "closed" once is_message_complete returned -1
  seen        \* history: what Lua read through the getters, per next()

vars == <<stream, pos, consumed, cur_field, old_field, cur_http, http, upgrade,
          p_upgrade, phase, seen>>

Tok(k, c) == [k |-> k, c |-> c]

-----------------------------------------------------------------------------
(* A message as the peer means it: url, header list of <<field, value>>,  *)
(* body, and whether it requests an upgrade; and its bytes on the wire.   *)
MsgTokens(m) ==
  LET Toks(k, s) == [i \in 1..Len(s) |-> Tok(k, s[i])]
      Hdr(h) == Toks("field", h[1]) \o Toks("value", h[2])
  IN  Toks("url", m.url) \o FlattenSeq([i \in DOMAIN m.head |-> Hdr(m.head[i])])
        \o Toks("body", m.body) \o <<Tok("end", m.up)>>

wire == FlattenSeq([i \in DOMAIN stream.msgs |-> MsgTokens(stream.msgs[i])])
          \o stream.tail

(* The header map std::map<string,string> after appending c to key f.    *)
AppendAt(h, f, c) ==
  [x \in DOMAIN h \cup {f} |->
     (IF x \in DOMAIN h THEN h[x] ELSE <<>>) \o (IF x = f THEN c ELSE <<>>)]

EmptyHttp == [url |-> <<>>, head |-> <<>>, body |-> <<>>]

-----------------------------------------------------------------------------
(* The callbacks.  s is [cf, of, cur, http]: _cur_field, _old_field,      *)
(* _cur_http and _http.                                                   *)

(* on_url -> append_url *)
AppendUrl(s, c) == [s EXCEPT !.cur.url = @ \o <<c>>]

(* on_header_field -> append_cur_field: a new field clears _old_field.   *)
AppendCurField(s, c) == [s EXCEPT !.of = <<>>, !.cf = @ \o <<c>>]

(* Mutant: the value is appended under _old_field without first moving  *)
(* the finished field name there.                                         *)
AppendCurValueNoMove(s, c) ==
  [s EXCEPT !.cur.head = AppendAt(@, s.of, <<c>>)]

(* on_header_value -> append_cur_value: the first piece of a value moves *)
(* _cur_field to _old_field; every piece is appended to                  *)
(* _head_field[_old_field].                                               *)
AppendCurValue(s, c) ==
  LET of == IF s.cf # <<>> THEN s.cf ELSE s.of
  IN  [s EXCEPT !.of = of,
                !.cf = IF s.cf # <<>> THEN <<>> ELSE @,
                !.cur.head = AppendAt(@, of, <<c>>)]

(* on_body -> append_body *)
AppendBody(s, c) == [s EXCEPT !.cur.body = @ \o <<c>>]

(* on_message_complete: push _cur_http, clear both field names, start a *)
(* new http_info.                                                         *)
OnMessageComplete(s) ==
  [s EXCEPT !.http = Append(@, s.cur), !.cf = <<>>, !.of = <<>>,
            !.cur = EmptyHttp]

(* The settings table: which callback a byte reaches.                    *)
Callback(s, t) ==
  CASE t.k = "url"   -> AppendUrl(s, t.c)
    [] t.k = "field" -> AppendCurField(s, t.c)
    [] t.k = "value" -> AppendCurValue(s, t.c)
    [] t.k = "body"  -> AppendBody(s, t.c)
    [] t.k = "end"   -> OnMessageComplete(s)

(* Mutant: on_message_complete returns non-zero, so http_parser stops    *)
(* with an error right after each completed message.                      *)
RECURSIVE ExecuteStopAfterMessage(_, _, _, _)
ExecuteStopAfterMessage(s, ts, n, up) ==
  IF up \/ n >= Len(ts) \/ ts[n + 1].k = "raw" \/ (n > 0 /\ ts[n].k = "end")
  THEN [s |-> s, n |-> n, up |-> up]
  ELSE ExecuteStopAfterMessage(Callback(s, ts[n + 1]), ts, n + 1,
                               ts[n + 1].k = "end" /\ ts[n + 1].c = TRUE)

(* http_parser_execute over the tokens ts from the n-th on: returns the  *)
(* state, nparsed and the parser's upgrade flag.                          *)
RECURSIVE Execute(_, _, _, _)
Execute(s, ts, n, up) ==
  IF up \/ n >= Len(ts) \/ ts[n + 1].k = "raw" THEN [s |-> s, n |-> n, up |-> up]
  ELSE Execute(Callback(s, ts[n + 1]), ts, n + 1,
               ts[n + 1].k = "end" /\ ts[n + 1].c = TRUE)

-----------------------------------------------------------------------------
Init ==
  /\ stream \in Streams
  /\ pos = 0 /\ consumed = 0
  /\ cur_field = <<>> /\ old_field = <<>> /\ cur_http = NULL /\ http = <<>>
  /\ upgrade = FALSE /\ p_upgrade = FALSE
  /\ phase = "open" /\ seen = <<>>

(* A read of k bytes followed by is_message_complete(): create           *)
(* _cur_http if missing, run the parser over the whole buffer, clear the  *)
(* buffer; an upgrade sets _upgrade and returns 0, a short parse returns  *)
(* -1 (the connection is dropped), otherwise the socket reports whether   *)
(* _http holds a message.                                                 *)
Recv(k) ==
  /\ phase = "open" /\ pos + k <= Len(wire)
  /\ LET ts == SubSeq(wire, pos + 1, pos + k)
         s0 == [cf |-> cur_field, of |-> old_field, http |-> http,
                cur |-> IF cur_http = NULL THEN EmptyHttp ELSE cur_http]
         r  == Execute(s0, ts, 0, p_upgrade)
     IN  /\ cur_field' = r.s.cf /\ old_field' = r.s.of
         /\ cur_http' = r.s.cur /\ http' = r.s.http
         /\ p_upgrade' = r.up
         /\ consumed' = consumed + r.n
         /\ upgrade' = (upgrade \/ r.up)
         /\ phase' = IF ~r.up /\ r.n # k THEN "closed" ELSE "open"
  /\ pos' = pos + k
  /\ UNCHANGED <<stream, seen>>

(* The getters read the front of _http.                                  *)
GetUrl  == http[1].url
GetBody == http[1].body
GetHeadField(f) == IF f \in DOMAIN http[1].head THEN http[1].head[f] ELSE NULL

(* Every field name the peer sends.                                      *)
Fields == UNION {{h[1] : h \in Range(m.head)} : m \in Range(stream.msgs)}

(* Lua between reads: it reads the front message through get_url,        *)
(* get_head_field and get_body, then calls next(): without peek it drops  *)
(* the front.  next(peek) and next() on an empty _http change nothing.    *)
LuaNext ==
  /\ phase = "open"
  /\ http # <<>>
  /\ seen' = Append(seen, [url |-> GetUrl, body |-> GetBody,
                           head |-> [f \in Fields |-> GetHeadField(f)]])
  /\ http' = Tail(http)
  /\ UNCHANGED <<stream, pos, consumed, cur_field, old_field, cur_http, upgrade,
                 p_upgrade, phase>>

Next ==
  \/ \E k \in 1..MaxRecv : Recv(k)
  \/ LuaNext

Spec == Init /\ [][Next]_vars

(* The Reactor reads a socket while it has bytes pending (level-triggered *)
(* readiness), and the script's message handler, called while            *)
(* is_message_complete returns 1, reads each message and calls next().    *)
FairSpec == Spec /\ WF_vars(\E k \in 1..MaxRecv : Recv(k)) /\ WF_vars(LuaNext)

-----------------------------------------------------------------------------
(* Message i as the peer sent it, as the getters should show it.         *)
Expected(i) ==
  LET m == stream.msgs[i]
      Val(f) == IF \E j \in DOMAIN m.head : m.head[j][1] = f
                THEN m.head[CHOOSE j \in DOMAIN m.head : m.head[j][1] = f][2]
                ELSE NULL
  IN  [url |-> m.url, body |-> m.body, head |-> [f \in Fields |-> Val(f)]]

(* Whatever the read boundaries, which split urls, field names, values   *)
(* and bodies into several callbacks and may join the end of one message *)
(* to the start of the next: what Lua reads through get_url,              *)
(* get_head_field and get_body before each next() is, message by         *)
(* message, what the peer sent.                                           *)
MessagesIntact ==
  \A i \in 1..Len(seen) : i <= Len(stream.msgs) /\ seen[i] = Expected(i)

(* Message i can be delivered: the peer sends only HTTP, and no request   *)
(* up to i asks for an upgrade.                                           *)
Deliverable(i) ==
  /\ stream.tail = <<>> /\ i <= Len(stream.msgs)
  /\ \A j \in 1..i : ~stream.msgs[j].up

MaxMsgs == Max({Len(st.msgs) : st \in Streams})

(* Every request a well-behaved peer sends is eventually read by Lua:     *)
(* http_parser_execute, run over each read, completes every message and   *)
(* on_message_complete queues it on _http whatever the read boundaries,   *)
(* so is_message_complete keeps reporting it until next() drops it.       *)
EventuallyRead ==
  \A i \in 1..MaxMsgs : Deliverable(i) ~> (Len(seen) >= i)

(* While the connection is kept, every byte read from the socket has     *)
(* been parsed: is_message_complete's _recv.clear() discards nothing.    *)
NoBytesDropped == phase = "open" => consumed = pos
====
