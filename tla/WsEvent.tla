------------------------------- MODULE WsEvent -------------------------------
(***************************************************************************)
(* The event-driven web server of lab05 (wsevent.c): one thread around     *)
(* select, a table of connections, non-blocking sockets.  A request is a   *)
(* row of pieces, the last of which completes it, a response a row of      *)
(* units; both carry the client whose they are.  Sockets and clients are   *)
(* external: a client connects once, and may stop reading, or hang up, at  *)
(* any moment.                                                             *)
(***************************************************************************)
EXTENDS Integers, Sequences, FiniteSets

CONSTANTS
    Clients,
    Patient,        \* the clients that read on and do not hang up
    Tables,         \* bound: the values of WS_MAXCONN
    WS_REQ_MAX,     \* in pieces
    OutLen,         \* units in a response
    Room            \* units a socket's send buffer holds

VARIABLES
    sock,           \* out, backlog, open, or closed by the server
    fd,             \* the server's descriptor for it, 0 for none
    in, out,        \* what is in the two directions of the socket
    pieces, asked,  \* pieces sent, and whether the request is complete
    got, hung,      \* units read; the client has hung up
    conns,          \* the table
    rd, wr,         \* the sets as select left them; listenfd is 0
    pc              \* select, accept, or the slot the loop is at

vars == <<sock, fd, in, out, pieces, asked, got, hung, conns, rd, wr, pc>>

Slots == DOMAIN conns
FREE == "free"
READING == "reading"
WRITING == "writing"
SELECT == 0
ACCEPT == -1
NoConn == [state |-> FREE, fd |-> 0, req |-> <<>>, out |-> <<>>]

Init ==
    /\ sock = [c \in Clients |-> "out"] /\ fd = [c \in Clients |-> 0]
    /\ in = [c \in Clients |-> <<>>] /\ out = [c \in Clients |-> <<>>]
    /\ pieces = [c \in Clients |-> 0] /\ asked = [c \in Clients |-> FALSE]
    /\ got = [c \in Clients |-> <<>>] /\ hung = [c \in Clients |-> FALSE]
    /\ conns \in {[i \in 1..n |-> NoConn] : n \in Tables}
    /\ rd = {} /\ wr = {} /\ pc = SELECT

Response(c) == [k \in 1..OutLen |-> <<c, k>>]
Peer(f) == CHOOSE c \in Clients : fd[c] = f
Least(S) == CHOOSE x \in S : \A y \in S : x <= y

-----------------------------------------------------------------------------
(* The clients.                                                            *)

Connect(c) ==
    /\ sock[c] = "out"
    /\ sock' = [sock EXCEPT ![c] = "backlog"]
    /\ UNCHANGED <<fd, in, out, pieces, asked, got, hung, conns, rd, wr, pc>>

SendPiece(c, last) ==
    /\ sock[c] \in {"backlog", "open"} /\ ~asked[c] /\ ~hung[c] /\ pieces[c] <= WS_REQ_MAX
    /\ in' = [in EXCEPT ![c] = Append(@, <<c, last>>)]
    /\ pieces' = [pieces EXCEPT ![c] = @ + 1]
    /\ asked' = [asked EXCEPT ![c] = last]
    /\ UNCHANGED <<sock, fd, out, got, hung, conns, rd, wr, pc>>

Recv(c) ==
    /\ out[c] # <<>> /\ ~hung[c]
    /\ got' = [got EXCEPT ![c] = Append(@, Head(out[c]))]
    /\ out' = [out EXCEPT ![c] = Tail(@)]
    /\ UNCHANGED <<sock, fd, in, pieces, asked, hung, conns, rd, wr, pc>>

HangUp(c) ==
    /\ c \notin Patient /\ sock[c] \in {"backlog", "open"} /\ ~hung[c]
    /\ hung' = [hung EXCEPT ![c] = TRUE]
    /\ UNCHANGED <<sock, fd, in, out, pieces, asked, got, conns, rd, wr, pc>>

-----------------------------------------------------------------------------
(* The server.                                                             *)

Readable(c) == in[c] # <<>> \/ hung[c]
Writable(c) == Len(out[c]) < Room \/ hung[c]
Of(state) == {conns[i].fd : i \in {j \in Slots : conns[j].state = state}}
Backlog == {c \in Clients : sock[c] = "backlog"}

(* select blocks until a socket of the sets is ready. *)
Select ==
    /\ pc = SELECT
    /\ rd' = {f \in Of(READING) : Readable(Peer(f))} \cup (IF Backlog = {} THEN {} ELSE {0})
    /\ wr' = {f \in Of(WRITING) : Writable(Peer(f))}
    /\ rd' \cup wr' # {}
    /\ pc' = IF 0 \in rd' THEN ACCEPT ELSE 1
    /\ UNCHANGED <<sock, fd, in, out, pieces, asked, got, hung, conns>>

(* Mutant: the request of the slot's last user is not forgotten. *)
conn_newKeeps(i, f) == conns' = [conns EXCEPT ![i].state = READING, ![i].fd = f, ![i].out = <<>>]

conn_new(i, f) == conns' = [conns EXCEPT ![i] = [NoConn EXCEPT !.state = READING, !.fd = f]]

(* accept, and conn_new or, with the table full, close. *)
Accept(c) ==
    /\ pc = ACCEPT /\ c \in Backlog
    /\ LET slots == {i \in Slots : conns[i].state = FREE}
           f == Least((1..Cardinality(Clients)) \ {fd[d] : d \in Clients}) IN
       \/ /\ slots # {}
          /\ conn_new(Least(slots), f)
          /\ sock' = [sock EXCEPT ![c] = "open"] /\ fd' = [fd EXCEPT ![c] = f]
       \/ /\ slots = {}
          /\ sock' = [sock EXCEPT ![c] = "closed"]
          /\ UNCHANGED <<conns, fd>>
    /\ UNCHANGED <<in, out, pieces, asked, got, hung, rd, wr, pc>>

Accepted ==
    /\ pc = ACCEPT /\ Backlog = {}
    /\ pc' = 1
    /\ UNCHANGED <<sock, fd, in, out, pieces, asked, got, hung, conns, rd, wr>>

Advance == pc' = IF pc = Cardinality(Slots) THEN SELECT ELSE pc + 1

(* conn_close; what is not read makes the close a reset, which can cost    *)
(* the client what it has not read.                                        *)
conn_close(c, left) ==
    /\ conns' = [conns EXCEPT ![pc].state = FREE, ![pc].out = <<>>]
    /\ sock' = [sock EXCEPT ![c] = "closed"] /\ fd' = [fd EXCEPT ![c] = 0]
    /\ \/ out' = [out EXCEPT ![c] = left]
       \/ in[c] # <<>> /\ out' = [out EXCEPT ![c] = <<>>]

(* respond: a file or an error text, unless memory is short. *)
respond(c, req) ==
    \/ /\ conns' = [conns EXCEPT ![pc].req = req, ![pc].state = WRITING,
                                 ![pc].out = Response(Head(req)[1])]
       /\ UNCHANGED <<sock, fd, out>>
    \/ conn_close(c, out[c])

Complete(req) == \E k \in DOMAIN req : req[k][2]

(* One read, of what is there and fits. *)
on_readable(c) ==
    LET req == conns[pc].req
        room == WS_REQ_MAX - Len(req)
        n == IF Len(in[c]) < room THEN Len(in[c]) ELSE room
        more == req \o SubSeq(in[c], 1, n) IN
    IF room = 0 THEN respond(c, req) /\ UNCHANGED in
    ELSE IF n = 0
    THEN hung[c] /\ conn_close(c, out[c]) /\ UNCHANGED in
    ELSE /\ in' = [in EXCEPT ![c] = SubSeq(@, n + 1, Len(@))]
         /\ IF Complete(more) THEN respond(c, more)
            ELSE conns' = [conns EXCEPT ![pc].req = more] /\ UNCHANGED <<sock, fd, out>>

(* Mutant: write is taken to have written everything. *)
on_writableOnce(c) ==
    LET n == Room - Len(out[c]) IN
    conn_close(c, out[c] \o SubSeq(conns[pc].out, 1, n)) /\ UNCHANGED in

(* One write, of what fits. *)
on_writable(c) ==
    LET left == conns[pc].out
        n == Room - Len(out[c]) IN
    /\ IF hung[c] THEN conn_close(c, out[c])
       ELSE IF Len(left) <= n THEN conn_close(c, out[c] \o left)
       ELSE /\ out' = [out EXCEPT ![c] = @ \o SubSeq(left, 1, n)]
            /\ conns' = [conns EXCEPT ![pc].out = SubSeq(@, n + 1, Len(@))]
            /\ UNCHANGED <<sock, fd>>
    /\ UNCHANGED in

Due(i) ==
    \/ conns[i].state = READING /\ conns[i].fd \in rd
    \/ conns[i].state = WRITING /\ conns[i].fd \in wr

Handle ==
    /\ pc \in Slots
    /\ IF Due(pc)
       THEN LET c == Peer(conns[pc].fd) IN
            IF conns[pc].state = READING THEN on_readable(c) ELSE on_writable(c)
       ELSE UNCHANGED <<sock, fd, in, out, conns>>
    /\ Advance
    /\ UNCHANGED <<pieces, asked, got, hung, rd, wr>>

Server == Select \/ (\E c \in Clients : Accept(c)) \/ Accepted \/ Handle

Next ==
    \/ Server
    \/ \E c \in Clients :
         Connect(c) \/ Recv(c) \/ HangUp(c) \/ \E last \in BOOLEAN : SendPiece(c, last)

(* The server runs; only the patient clients are sure to read. *)
Fairness ==
    /\ WF_vars(Select) /\ WF_vars(\E c \in Clients : Accept(c)) /\ WF_vars(Accepted)
    /\ WF_vars(Handle)
    /\ \A c \in Patient : WF_vars(Recv(c))

Spec == Init /\ [][Next]_vars /\ Fairness

-----------------------------------------------------------------------------
(* Properties.                                                             *)

(* A client reads its own response and nothing else, all of it or, when it *)
(* was turned away or memory was short, nothing.                           *)
OwnResponse ==
    \A c \in Clients :
        LET all == got[c] \o out[c] IN
        /\ all = SubSeq(Response(c), 1, Len(all))
        /\ sock[c] = "closed" /\ ~hung[c] /\ in[c] = <<>> => Len(all) \in {0, OutLen}

(* No two connections share a descriptor, and a handler runs only for a    *)
(* socket that is still ready, so that nothing closed or accepted since    *)
(* select is taken for it.                                                 *)
OwnDescriptor ==
    /\ \A i, j \in Slots : conns[i].state # FREE /\ conns[j].state # FREE /\ i # j
                              => conns[i].fd # conns[j].fd
    /\ pc \in Slots /\ Due(pc) =>
         LET c == Peer(conns[pc].fd) IN
         IF conns[pc].state = READING THEN Readable(c) ELSE Writable(c)

(* A client that has sent its request and reads is answered or turned      *)
(* away, whatever the others do: none of them stops the server.            *)
ClientsServed == \A c \in Patient : asked[c] ~> sock[c] = "closed"
=============================================================================
