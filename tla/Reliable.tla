------------------------------ MODULE Reliable ------------------------------
(***************************************************************************)
(* Stop-and-wait delivery over the lossy network of lab10 (reliable.c over *)
(* net.c).  The client sends messages 0 .. N-1 and then a FIN numbered N,  *)
(* each retransmitted until it is acknowledged or given up; the server     *)
(* delivers the message it expects and acknowledges it and anything older. *)
(* The network is a bag of datagrams, as in Rpc.                           *)
(***************************************************************************)
EXTENDS Integers, Sequences, FiniteSets, Bags

CONSTANTS
    N,          \* n: messages to send
    Retries     \* retries

ASSUME ReliableAssumption == N \in Nat /\ Retries \in Nat

VARIABLES
    cur,        \* the client's i; N for the FIN, N + 1 when it has exited
    waiting,    \* inside send_reliably, after the first transmission
    tries,      \* send_reliably's retrans
    acked,      \* the messages counted in acked
    giveups,    \* giveups
    net,        \* datagrams in transit
    expected,   \* the server's expected
    delivered,  \* the payloads it printed, in order
    finSeen,    \* fin_seen
    stopped     \* the server has left its loop

clientVars == <<cur, waiting, tries, acked, giveups>>
serverVars == <<expected, delivered, finSeen, stopped>>
vars == <<clientVars, net, serverVars>>

Payload(i) == <<"msg", i>>
Data(i) == [type |-> "DATA", seq |-> i, payload |-> Payload(i)]
Fin == [type |-> "FIN", seq |-> N, payload |-> <<>>]
Ack(i) == [type |-> "ACK", seq |-> i, payload |-> <<>>]

Packet == IF cur = N THEN Fin ELSE Data(cur)

(* net_send loses the datagram or not; net_recv takes one. *)
AfterSend(b, m) == {b, b (+) SetToBag({m})}
Without(m) == net (-) SetToBag({m})

Init ==
    /\ cur = 0 /\ waiting = FALSE /\ tries = 0 /\ acked = {} /\ giveups = 0
    /\ net = EmptyBag
    /\ expected = 0 /\ delivered = <<>> /\ finSeen = FALSE /\ stopped = FALSE

-----------------------------------------------------------------------------
(* The client.                                                             *)

(* send_reliably is entered. *)
Send ==
    /\ cur <= N /\ ~waiting
    /\ waiting' = TRUE /\ tries' = 0
    /\ net' \in AfterSend(net, Packet)
    /\ UNCHANGED <<cur, acked, giveups, serverVars>>

(* Mutant: an acknowledgement is taken for the current packet's whatever   *)
(* its number.                                                             *)
TakeAckAny(m) ==
    /\ waiting /\ m.type = "ACK"
    /\ net' = Without(m)
    /\ waiting' = FALSE /\ cur' = cur + 1
    /\ acked' = IF cur < N THEN acked \cup {cur} ELSE acked
    /\ UNCHANGED <<tries, giveups, serverVars>>

(* ACK(cur): send_reliably returns. *)
TakeAck(m) ==
    /\ waiting /\ m.type = "ACK" /\ m.seq = cur
    /\ net' = Without(m)
    /\ waiting' = FALSE /\ cur' = cur + 1
    /\ acked' = IF cur < N THEN acked \cup {cur} ELSE acked
    /\ UNCHANGED <<tries, giveups, serverVars>>

StaleAck(m) ==
    /\ waiting /\ m.type = "ACK" /\ m.seq # cur
    /\ net' = Without(m)
    /\ UNCHANGED <<clientVars, serverVars>>

(* Mutant: one retry too many. *)
RetransmitOneMore ==
    /\ waiting /\ tries <= Retries
    /\ net' \in AfterSend(net, Packet)
    /\ tries' = tries + 1
    /\ UNCHANGED <<cur, waiting, acked, giveups, serverVars>>

(* A timeout with a retry left. *)
Retransmit ==
    /\ waiting /\ tries < Retries
    /\ net' \in AfterSend(net, Packet)
    /\ tries' = tries + 1
    /\ UNCHANGED <<cur, waiting, acked, giveups, serverVars>>

(* Mutant: after the last retry the client waits on. *)
GiveUpNever ==
    /\ waiting /\ tries > Retries
    /\ waiting' = FALSE /\ cur' = cur + 1 /\ giveups' = giveups + 1
    /\ UNCHANGED <<tries, acked, net, serverVars>>

(* The timeout after the last: -1, and client goes on to the next packet. *)
GiveUp ==
    /\ waiting /\ tries >= Retries
    /\ waiting' = FALSE /\ cur' = cur + 1 /\ giveups' = giveups + 1
    /\ UNCHANGED <<tries, acked, net, serverVars>>

-----------------------------------------------------------------------------
(* The server.                                                             *)

(* Mutant: what is ahead is delivered too. *)
DeliverAhead(m) ==
    /\ ~stopped /\ m.type = "DATA" /\ m.seq >= expected
    /\ delivered' = Append(delivered, m.payload)
    /\ expected' = expected + 1
    /\ net' \in AfterSend(Without(m), Ack(m.seq))
    /\ UNCHANGED <<clientVars, finSeen, stopped>>

Deliver(m) ==
    /\ ~stopped /\ m.type = "DATA" /\ m.seq = expected
    /\ delivered' = Append(delivered, m.payload)
    /\ expected' = expected + 1
    /\ net' \in AfterSend(Without(m), Ack(m.seq))
    /\ UNCHANGED <<clientVars, finSeen, stopped>>

(* A retransmission of what was delivered: acknowledged again. *)
Duplicate(m) ==
    /\ ~stopped /\ m.type = "DATA" /\ m.seq < expected
    /\ net' \in AfterSend(Without(m), Ack(m.seq))
    /\ UNCHANGED <<clientVars, serverVars>>

(* Mutant: it is acknowledged although it was not delivered. *)
AckFuture(m) ==
    /\ ~stopped /\ m.type = "DATA" /\ m.seq > expected
    /\ net' \in AfterSend(Without(m), Ack(m.seq))
    /\ UNCHANGED <<clientVars, serverVars>>

(* A number ahead of the expected one: dropped, not acknowledged. *)
DropFuture(m) ==
    /\ ~stopped /\ m.type = "DATA" /\ m.seq > expected
    /\ net' = Without(m)
    /\ UNCHANGED <<clientVars, serverVars>>

(* The FIN, or another copy of it. *)
ReceiveFin(m) ==
    /\ ~stopped /\ m.type = "FIN"
    /\ finSeen' = TRUE
    /\ net' \in AfterSend(Without(m), Ack(m.seq))
    /\ UNCHANGED <<clientVars, expected, delivered, stopped>>

(* The drain period passed in silence. *)
Drain ==
    /\ ~stopped /\ finSeen
    /\ stopped' = TRUE
    /\ UNCHANGED <<clientVars, net, expected, delivered, finSeen>>

Serve(m) == Deliver(m) \/ Duplicate(m) \/ DropFuture(m) \/ ReceiveFin(m)

Next ==
    \/ Send \/ Retransmit \/ GiveUp \/ Drain
    \/ \E m \in BagToSet(net) : TakeAck(m) \/ StaleAck(m) \/ Serve(m)

(* The client's timeouts expire, and so does the drain period. *)
Fairness == WF_vars(Send) /\ WF_vars(Retransmit) /\ WF_vars(GiveUp) /\ WF_vars(Drain)

Spec == Init /\ [][Next]_vars /\ Fairness

-----------------------------------------------------------------------------
(* Properties.                                                             *)

DatagramType ==
    {Data(i) : i \in 0..(N - 1)} \cup {Fin} \cup {Ack(i) : i \in 0..N}

(* Types; every datagram is one the programs send. *)
TypeOK ==
    /\ cur \in 0..(N + 1) /\ waiting \in BOOLEAN /\ tries \in 0..Retries
    /\ acked \subseteq 0..(N - 1) /\ giveups \in 0..(N + 1)
    /\ IsABag(net) /\ BagToSet(net) \subseteq DatagramType
    /\ expected \in 0..N /\ delivered \in Seq({Payload(i) : i \in 0..(N - 1)})
    /\ finSeen \in BOOLEAN /\ stopped \in BOOLEAN

(* The contract at the head of reliable.c: each message is delivered once, *)
(* in the order sent, with none left out before it.                        *)
InOrderOnce == delivered = [i \in 1..expected |-> Payload(i - 1)]

(* A message the client counts as acknowledged has been delivered, though  *)
(* an earlier one was given up or acknowledgements came late.              *)
AckedDelivered == \A i \in acked : i < expected

(* Exit status 0. *)
ExitOk == cur = N + 1 /\ Cardinality(acked) = N /\ giveups = 0

(* Exit status 0 means what the usage comment says: the whole stream was   *)
(* delivered and the server knows that it has ended.                       *)
CleanExit == ExitOk => expected = N /\ finSeen

(* What the client reports, a message or the whole stream, is true. *)
ReportsTrue == AckedDelivered /\ CleanExit

(* The client exits whatever the network loses, and after a clean exit the *)
(* server stops too.                                                       *)
BothStop == <>(cur = N + 1) /\ (ExitOk ~> stopped)
=============================================================================
