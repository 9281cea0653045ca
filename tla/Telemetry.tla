----------------------------- MODULE Telemetry -----------------------------
(***************************************************************************)
(* The event history of the host and its subscribers (src/server/          *)
(* telemetry.c, and the subscriber and shutdown parts of core.c).  Workers *)
(* emit lifecycle and progress events into a ring of fixed size; clients   *)
(* follow the ring or read a finite trace of it; the host stops, drains    *)
(* its engines, emits shutdown.complete and waits for the subscribers to   *)
(* read it before it closes the ring.                                      *)
(* A slot of the ring is found by its sequence number only, so the ring is *)
(* the set of its records.  Which events a client's trace level filters    *)
(* out is left open, as is whether a send succeeds.                        *)
(* VictimOldest, UpdatedNot and SendOn are wrong variants of the           *)
(* definitions they precede; no action uses them.                          *)
(***************************************************************************)
EXTENDS Naturals, FiniteSets

CONSTANTS Client,         \* connections, at most SERVER_CLIENT_CAPACITY
          Follower,       \* those that send RUNTIME_WATCH, the others RUNTIME_TRACE
          Capacity,       \* records the ring retains
          Window,         \* history a follower starts with
          MaxCursor,      \* cursors a request may name
          MaxSequence,    \* workers emit up to this sequence number
          MaxDropped      \* and as long as no more than this was dropped

ASSUME ClientAssumption == IsFiniteSet(Client) /\ Follower \subseteq Client
ASSUME CapacityAssumption == Capacity \in Nat /\ Capacity > Cardinality(Client)
ASSUME WindowAssumption == Window \in Nat /\ Window > Cardinality(Client)
ASSUME MaxAssumption == MaxCursor \in Nat /\ MaxSequence \in Nat /\ MaxDropped \in Nat

VARIABLES ring,           \* the retained records
          next,           \* next_sequence
          dropped,        \* metrics.telemetry_dropped
          coalesced,      \* coalesced_count
          notice,         \* drop_notice_sequence, 0 when there is none
          client,         \* the connections
          host            \* how far the shutdown is

vars == <<ring, next, dropped, coalesced, notice, client, host>>

Kind == {"lifecycle", "progress", "notice", "shutdown.complete"}

TypeOK ==
    /\ \A e \in ring : /\ e \in [sequence : Nat, kind : Kind, a : Nat, c : Nat]
                       /\ 0 < e.sequence /\ e.sequence < next
    /\ next \in Nat /\ dropped \in Nat /\ coalesced \in Nat /\ notice \in Nat
    /\ client \in [Client ->
          [pc : {"connected", "request", "subscribed", "next", "asleep", "awake",
                 "send", "send last", "ack", "refused", "leaving",
                 "disconnected", "gone"},
           subscriber : BOOLEAN, after : Nat, cursor : Nat, limit : Nat]]
    /\ host \in {"serving", "stopping", "finished", "draining", "waiting",
                 "closed"}

Init ==
    /\ ring = {} /\ next = 1
    /\ dropped = 0 /\ coalesced = 0 /\ notice = 0
    /\ client = [c \in Client |-> [pc |-> "connected", subscriber |-> FALSE,
                                   after |-> 0, cursor |-> 0, limit |-> 0]]
    /\ host = "serving"
-----------------------------------------------------------------------------
\* event_replaceable_under_pressure, of a record and among the retained ones.
Replaceable(kind) == kind = "progress"
Progress == {e \in ring : Replaceable(e.kind)}

Full == Cardinality(ring) = Capacity

\* event_oldest_slot_locked.
Oldest(S) == {e \in S : \A f \in S : e.sequence <= f.sequence}

\* A direct observer is given the event under a number of its own.
Sealed(observed) == IF observed THEN next + 1 ELSE next

Dropped == IF Full THEN dropped + 1 ELSE dropped
Coalesced(kind) == IF Full /\ Replaceable(kind) THEN coalesced + 1 ELSE coalesced

\* The event is turned into the drop notice, in the place of a progress record.
Noticed(kind) == Full /\ Replaceable(kind) /\ notice = 0 /\ Progress # {}

\* event_append_locked returns 2: progress finds nothing it may replace.
Passed(kind) == Full /\ Replaceable(kind) /\ Progress = {}

VictimOldest == IF Full THEN Oldest(ring) ELSE {}

\* The record whose slot event_append_locked takes.
Victim == IF ~Full THEN {} ELSE IF Progress # {} THEN Oldest(Progress)
          ELSE Oldest(ring)

UpdatedNot(kind) == ring

\* event_drop_notice_update_locked.
Updated(kind) ==
    {IF Full /\ e.sequence = notice
     THEN [e EXCEPT !.a = Dropped, !.c = Coalesced(kind)] ELSE e : e \in ring}

\* pthread_cond_broadcast of the condition the followers sleep on.
Woken(cl) == [c \in Client |->
                 IF cl[c].pc = "asleep" THEN [cl[c] EXCEPT !.pc = "awake"]
                 ELSE cl[c]]

\* yvex_server_telemetry_emit_provider, under its mutex; cl is what the caller
\* makes of the clients.
Emit(kind, observed, cl) ==
    LET number == IF observed /\ ~Noticed(kind) THEN next ELSE Sealed(observed)
        record == IF Noticed(kind)
                  THEN [sequence |-> number, kind |-> "notice",
                        a |-> Dropped, c |-> Coalesced(kind)]
                  ELSE [sequence |-> number, kind |-> kind, a |-> 0, c |-> 0]
        taken == {e \in Updated(kind) :
                     \E v \in Victim : e.sequence = v.sequence}
    IN /\ dropped' = Dropped /\ coalesced' = Coalesced(kind)
       /\ IF Passed(kind)
          THEN /\ ring' = Updated(kind) /\ next' = Sealed(observed)
               /\ client' = cl
               /\ UNCHANGED notice
          ELSE /\ ring' = (Updated(kind) \ taken) \cup {record}
               /\ next' = IF number = next THEN next + 1 ELSE Sealed(observed) + 1
               /\ notice' = IF Noticed(kind) THEN number
                            ELSE IF \E e \in taken : e.sequence = notice THEN 0
                            ELSE notice
               /\ client' = Woken(cl)

\* Whatever the requests in the engines report, until the engines are closed.
WorkerEmits(kind, observed) ==
    /\ host \in {"serving", "stopping"}
    /\ next < MaxSequence /\ dropped < MaxDropped
    /\ Emit(kind, observed, client)
    /\ UNCHANGED host
-----------------------------------------------------------------------------
telemetry == <<ring, next, dropped, coalesced, notice>>

To(c, pc) == client' = [client EXCEPT ![c] = [@ EXCEPT !.pc = pc]]

\* The subscription is over, its request and its cursor are gone.
Over(v, pc) == [v EXCEPT !.pc = pc, !.after = 0, !.cursor = 0, !.limit = 0]

Quit(c) == client' = [client EXCEPT ![c] = Over(@, "leaving")]

\* client_main reads a RUNTIME_WATCH or a RUNTIME_TRACE request, or the peer
\* goes away.  Its event_after_sequence is taken as it comes.
Receive(c) ==
    /\ client[c].pc = "connected"
    /\ \/ \E after \in 0 .. MaxCursor :
             client' = [client EXCEPT ![c] =
                           [@ EXCEPT !.pc = "request", !.after = after]]
       \/ Quit(c)
    /\ UNCHANGED <<telemetry, host>>

\* slot->subscriber = 1.
Subscribe(c) ==
    /\ client[c].pc = "request"
    /\ client' = [client EXCEPT ![c] =
                     [@ EXCEPT !.pc = "subscribed", !.subscriber = TRUE]]
    /\ UNCHANGED <<telemetry, host>>

\* Without a cursor a subscription starts a window before the end.
Start(c) == IF client[c].after = 0 /\ next - 1 > Window THEN next - 1 - Window
            ELSE client[c].after

\* event_subscription: yvex_server_telemetry_latest_sequence and the start.
Latest(c) ==
    /\ client[c].pc = "subscribed"
    /\ client' = [client EXCEPT ![c] =
                     [@ EXCEPT !.pc = "next",
                               !.limit = IF c \in Follower THEN 0 ELSE next - 1,
                               !.cursor = Start(c)]]
    /\ UNCHANGED <<telemetry, host>>

Later(c) == {e \in ring : e.sequence > client[c].cursor}

\* yvex_server_telemetry_next, with wait for a follower.
NextEvent(c) ==
    /\ \/ client[c].pc = "next"
       \/ client[c].pc = "awake"
    /\ c \in Follower \/ client[c].cursor < client[c].limit
    /\ IF c \in Follower /\ client[c].cursor >= next - 1 THEN To(c, "asleep")
       ELSE IF Later(c) = {} THEN To(c, "refused")
       ELSE \E e \in Oldest(Later(c)) :
               client' = [client EXCEPT ![c] =
                  [@ EXCEPT !.cursor = e.sequence,
                            !.pc = IF e.kind = "shutdown.complete" THEN "send last"
                                   ELSE "send"]]
    /\ UNCHANGED <<telemetry, host>>

SendOn(c) ==
    /\ \/ client[c].pc \in {"send", "send last"} /\ To(c, "next")
       \/ client[c].pc \in {"send", "send last"} /\ Quit(c)
       \/ client[c].pc = "ack" /\ Quit(c)
    /\ UNCHANGED <<telemetry, host>>

\* The event is filtered out or sent, or the send fails or runs into its one
\* second; the subscription ends with shutdown.complete and with the ACK.
Send(c) ==
    /\ \/ client[c].pc = "send" /\ To(c, "next")
       \/ client[c].pc \in {"send", "send last", "ack"} /\ Quit(c)
    /\ UNCHANGED <<telemetry, host>>

\* The finite trace is read to its limit.
TraceEnds(c) ==
    /\ client[c].pc = "next"
    /\ c \notin Follower /\ client[c].cursor >= client[c].limit
    /\ To(c, "ack")
    /\ UNCHANGED <<telemetry, host>>

\* client_main leaves its loop and reports CLIENT_DISCONNECTED.
Leave(c) ==
    /\ client[c].pc \in {"refused", "leaving"}
    /\ Emit("lifecycle", FALSE, [client EXCEPT ![c] = Over(@, "disconnected")])
    /\ UNCHANGED host

\* The slot is free.
Disconnect(c) ==
    /\ client[c].pc = "disconnected"
    /\ client' = [client EXCEPT ![c] =
                     [@ EXCEPT !.pc = "gone", !.subscriber = FALSE]]
    /\ UNCHANGED <<telemetry, host>>
-----------------------------------------------------------------------------
\* yvex_server_stop.
Stop ==
    /\ host = "serving" /\ host' = "stopping"
    /\ Emit("lifecycle", FALSE, client)

\* yvex_server_finish: the engines are closed, then the last event.
Finish ==
    /\ host = "stopping" /\ host' = "finished"
    /\ Emit("shutdown.complete", FALSE, client)

\* yvex_server_close: the connections that do not subscribe are shut down.
CloseBegin ==
    /\ host = "finished" /\ host' = "draining"
    /\ client' = [c \in Client |->
                     IF client[c].pc = "connected"
                     THEN [client[c] EXCEPT !.pc = "leaving"] ELSE client[c]]
    /\ UNCHANGED telemetry

\* No subscriber is left; the sockets that remain are shut down, so that what
\* is still sent fails.
CloseShuts ==
    /\ host = "draining" /\ host' = "waiting"
    /\ \A c \in Client : ~client[c].subscriber
    /\ UNCHANGED <<telemetry, client>>

\* No connection is left; yvex_server_telemetry_close frees the ring.
CloseEnds ==
    /\ host = "waiting" /\ host' = "closed"
    /\ \A c \in Client : client[c].pc = "gone"
    /\ ring' = {}
    /\ UNCHANGED <<next, dropped, coalesced, notice, client>>

ClientStep(c) == \/ Subscribe(c) \/ Latest(c) \/ NextEvent(c) \/ Send(c)
                 \/ TraceEnds(c) \/ Leave(c) \/ Disconnect(c)

HostStep == Finish \/ CloseBegin \/ CloseShuts \/ CloseEnds

Next == \/ \E k \in {"lifecycle", "progress"}, o \in BOOLEAN : WorkerEmits(k, o)
        \/ \E c \in Client : Receive(c) \/ ClientStep(c)
        \/ Stop \/ HostStep

Spec == Init /\ [][Next]_vars

\* A connection thread and the thread that closes the host go on whenever they
\* can; closing the engines returns (CloseReturns of EngineManager).  Nobody has
\* to emit, to subscribe or to stop the host.
FairSpec == Spec /\ WF_vars(HostStep) /\ \A c \in Client : WF_vars(ClientStep(c))
-----------------------------------------------------------------------------
\* One retained telemetry.dropped record is kept exact: there is at most one,
\* drop_notice_sequence names it, and it carries the current totals.
NoticeExact ==
    /\ \A e \in ring : e.kind = "notice" =>
          e.sequence = notice /\ e.a = dropped /\ e.c = coalesced
    /\ notice # 0 /\ host # "closed" => \E e \in ring : e.sequence = notice

\* A lifecycle or terminal record leaves the history only when nothing in it is
\* replaceable, and only for another record that is not replaceable either.
LifecycleKept ==
    [][host' # "closed" =>
          \A e \in ring \ ring' :
             ~Replaceable(e.kind) /\ e.kind # "notice" =>
                /\ Full /\ Progress = {}
                /\ \E f \in ring' : f.sequence >= next /\ ~Replaceable(f.kind)]_vars

\* A follower asked for what comes after shutdown.complete.
Ahead == \E c \in Follower, e \in ring :
            /\ e.kind = "shutdown.complete"
            /\ client[c].subscriber /\ client[c].after >= e.sequence

\* The host closes although it waits for its subscribers: each of them reads
\* shutdown.complete, which later events do not push out, or fails.  The one
\* exception is a follower that asked for what comes after it: nothing does, and
\* as long as it stays connected the host waits for it.
HostCloseReturns == <>[]~Ahead => (host = "stopping" ~> host = "closed")
=============================================================================
