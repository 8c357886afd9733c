---------------------------- MODULE MeshService ----------------------------
(***************************************************************************)
(* Lifecycle and connection handling of BluetoothMeshService              *)
(* (src/bitchat-tauri/src/bluetooth/mesh_service.rs).                      *)
(*                                                                          *)
(* Concurrent actors, all tokio tasks:                                     *)
(*   Callers     - Tauri commands running start() / stop();                 *)
(*   event loops - one per successful start_scanning (line 161), draining  *)
(*                 the adapter's CentralEvent stream one event at a time;  *)
(*   restarters  - the 30 s scan-restart task spawned beside each loop;    *)
(*   ticker      - the 60 s peer-cleanup task of start_peer_cleanup;       *)
(*   the radio   - discovers devices while scanning and drops links.       *)
(*                                                                          *)
(* The adapter Mutex is modelled by its holder: attempt_connection keeps   *)
(* the guard of line 220 until it returns, across connect() and the whole  *)
(* setup.  The connections RwLock is held only within one step.  Frame     *)
(* contents, nicknames, UUIDs and link quality carry no control here.      *)
(***************************************************************************)
EXTENDS Naturals, Sequences, SequencesExt, FiniteSets

CONSTANTS
    Devices,    \* PeripheralIds the radio can discover
    Callers,    \* concurrent Tauri command invocations
    MaxCalls,   \* bound on host start()/stop() calls in one behaviour
    MaxQueue,   \* bound on events buffered per event stream
    MAX_PEER_CONNECTIONS  \* peer_manager.rs:14; never read by the code

LoopIds == 1..MaxCalls   \* each start() spawns at most one loop and restarter
\* Holder of the adapter Mutex: an event loop, or NoOwner.  Other users of
\* the Mutex hold it within one step only.
NoOwner == 0
Owners == {NoOwner} \cup LoopIds

Event == [kind : {"Discovered", "Disconnected"}, dev : Devices]
Ev(k, d) == [kind |-> k, dev |-> d]

HostPcs == {"Idle", "StartInit", "StartRun", "StartScan", "StartRx",
            "StartCleanup", "StopFlags", "StopDisc", "StopClear", "StopScan"}

VARIABLES
    running,    \* is_running
    scanFlag,   \* the scanning flag
    radio,      \* whether the adapter is actually scanning
    rxTaken,    \* message_rx has been taken (it is never put back)
    conns,      \* keys of the connections map
    linked,     \* devices with an established BLE link
    notif,      \* devices with a live notification task
    lock,       \* holder of the adapter Mutex
    calls,      \* host calls made so far
    hpc,        \* hpc[c]: step of caller c
    nLoops,     \* event loops spawned so far (loops 1..nLoops live forever)
    queue,      \* queue[i]: events buffered in the stream of loop i
    epc,        \* epc[i]: step of event loop i
    earg,       \* earg[i]: device loop i is connecting to
    rpc,        \* rpc[i]: step of scan-restart task i
    tpc         \* step of the cleanup ticker

vars == <<running, scanFlag, radio, rxTaken, conns, linked, notif, lock,
          calls, hpc, nLoops, queue, epc, earg, rpc, tpc>>

LiveLoops == 1..nLoops

TypeOK ==
    /\ running \in BOOLEAN /\ scanFlag \in BOOLEAN /\ radio \in BOOLEAN
    /\ rxTaken \in BOOLEAN
    /\ conns \subseteq Devices /\ linked \subseteq Devices /\ notif \subseteq Devices
    /\ lock \in Owners
    /\ \A i \in LoopIds : epc[i] # "Wait" <=> lock = i   \* the guard of line 220
    /\ calls \in 0..MaxCalls /\ hpc \in [Callers -> HostPcs]
    /\ nLoops \in 0..MaxCalls
    /\ queue \in [LoopIds -> Seq(Event)]
    /\ epc \in [LoopIds -> {"Wait", "Check", "Connect", "Setup"}]
    /\ earg \in [LoopIds -> Devices]
    /\ rpc \in [LoopIds -> {"Dead", "Check", "Tick", "Restart"}]
    /\ tpc \in {"Dead", "Check", "Sweep"}

Init ==
    /\ running = FALSE /\ scanFlag = FALSE /\ radio = FALSE
    /\ rxTaken = FALSE
    /\ conns = {} /\ linked = {} /\ notif = {}
    /\ lock = NoOwner
    /\ calls = 0 /\ hpc = [c \in Callers |-> "Idle"]
    /\ nLoops = 0
    /\ queue = [i \in LoopIds |-> <<>>]
    /\ epc = [i \in LoopIds |-> "Wait"]
    /\ earg = [i \in LoopIds |-> CHOOSE d \in Devices : TRUE]
    /\ rpc = [i \in LoopIds |-> "Dead"]
    /\ tpc = "Dead"

\* Every live event stream receives the events of the one radio.
Broadcast(evs) ==
    [i \in LoopIds |-> IF i \in LiveLoops THEN queue[i] \o evs ELSE queue[i]]

Goto(c, s) == hpc' = [hpc EXCEPT ![c] = s]

-----------------------------------------------------------------------------
(* start(): each step below ends at an await that touches shared state.    *)

\* The is_running read and its early return Ok(()).
start(c) ==
    /\ hpc[c] = "Idle" /\ calls < MaxCalls
    /\ calls' = calls + 1
    /\ Goto(c, IF running THEN "Idle" ELSE "StartInit")
    /\ UNCHANGED <<running, scanFlag, radio, rxTaken, conns, linked, notif,
                   lock, nLoops, queue, epc, earg, rpc, tpc>>

\* Manager::new and adapters(): with no adapter start bails; otherwise the
\* adapter is stored under its Mutex and the peer manager re-initialized
\* with a fresh random id.
StartInit(c) ==
    /\ hpc[c] = "StartInit" /\ lock = NoOwner
    /\ \E found \in BOOLEAN : Goto(c, IF found THEN "StartRun" ELSE "Idle")
    /\ UNCHANGED <<running, scanFlag, radio, rxTaken, conns, linked, notif,
                   lock, calls, nLoops, queue, epc, earg, rpc, tpc>>

StartRun(c) ==
    /\ hpc[c] = "StartRun"
    /\ running' = TRUE
    /\ Goto(c, "StartScan")
    /\ UNCHANGED <<scanFlag, radio, rxTaken, conns, linked, notif, lock,
                   calls, nLoops, queue, epc, earg, rpc, tpc>>

\* start_scanning, under the adapter Mutex: start_scan fails (the error
\* propagates out of start), or scanning begins and then events() fails,
\* or the event loop and the scan-restart task are spawned.
StartScan(c) ==
    LET i == nLoops + 1 IN
    /\ hpc[c] = "StartScan" /\ lock = NoOwner
    /\ \/ /\ Goto(c, "Idle")
          /\ UNCHANGED <<radio, scanFlag, nLoops, rpc>>
       \/ /\ radio' = TRUE /\ scanFlag' = TRUE
          /\ Goto(c, "Idle")
          /\ UNCHANGED <<nLoops, rpc>>
       \/ /\ radio' = TRUE /\ scanFlag' = TRUE
          /\ nLoops' = i
          /\ rpc' = [rpc EXCEPT ![i] = "Check"]
          /\ Goto(c, "StartRx")
    /\ UNCHANGED <<running, rxTaken, conns, linked, notif, lock, calls,
                   queue, epc, earg, tpc>>

\* start_message_processing: message_rx.take() succeeds only once.
StartRx(c) ==
    /\ hpc[c] = "StartRx"
    /\ rxTaken' = TRUE
    /\ Goto(c, IF rxTaken THEN "Idle" ELSE "StartCleanup")
    /\ UNCHANGED <<running, scanFlag, radio, conns, linked, notif, lock,
                   calls, nLoops, queue, epc, earg, rpc, tpc>>

\* start_peer_cleanup spawns the ticker; start returns Ok.
StartCleanup(c) ==
    /\ hpc[c] = "StartCleanup"
    /\ tpc' = "Check"
    /\ Goto(c, "Idle")
    /\ UNCHANGED <<running, scanFlag, radio, rxTaken, conns, linked, notif,
                   lock, calls, nLoops, queue, epc, earg, rpc>>

-----------------------------------------------------------------------------
(* stop()                                                                  *)

stop(c) ==
    /\ hpc[c] = "Idle" /\ calls < MaxCalls
    /\ calls' = calls + 1
    /\ Goto(c, IF running THEN "StopFlags" ELSE "Idle")
    /\ UNCHANGED <<running, scanFlag, radio, rxTaken, conns, linked, notif,
                   lock, nLoops, queue, epc, earg, rpc, tpc>>

StopFlags(c) ==
    /\ hpc[c] = "StopFlags"
    /\ running' = FALSE /\ scanFlag' = FALSE
    /\ Goto(c, "StopDisc")
    /\ UNCHANGED <<radio, rxTaken, conns, linked, notif, lock, calls,
                   nLoops, queue, epc, earg, rpc, tpc>>

\* disconnect_all_peers, first half: under the read lock, disconnect() every
\* peripheral in the map; each dropped link yields a DeviceDisconnected.
StopDisc(c) ==
    /\ hpc[c] = "StopDisc"
    /\ linked' = linked \ conns
    /\ queue' = Broadcast(SetToSeq({Ev("Disconnected", d) : d \in conns \cap linked}))
    /\ Goto(c, "StopClear")
    /\ UNCHANGED <<running, scanFlag, radio, rxTaken, conns, notif, lock,
                   calls, nLoops, epc, earg, rpc, tpc>>

\* disconnect_all_peers, second half: the read guard is dropped, then the
\* map is cleared under a new write guard.
StopClear(c) ==
    /\ hpc[c] = "StopClear"
    /\ conns' = {}
    /\ Goto(c, "StopScan")
    /\ UNCHANGED <<running, scanFlag, radio, rxTaken, linked, notif, lock,
                   calls, nLoops, queue, epc, earg, rpc, tpc>>

\* stop_scan under the adapter Mutex.
StopScan(c) ==
    /\ hpc[c] = "StopScan" /\ lock = NoOwner
    /\ radio' = FALSE
    /\ Goto(c, "Idle")
    /\ UNCHANGED <<running, scanFlag, rxTaken, conns, linked, notif, lock,
                   calls, nLoops, queue, epc, earg, rpc, tpc>>

-----------------------------------------------------------------------------
(* Event loop i: handle_scan_event for the event at the head of its stream. *)

Release == lock' = NoOwner

\* Mutant: the adapter guard dropped right after the peripheral lookup.
attempt_connection_unlocked(i) ==
    LET e == Head(queue[i]) IN
    /\ i \in LiveLoops /\ epc[i] = "Wait" /\ queue[i] # <<>>
    /\ e.kind = "Discovered"
    /\ earg' = [earg EXCEPT ![i] = e.dev]
    /\ queue' = [queue EXCEPT ![i] = Tail(@)]
    /\ epc' = [epc EXCEPT ![i] = "Check"]
    /\ UNCHANGED <<running, scanFlag, radio, rxTaken, conns, linked, notif,
                   lock, calls, hpc, nLoops, rpc, tpc>>

\* DeviceDiscovered: attempt_connection takes the adapter Mutex (held until
\* it returns) and looks the peripheral up.
attempt_connection(i) ==
    LET e == Head(queue[i]) IN
    /\ i \in LiveLoops /\ epc[i] = "Wait" /\ queue[i] # <<>>
    /\ e.kind = "Discovered" /\ lock = NoOwner
    /\ lock' = i
    /\ earg' = [earg EXCEPT ![i] = e.dev]
    /\ queue' = [queue EXCEPT ![i] = Tail(@)]
    /\ epc' = [epc EXCEPT ![i] = "Check"]
    /\ UNCHANGED <<running, scanFlag, radio, rxTaken, conns, linked, notif,
                   calls, hpc, nLoops, rpc, tpc>>

\* Mutant: the contains_key check left out.
ConnCheck_skipped(i) ==
    /\ epc[i] = "Check"
    /\ UNCHANGED lock /\ epc' = [epc EXCEPT ![i] = "Connect"]
    /\ UNCHANGED <<running, scanFlag, radio, rxTaken, conns, linked, notif,
                   calls, hpc, nLoops, queue, earg, rpc, tpc>>

\* connections.read().contains_key: an already connected device is skipped.
ConnCheck(i) ==
    /\ epc[i] = "Check"
    /\ IF earg[i] \in conns
       THEN Release /\ epc' = [epc EXCEPT ![i] = "Wait"]
       ELSE UNCHANGED lock /\ epc' = [epc EXCEPT ![i] = "Connect"]
    /\ UNCHANGED <<running, scanFlag, radio, rxTaken, conns, linked, notif,
                   calls, hpc, nLoops, queue, earg, rpc, tpc>>

\* timeout(CONNECTION_TIMEOUT, peripheral.connect()): Ok(Ok) goes on to
\* setup; an error or the timeout is logged and attempt_connection returns.
Connect(i) ==
    /\ epc[i] = "Connect"
    /\ \/ /\ linked' = linked \cup {earg[i]}
          /\ epc' = [epc EXCEPT ![i] = "Setup"]
          /\ UNCHANGED lock
       \/ /\ Release /\ epc' = [epc EXCEPT ![i] = "Wait"]
          /\ UNCHANGED linked
    /\ UNCHANGED <<running, scanFlag, radio, rxTaken, conns, notif, calls,
                   hpc, nLoops, queue, earg, rpc, tpc>>

\* setup_peripheral_connection: discover_services, the service and
\* characteristic lookups and subscribe may each fail; the error returns
\* without disconnecting.  On success the connection is stored, the
\* notification task spawned and the announce written.  The link may have
\* dropped after subscribe (line 275) and before the insert (line 286), so
\* the insert does not look at linked: a DeviceDisconnected for d may
\* already sit in this loop's stream.  The adapter Mutex is released on
\* return.
Setup(i) ==
    LET d == earg[i] IN
    /\ epc[i] = "Setup"
    /\ \/ conns' = conns \cup {d} /\ notif' = notif \cup {d}
       \/ UNCHANGED <<conns, notif>>
    /\ Release /\ epc' = [epc EXCEPT ![i] = "Wait"]
    /\ UNCHANGED <<running, scanFlag, radio, rxTaken, linked, calls, hpc,
                   nLoops, queue, earg, rpc, tpc>>

\* Mutant: the event consumed but the map entry not removed.
handle_disconnection_noop(i) ==
    LET e == Head(queue[i]) IN
    /\ i \in LiveLoops /\ epc[i] = "Wait" /\ queue[i] # <<>>
    /\ e.kind = "Disconnected"
    /\ queue' = [queue EXCEPT ![i] = Tail(@)]
    /\ UNCHANGED <<running, scanFlag, radio, rxTaken, conns, linked, notif, lock,
                   calls, hpc, nLoops, epc, earg, rpc, tpc>>

\* DeviceDisconnected: handle_disconnection removes the map entry, and does
\* nothing else.
handle_disconnection(i) ==
    LET e == Head(queue[i]) IN
    /\ i \in LiveLoops /\ epc[i] = "Wait" /\ queue[i] # <<>>
    /\ e.kind = "Disconnected"
    /\ conns' = conns \ {e.dev}
    /\ queue' = [queue EXCEPT ![i] = Tail(@)]
    /\ UNCHANGED <<running, scanFlag, radio, rxTaken, linked, notif, lock,
                   calls, hpc, nLoops, epc, earg, rpc, tpc>>

-----------------------------------------------------------------------------
(* Periodic tasks                                                          *)

\* Scan restarter i: while *is_running { tick; if *scanning { ... } }.
RestartCheck(i) ==
    /\ rpc[i] = "Check"
    /\ rpc' = [rpc EXCEPT ![i] = IF running THEN "Tick" ELSE "Dead"]
    /\ UNCHANGED <<running, scanFlag, radio, rxTaken, conns, linked, notif,
                   lock, calls, hpc, nLoops, queue, epc, earg, tpc>>

RestartTick(i) ==
    /\ rpc[i] = "Tick"
    /\ rpc' = [rpc EXCEPT ![i] = IF scanFlag THEN "Restart" ELSE "Check"]
    /\ UNCHANGED <<running, scanFlag, radio, rxTaken, conns, linked, notif,
                   lock, calls, hpc, nLoops, queue, epc, earg, tpc>>

\* Under the adapter Mutex: stop_scan, sleep 100 ms, start_scan (whose
\* error is only logged).
RestartScan(i) ==
    /\ rpc[i] = "Restart" /\ lock = NoOwner
    /\ radio' \in BOOLEAN
    /\ rpc' = [rpc EXCEPT ![i] = "Check"]
    /\ UNCHANGED <<running, scanFlag, rxTaken, conns, linked, notif, lock,
                   calls, hpc, nLoops, queue, epc, earg, tpc>>

\* Cleanup ticker: while *is_running { tick; cleanup_offline_peers }.
SweepCheck ==
    /\ tpc = "Check"
    /\ tpc' = IF running THEN "Sweep" ELSE "Dead"
    /\ UNCHANGED <<running, scanFlag, radio, rxTaken, conns, linked, notif,
                   lock, calls, hpc, nLoops, queue, epc, earg, rpc>>

Sweep ==
    /\ tpc = "Sweep"
    /\ tpc' = "Check"
    /\ UNCHANGED <<running, scanFlag, radio, rxTaken, conns, linked, notif,
                   lock, calls, hpc, nLoops, queue, epc, earg, rpc>>

-----------------------------------------------------------------------------
(* The radio                                                               *)

\* A scanning adapter reports an advertising device; a stream already
\* holding MaxQueue discoveries does not take more.
Discover(d) ==
    /\ radio /\ nLoops > 0
    /\ \E i \in LiveLoops : Len(queue[i]) < MaxQueue
    /\ queue' = [i \in LoopIds |->
                    IF i \in LiveLoops /\ Len(queue[i]) < MaxQueue
                    THEN Append(queue[i], Ev("Discovered", d)) ELSE queue[i]]
    /\ UNCHANGED <<running, scanFlag, radio, rxTaken, conns, linked, notif,
                   lock, calls, hpc, nLoops, epc, earg, rpc, tpc>>

\* A link drops (range, remote power-off).  The bound stops a loop that is
\* never scheduled from buffering unboundedly many events.
LinkLost(d) ==
    /\ d \in linked
    /\ \A i \in LiveLoops : Len(queue[i]) < MaxQueue
    /\ linked' = linked \ {d}
    /\ queue' = Broadcast(<<Ev("Disconnected", d)>>)
    /\ UNCHANGED <<running, scanFlag, radio, rxTaken, conns, notif, lock,
                   calls, hpc, nLoops, epc, earg, rpc, tpc>>

\* The notifications() stream of a dropped link ends and its task exits.
NotifEnd(d) ==
    /\ d \in notif /\ d \notin linked
    /\ notif' = notif \ {d}
    /\ UNCHANGED <<running, scanFlag, radio, rxTaken, conns, linked, lock,
                   calls, hpc, nLoops, queue, epc, earg, rpc, tpc>>

-----------------------------------------------------------------------------
HostStep(c) ==
    \/ start(c) \/ StartInit(c) \/ StartRun(c) \/ StartScan(c)
    \/ StartRx(c) \/ StartCleanup(c)
    \/ stop(c) \/ StopFlags(c) \/ StopDisc(c) \/ StopClear(c) \/ StopScan(c)

\* A call in progress runs to completion (calls themselves are not forced).
HostRun(c) == hpc[c] # "Idle" /\ HostStep(c)

\* Mutant: the event loop's match without its DeviceDisconnected arm.
LoopStep_no_disconnect_arm(i) ==
    \/ attempt_connection(i) \/ ConnCheck(i) \/ Connect(i) \/ Setup(i)

LoopStep(i) ==
    \/ attempt_connection(i) \/ ConnCheck(i) \/ Connect(i) \/ Setup(i)
    \/ handle_disconnection(i)

RestartStep(i) == RestartCheck(i) \/ RestartTick(i) \/ RestartScan(i)

TickerStep == SweepCheck \/ Sweep

Next ==
    \/ \E c \in Callers : HostStep(c)
    \/ \E i \in LoopIds : LoopStep(i) \/ RestartStep(i)
    \/ TickerStep
    \/ \E d \in Devices : Discover(d) \/ LinkLost(d) \/ NotifEnd(d)

\* tokio runs every ready task; its Mutex is FIFO-fair, so a task waiting
\* for the adapter gets it even if others keep taking it.
Fairness ==
    /\ \A c \in Callers : SF_vars(HostRun(c))
    /\ \A i \in LoopIds : SF_vars(LoopStep(i)) /\ SF_vars(RestartStep(i))
    /\ WF_vars(TickerStep)
    /\ \A d \in Devices : WF_vars(NotifEnd(d))

Spec == Init /\ [][Next]_vars /\ Fairness

-----------------------------------------------------------------------------
(* Properties                                                              *)

\* attempt_connection never connects or sets up a device the map already
\* holds: the contains_key check and the insert are both made under the
\* adapter Mutex, so two event loops (after a restart) cannot both pass
\* the check for the same device.
NoDuplicateConnect ==
    \A i \in LiveLoops : epc[i] \in {"Connect", "Setup"} => earg[i] \notin conns

\* A connection whose link has dropped is eventually removed from the map
\* (or the device reconnects): the DeviceDisconnected event is drained by
\* an event loop, also when it was queued while setup_peripheral_connection
\* was still to insert the connection.
ConnectionsEventuallyPruned ==
    \A d \in Devices : (d \in conns /\ d \notin linked) ~> (d \notin conns \/ d \in linked)

Quiet == \A c \in Callers : hpc[c] = "Idle"

\* Spec 5 ("shutdown cancels all tasks"): once stop() has returned, and no
\* start() is in progress, no step opens a connection or turns the scan
\* back on.  The event loop and the scan-restart task are never cancelled
\* by stop(), so this holds only if neither acts on what it read before.
StoppedStaysStopped ==
    [][~running /\ Quiet => conns' \subseteq conns /\ (radio' => radio)]_vars

\* While the service is running and no host call is in progress, the
\* cleanup ticker of start_peer_cleanup is alive to evict offline peers.
SweeperWhileRunning == running /\ Quiet => tpc # "Dead"

\* Every link the service opened is either tracked in the connections map
\* or is still being set up: no link is leaked.
LinkAccounted ==
    \A d \in linked :
        d \in conns \/ \E i \in LiveLoops : epc[i] = "Setup" /\ earg[i] = d

\* Spec 4.5 and scenario 6: at most MAX_PEER_CONNECTIONS neighbours are
\* connected; attempt_connection starts an attempt only under budget.
NeighborBudget == Cardinality(conns) <= MAX_PEER_CONNECTIONS

=============================================================================
