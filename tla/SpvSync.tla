------------------------------- MODULE SpvSync -------------------------------
(***************************************************************************)
(* The SPV sync session of a wallet: how SpvSync starts it, how its syncer *)
(* reports progress and ends, how CancelSync, RestartSpvSync and           *)
(* DiscoverUsage act on it, and the goroutine that reports the progress of *)
(* address discovery.  All of them share the fields of SyncData.           *)
(*                                                                         *)
(* Source: src/libwallet/assets/dcr/{sync,syncnotification}.go, called     *)
(* from the pages of src/ui.  The syncer itself belongs to the wallet      *)
(* core: it is modelled by the callbacks it makes and by its end.          *)
(*                                                                         *)
(* A session's id also names its context, its syncCanceled channel and its *)
(* activeSyncData; a caller's id names the context of its DiscoverUsage.   *)
(* A discovery channel has the name of the context that made it.  Steps    *)
(* are cut where SyncData is unlocked, and at reads made without its lock. *)
(***************************************************************************)
EXTENDS FiniteSets, Naturals

CONSTANTS
  Callers,      \* goroutines of the user interface
  Starters,     \* those that call SpvSync and RestartSpvSync
  Cancellers,   \* those that call CancelSync
  Discoverers,  \* those that call DiscoverUsage
  Sessions,
  None

ASSUME CallersAssumption ==
  /\ Starters \cup Cancellers \cup Discoverers \subseteq Callers
  /\ Callers \cap Sessions = {}
  /\ None \notin Callers \cup Sessions

VARIABLES
  syncing, synced, cancelSync, syncCanceled, active,  \* fields of SyncData
  scanning,     \* activeSyncData whose scanStartTime is set
  discovery,    \* activeSyncData -> its addressDiscoveryCompletedOrCanceled
  cancelled,    \* contexts that are cancelled
  closed,       \* syncCanceled channels that are closed
  stopped,      \* discovery channels that are closed
  job,          \* context -> where its syncer, or its DiscoverUsage, is
  caller,       \* the callers
  updater,      \* context -> its updateAddressDiscoveryProgress goroutine
  shuttingDown, \* Wallet.isSyncShuttingDown
  panic         \* why the program died

flags == <<syncing, synced, cancelSync, syncCanceled>>
objects == <<active, scanning, discovery>>
channels == <<cancelled, closed, stopped>>
vars == <<flags, objects, channels, job, caller, updater, shuttingDown, panic>>

Contexts == Sessions \cup Discoverers

\* Where a syncer is while its Run has not returned, and where in a callback.
Callbacks == {"mark", "unmark", "stopProgress"}
RunStages == {"fetch", "fetched", "discover", "discovering", "finish",
              "rescan", "rescanning", "complete", "up", "lost"} \cup Callbacks
EndStages == {"returned", "closed", "reset"}
DiscoverStages == {"take", "discover", "discovering", "clear", "finish"} \cup Callbacks

Running(s) == job[s] \in RunStages

-----------------------------------------------------------------------------

Idle == [pc |-> "idle", ctx |-> None, chan |-> None, restart |-> FALSE]
NoUpdater == [pc |-> "none", chan |-> None]

Init ==
  /\ syncing = FALSE /\ synced = FALSE
  /\ cancelSync = None /\ syncCanceled = None /\ active = None
  /\ scanning = {} /\ discovery = [s \in Sessions |-> None]
  /\ cancelled = {} /\ closed = {} /\ stopped = {}
  /\ job = [u \in Contexts |-> "ended"]
  /\ caller = [c \in Callers |-> Idle]
  /\ updater = [u \in Contexts |-> NoUpdater]
  /\ shuttingDown = FALSE
  /\ panic = "none"

\* Where a goroutine is; a program that died takes no step.
Alive == panic = "none"
At(c, pc) == Alive /\ caller[c].pc = pc
Doing(u, stage) == Alive /\ job[u] = stage
Updating(u, pc) == Alive /\ updater[u].pc = pc
Goto(c, pc) == caller' = [caller EXCEPT ![c].pc = pc]
Return(c) == caller' = [caller EXCEPT ![c] = Idle]
JobTo(u, stage) == job' = [job EXCEPT ![u] = stage]
UpdaterTo(u, pc) == updater' = [updater EXCEPT ![u].pc = pc]

Connected == syncing \/ synced

\* A context no goroutine refers to: it can stand for a new one.
Unused(x) ==
  /\ Doing(x, "ended")
  /\ x \notin {cancelSync, syncCanceled, active}
  /\ \A c \in Callers : x \notin {caller[c].ctx, caller[c].chan}
  /\ \A s \in Sessions : discovery[s] = x => active # s
  /\ \A u \in Contexts : updater[u].chan # x
  /\ updater[x] = NoUpdater

\* The program dies of a dereference of a nil activeSyncData.
Crash(why) ==
  /\ panic' = why
  /\ UNCHANGED <<flags, objects, channels, job, caller, updater, shuttingDown>>

Dereference(step) ==
  \/ active = None /\ Crash("nil activeSyncData")
  \/ active # None /\ step

-----------------------------------------------------------------------------
(* Calls of the user interface *)

\* startSpv, when toggleWalletSync finds the wallet not connected.
CallStart(c) ==
  /\ c \in Starters /\ At(c, "idle")
  /\ ~Connected
  /\ Goto(c, "check")
  /\ UNCHANGED <<flags, objects, channels, job, updater, shuttingDown, panic>>

\* toggleWalletSync of a connected wallet: the page shows "cancelling" and is
\* disabled until CancelSync ends.
CallCancel(c) ==
  /\ c \in Cancellers /\ At(c, "idle")
  /\ Connected /\ ~shuttingDown
  /\ shuttingDown' = TRUE
  /\ Goto(c, "cancel")
  /\ UNCHANGED <<flags, objects, channels, job, updater, panic>>

\* SetSpecificPeer and RemovePeers: RestartSpvSync cancels, then starts.
CallRestart(c) ==
  /\ c \in Starters \cap Cancellers /\ At(c, "idle")
  /\ caller' = [caller EXCEPT ![c] = [@ EXCEPT !.pc = "cancel", !.restart = TRUE]]
  /\ UNCHANGED <<flags, objects, channels, job, updater, shuttingDown, panic>>

\* DiscoverUsage needs the network backend of a running syncer and a synced
\* wallet; its goroutine has the caller's name.
CallDiscover(c) ==
  /\ c \in Discoverers /\ At(c, "idle")
  /\ \E s \in Sessions : Running(s)
  /\ ~syncing /\ synced
  /\ Unused(c)
  /\ JobTo(c, "take")
  /\ cancelled' = cancelled \ {c} /\ stopped' = stopped \ {c}
  /\ UNCHANGED <<flags, objects, closed, caller, updater, shuttingDown, panic>>

-----------------------------------------------------------------------------
(* SpvSync *)

\* Mutant of MayStart: only a wallet that is not synced yet refuses.
StartsIfNotSyncing == ~syncing

MayStart == ~Connected

\* It refuses while a session is syncing or synced, and when no configured
\* peer is valid.
CheckStart(c) ==
  /\ At(c, "check")
  /\ \/ MayStart /\ caller' = [caller EXCEPT ![c] = [Idle EXCEPT !.pc = "init"]]
     \/ Return(c)
  /\ UNCHANGED <<flags, objects, channels, job, updater, shuttingDown, panic>>

\* initActiveSyncData
InitActive(c) ==
  /\ At(c, "init")
  /\ \E s \in Sessions :
       /\ Unused(s)
       /\ active' = s
       /\ scanning' = scanning \ {s}
       /\ discovery' = [discovery EXCEPT ![s] = None]
       /\ cancelled' = cancelled \ {s} /\ closed' = closed \ {s}
       /\ stopped' = stopped \ {s}
       /\ caller' = [caller EXCEPT ![c] = [@ EXCEPT !.pc = "launch", !.ctx = s]]
  /\ UNCHANGED <<flags, job, updater, shuttingDown, panic>>

\* The session's fields are set and its syncer is started.
Launch(c) ==
  LET s == caller[c].ctx IN
  /\ At(c, "launch")
  /\ Dereference(
       /\ syncing' = TRUE /\ cancelSync' = s /\ syncCanceled' = s
       /\ JobTo(s, "fetch")
       /\ Return(c)
       /\ UNCHANGED <<synced, objects, channels, updater, shuttingDown, panic>>)

-----------------------------------------------------------------------------
(* CancelSync *)

\* CancelSync is over; RestartSpvSync goes on with SpvSync.
CancelDone(c) ==
  /\ shuttingDown' = FALSE
  /\ IF caller[c].restart
     THEN caller' = [caller EXCEPT ![c] = [Idle EXCEPT !.pc = "check", !.restart = TRUE]]
     ELSE Return(c)

ReadCancel(c) ==
  /\ At(c, "cancel")
  /\ \/ cancelSync = None /\ CancelDone(c)
     \/ /\ cancelSync # None
        /\ caller' = [caller EXCEPT ![c] = [@ EXCEPT !.pc = "stop", !.ctx = cancelSync]]
        /\ UNCHANGED shuttingDown
  /\ UNCHANGED <<flags, objects, channels, job, updater, panic>>

CancelContext(c) ==
  /\ At(c, "stop")
  /\ cancelled' = cancelled \cup {caller[c].ctx}
  /\ Goto(c, "readChannel")
  /\ UNCHANGED <<flags, objects, closed, stopped, job, updater, shuttingDown, panic>>

\* syncCanceled is read without the lock, once the context is cancelled.
ReadChannel(c) ==
  /\ At(c, "readChannel")
  /\ caller' = [caller EXCEPT ![c] = [@ EXCEPT !.pc = "wait", !.chan = syncCanceled]]
  /\ UNCHANGED <<flags, objects, channels, job, updater, shuttingDown, panic>>

\* Mutant of Signalled: the wait ends at once.
NoWait(c) == TRUE

\* A receive from a nil channel never ends.
Signalled(c) == caller[c].chan \in closed

Wait(c) ==
  /\ At(c, "wait")
  /\ Signalled(c)
  /\ CancelDone(c)
  /\ UNCHANGED <<flags, objects, channels, job, updater, panic>>

-----------------------------------------------------------------------------
(* The syncer's callbacks, made one at a time while its Run goes on *)

\* Missing filters, then headers, are fetched: their start and end set and
\* clear scanStartTime, whatever syncing is.
FetchStarted(s) ==
  /\ Doing(s, "fetch")
  /\ Dereference(
       /\ scanning' = scanning \cup {active}
       /\ JobTo(s, "fetched")
       /\ UNCHANGED <<flags, active, discovery, channels, caller, updater, shuttingDown, panic>>)

\* Without blocks to rescan, discovery and rescan are skipped.
FetchFinished(s) ==
  /\ Doing(s, "fetched")
  /\ Dereference(
       /\ scanning' = scanning \ {active}
       /\ JobTo(s, "discover") \/ JobTo(s, "complete")
       /\ UNCHANGED <<flags, active, discovery, channels, caller, updater, shuttingDown, panic>>)

\* discoverAddressesStarted, of a syncer or of DiscoverUsage, does nothing
\* when the wallet is not syncing or something is being scanned.
DiscoveryStarted(u) ==
  /\ Doing(u, "discover")
  /\ \/ /\ ~syncing
        /\ JobTo(u, "discovering")
        /\ UNCHANGED <<flags, objects, channels, caller, updater, shuttingDown, panic>>
     \/ /\ syncing
        /\ Dereference(
             /\ IF active \in scanning THEN JobTo(u, "discovering") ELSE JobTo(u, "mark")
             /\ UNCHANGED <<flags, objects, channels, caller, updater, shuttingDown, panic>>)

\* The channel is made and the goroutine that reports progress started.
MarkDiscovery(u) ==
  /\ Doing(u, "mark")
  /\ Dereference(
       /\ scanning' = scanning \cup {active}
       /\ discovery' = [discovery EXCEPT ![active] = u]
       /\ UpdaterTo(u, "enter")
       /\ JobTo(u, "discovering")
       /\ UNCHANGED <<flags, active, channels, caller, shuttingDown, panic>>)

\* Mutant of Discovered: every discovery ends as that of DiscoverUsage.
DiscoveredByUser(u) == "clear"

Discovered(u) == IF u \in Discoverers THEN "clear" ELSE "finish"

\* DiscoverActiveAddresses returns; that of DiscoverUsage may have failed.
DiscoveryEnds(u) ==
  /\ Doing(u, "discovering")
  /\ JobTo(u, Discovered(u))
  /\ UNCHANGED <<flags, objects, channels, caller, updater, shuttingDown, panic>>

AfterDiscovery(u) == IF u \in Discoverers THEN "ended" ELSE "rescan"

\* discoverAddressesFinished does nothing when the wallet is not syncing.
DiscoveryFinished(u) ==
  /\ Doing(u, "finish")
  /\ JobTo(u, IF syncing THEN "unmark" ELSE AfterDiscovery(u))
  /\ UNCHANGED <<flags, objects, channels, caller, updater, shuttingDown, panic>>

UnmarkDiscovery(u) ==
  /\ Doing(u, "unmark")
  /\ Dereference(
       /\ scanning' = scanning \ {active}
       /\ JobTo(u, "stopProgress")
       /\ UNCHANGED <<flags, active, discovery, channels, caller, updater, shuttingDown, panic>>)

\* stopUpdatingAddressDiscoveryProgress
CloseDiscovery ==
  IF active # None /\ discovery[active] # None
  THEN /\ stopped' = stopped \cup {discovery[active]}
       /\ discovery' = [discovery EXCEPT ![active] = None]
  ELSE UNCHANGED <<stopped, discovery>>

StopProgress(u) ==
  /\ Doing(u, "stopProgress")
  /\ CloseDiscovery
  /\ JobTo(u, AfterDiscovery(u))
  /\ UNCHANGED <<flags, active, scanning, cancelled, closed, caller, updater, shuttingDown, panic>>

RescanStarted(s) ==
  /\ Doing(s, "rescan")
  /\ \/ /\ syncing /\ active = None
        /\ Crash("nil activeSyncData")
     \/ /\ syncing => active # None
        /\ CloseDiscovery
        /\ scanning' = IF syncing THEN scanning \cup {active} ELSE scanning
        /\ JobTo(s, "rescanning")
        /\ UNCHANGED <<flags, active, cancelled, closed, caller, updater, shuttingDown, panic>>

RescanFinished(s) ==
  /\ Doing(s, "rescanning")
  /\ \/ /\ syncing /\ active = None
        /\ Crash("nil activeSyncData")
     \/ /\ syncing => active # None
        /\ scanning' = IF syncing THEN scanning \ {active} ELSE scanning
        /\ JobTo(s, "complete")
        /\ UNCHANGED <<flags, active, discovery, channels, caller, updater, shuttingDown, panic>>

\* syncedWallet(true); a wallet that is synced already keeps its flags.
Synced(s) ==
  /\ Doing(s, "complete")
  /\ IF synced THEN UNCHANGED <<syncing, synced>> ELSE syncing' = FALSE /\ synced' = TRUE
  /\ JobTo(s, "up")
  /\ UNCHANGED <<cancelSync, syncCanceled, objects, channels, caller, updater, shuttingDown, panic>>

\* Mutant of Unsynced: syncedWallet stores its argument.
UnsyncedStored == synced' = FALSE

\* The wallet remains synced to its callers until the session is reset.
Unsynced == synced' = TRUE

\* The last peer is lost: syncedWallet(false), and the syncer is torn down.
PeersLost(s) ==
  /\ Doing(s, "up")
  /\ syncing' = FALSE /\ Unsynced
  /\ JobTo(s, "lost")
  /\ UNCHANGED <<cancelSync, syncCanceled, objects, channels, caller, updater, shuttingDown, panic>>

-----------------------------------------------------------------------------
(* The end of a session *)

\* syncer.Run returns, cancelled or with an error, once its callbacks have.
RunReturns(s) ==
  /\ Alive /\ Running(s) /\ job[s] \notin Callbacks
  /\ JobTo(s, "returned")
  /\ UNCHANGED <<flags, objects, channels, caller, updater, shuttingDown, panic>>

\* The field is read without its lock, and may name no channel, a closed one
\* or that of another session.
CloseCanceled(s) ==
  /\ Doing(s, "returned")
  /\ \/ /\ syncCanceled \in closed \cup {None}
        /\ Crash("bad close of syncCanceled")
     \/ /\ syncCanceled \notin closed \cup {None}
        /\ closed' = closed \cup {syncCanceled}
        /\ JobTo(s, "closed")
        /\ UNCHANGED <<flags, objects, cancelled, stopped, caller, updater, shuttingDown, panic>>

\* resetSyncData stops the progress of a discovery ...
StopUpdating(s) ==
  /\ Doing(s, "closed")
  /\ CloseDiscovery
  /\ JobTo(s, "reset")
  /\ UNCHANGED <<flags, active, scanning, cancelled, closed, caller, updater, shuttingDown, panic>>

\* Mutant of ForgetCancel: the cancel function of the ended session is kept.
KeepCancel == UNCHANGED cancelSync

ForgetCancel == cancelSync' = None

\* ... and then clears every field.
Reset(s) ==
  /\ Doing(s, "reset")
  /\ syncing' = FALSE /\ synced' = FALSE
  /\ ForgetCancel /\ syncCanceled' = None /\ active' = None
  /\ JobTo(s, "ended")
  /\ UNCHANGED <<scanning, discovery, channels, caller, updater, shuttingDown, panic>>

-----------------------------------------------------------------------------
(* The goroutine of DiscoverUsage *)

TakeSync(c) ==
  /\ Doing(c, "take")
  /\ syncing' = TRUE /\ cancelSync' = c
  /\ JobTo(c, "discover")
  /\ UNCHANGED <<synced, syncCanceled, objects, channels, caller, updater, shuttingDown, panic>>

\* Its fields are cleared before discoverAddressesFinished is called.
ClearSync(c) ==
  /\ Doing(c, "clear")
  /\ syncing' = FALSE /\ ForgetCancel
  /\ JobTo(c, "finish")
  /\ UNCHANGED <<synced, syncCanceled, objects, channels, caller, updater, shuttingDown, panic>>

-----------------------------------------------------------------------------
(* updateAddressDiscoveryProgress *)

Enter(u) ==
  /\ Updating(u, "enter")
  /\ Dereference(
       /\ UpdaterTo(u, "check")
       /\ UNCHANGED <<flags, objects, channels, job, caller, shuttingDown, panic>>)

CheckSyncing(u) ==
  /\ Updating(u, "check")
  /\ updater' = [updater EXCEPT ![u] = IF syncing THEN [@ EXCEPT !.pc = "touch"] ELSE NoUpdater]
  /\ UNCHANGED <<flags, objects, channels, job, caller, shuttingDown, panic>>

\* The start time is shifted by the time of inactivity.
Touch(u) ==
  /\ Updating(u, "touch")
  /\ Dereference(
       /\ UpdaterTo(u, "select")
       /\ UNCHANGED <<flags, objects, channels, job, caller, shuttingDown, panic>>)

\* The channel to wait on is read, without the lock, on every turn.
Select(u) ==
  /\ Updating(u, "select")
  /\ Dereference(
       /\ updater' = [updater EXCEPT ![u] = [pc |-> "wait", chan |-> discovery[active]]]
       /\ UNCHANGED <<flags, objects, channels, job, caller, shuttingDown, panic>>)

\* The channel is closed, or the ticker ticks.
Selected(u) ==
  /\ Updating(u, "wait")
  /\ \/ updater[u].chan \in stopped /\ updater' = [updater EXCEPT ![u] = NoUpdater]
     \/ updater' = [updater EXCEPT ![u] = [pc |-> "publish", chan |-> None]]
  /\ UNCHANGED <<flags, objects, channels, job, caller, shuttingDown, panic>>

\* updateGeneralSyncProgress
Publish(u) ==
  /\ Updating(u, "publish")
  /\ Dereference(
       /\ UpdaterTo(u, "check")
       /\ UNCHANGED <<flags, objects, channels, job, caller, shuttingDown, panic>>)

-----------------------------------------------------------------------------

CallerStep(c) ==
  \/ CheckStart(c) \/ InitActive(c) \/ Launch(c)
  \/ ReadCancel(c) \/ CancelContext(c) \/ ReadChannel(c) \/ Wait(c)

SyncerStep(s) ==
  \/ FetchStarted(s) \/ FetchFinished(s) \/ RescanStarted(s) \/ RescanFinished(s)
  \/ Synced(s) \/ CloseCanceled(s) \/ StopUpdating(s) \/ Reset(s)

JobStep(u) ==
  \/ DiscoveryStarted(u) \/ MarkDiscovery(u) \/ DiscoveryEnds(u) \/ DiscoveryFinished(u)
  \/ UnmarkDiscovery(u) \/ StopProgress(u)

UpdaterStep(u) ==
  \/ Enter(u) \/ CheckSyncing(u) \/ Touch(u) \/ Select(u) \/ Selected(u) \/ Publish(u)

Next ==
  \/ \E c \in Callers : CallStart(c) \/ CallCancel(c) \/ CallRestart(c) \/ CallDiscover(c)
  \/ \E c \in Callers : CallerStep(c)
  \/ \E s \in Sessions : SyncerStep(s) \/ PeersLost(s) \/ RunReturns(s)
  \/ \E u \in Contexts : JobStep(u)
  \/ \E c \in Discoverers : TakeSync(c) \/ ClearSync(c)
  \/ \E u \in Contexts : UpdaterStep(u)

Spec == Init /\ [][Next]_vars

-----------------------------------------------------------------------------
(* Properties *)

UpdaterStages == {"none", "enter", "check", "touch", "select", "wait", "publish"}
CallerStages == {"idle", "check", "init", "launch", "cancel", "stop", "readChannel", "wait"}

CallerStates == [pc : CallerStages, ctx : Contexts \cup {None},
                 chan : Sessions \cup {None}, restart : BOOLEAN]
UpdaterStates == [pc : UpdaterStages, chan : Contexts \cup {None}]

\* Every field has its type; a syncer is at a stage of syncers, a DiscoverUsage
\* at one of its own.
TypeOK ==
  /\ syncing \in BOOLEAN /\ synced \in BOOLEAN /\ shuttingDown \in BOOLEAN
  /\ cancelSync \in Contexts \cup {None}
  /\ syncCanceled \in Sessions \cup {None} /\ active \in Sessions \cup {None}
  /\ scanning \subseteq Sessions
  /\ discovery \in [Sessions -> Contexts \cup {None}]
  /\ cancelled \subseteq Contexts /\ closed \subseteq Sessions /\ stopped \subseteq Contexts
  /\ job \in [Contexts -> RunStages \cup EndStages \cup DiscoverStages \cup {"ended"}]
  /\ \A s \in Sessions : job[s] \in RunStages \cup EndStages \cup {"ended"}
  /\ \A c \in Discoverers : job[c] \in DiscoverStages \cup {"ended"}
  /\ caller \in [Callers -> CallerStates]
  /\ updater \in [Contexts -> UpdaterStates]
  /\ panic \in {"none", "nil activeSyncData", "bad close of syncCanceled"}

\* A field of SyncData never names a goroutine that is gone: whoever sets
\* cancelSync or syncCanceled is still to clear it, and a new activeSyncData
\* belongs to a session or to a SpvSync about to start it.
FieldsAreLive ==
  /\ cancelSync \in Sessions => job[cancelSync] # "ended"
  /\ cancelSync \in Discoverers => job[cancelSync] \in {"discover", "mark", "discovering", "clear"}
  /\ syncCanceled # None => job[syncCanceled] # "ended"
  /\ active # None => \/ job[active] # "ended"
                      \/ \E c \in Callers : caller[c].pc = "launch" /\ caller[c].ctx = active

\* While a session's syncer runs, cancelSync is the function that ends it: no
\* call of CancelSync leaves it running.
Cancellable == \A s \in Sessions : Running(s) => cancelSync = s

\* close(syncCanceled) never meets a nil or a closed channel.
ClosesOnce == panic # "bad close of syncCanceled"

\* CancelSync returns only when the syncer it cancelled has stopped.
CancelWaits ==
  [][\A c \in Callers :
       At(c, "wait") /\ caller'[c].pc # "wait" /\ caller[c].ctx \in Sessions
         => ~Running(caller[c].ctx)]_vars

Session == INSTANCE SyncSession WITH
  mode <- IF synced THEN "synced" ELSE IF syncing THEN "syncing" ELSE "off",
  running <- {s \in Sessions : Running(s)}

\* The wallet runs one syncer at a time, and shows that it is connected from
\* before the syncer starts until after it has stopped.
SyncSessionHolds == Session!Spec

\* activeSyncData is there for whoever reports progress.
ProgressHasItsData == panic # "nil activeSyncData"
=============================================================================
