--------------------------- MODULE SpvSync_proofs ---------------------------
(***************************************************************************)
(* Proofs about SpvSync, for any sets of callers and sessions.             *)
(*                                                                         *)
(* For all callers, IInv: every field of SyncData has its type and names   *)
(* no goroutine that is gone.                                              *)
(*                                                                         *)
(* For one starter and no DiscoverUsage, OneStarterInv: a session that has *)
(* not ended owns the fields of SyncData.  From it follow that a session   *)
(* can be cancelled, that its channel is closed once, that CancelSync      *)
(* waits for the syncer, and that SpvSync implements SyncSession.          *)
(***************************************************************************)
EXTENDS SpvSync, TLAPS

\* The context a caller is about to use is one.
Pointed ==
  \A c \in Callers :
    /\ caller[c].pc = "launch" => caller[c].ctx \in Sessions
    /\ caller[c].pc = "stop" => caller[c].ctx \in Contexts

IInv == TypeOK /\ FieldsAreLive /\ Pointed

-----------------------------------------------------------------------------
(* One goroutine starts sessions, and nobody calls DiscoverUsage. *)

OneStarter == Discoverers = {} /\ \A c, d \in Starters : c = d

\* Only starters are in SpvSync.
StartersStart ==
  \A c \in Callers :
    caller[c].pc \in {"check", "init", "launch"} \/ caller[c].restart => c \in Starters

\* A session that has not ended owns the fields of SyncData, and its channel is
\* closed once and at its end.
SessionOwnsFields ==
  \A s \in Sessions : job[s] # "ended" =>
    /\ cancelSync = s /\ syncCanceled = s
    /\ syncing \/ synced
    /\ job[s] \in RunStages \ {"up", "lost"} => syncing /\ ~synced
    /\ job[s] \in {"up", "lost"} => synced
    /\ job[s] \in RunStages \cup {"returned"} => s \notin closed

\* A wallet that shows a session has one.
ShownSessionExists ==
  syncing \/ synced => cancelSync \in Sessions

\* Past the check of SpvSync there is no session; the new one's channel is open
\* and nobody else has its context.
StartsAlone ==
  \A c \in Callers :
    /\ caller[c].pc \in {"init", "launch"} => ~syncing /\ ~synced
    /\ caller[c].pc = "launch" =>
         /\ caller[c].ctx \notin closed
         /\ \A d \in Callers \ {c} : caller[d].ctx # caller[c].ctx

\* Whoever waits for a session that has not ended waits on its channel.
WaitsOnItsChannel ==
  \A c \in Callers :
    caller[c].pc = "wait" /\ caller[c].ctx \in Sessions /\ job[caller[c].ctx] # "ended"
      => caller[c].chan = caller[c].ctx

OneStarterInv ==
  /\ StartersStart /\ SessionOwnsFields /\ ShownSessionExists
  /\ StartsAlone /\ WaitsOnItsChannel
  /\ panic # "bad close of syncCanceled"

-----------------------------------------------------------------------------
(* Types *)

USE DEF Alive, At, Doing, Updating, Goto, Return, UpdaterTo, Dereference, Crash,
        Connected, Contexts, flags, objects, channels, Running

\* What a caller's step may write.
LEMMA CallerRecords ==
  ASSUME NEW r \in CallerStates, NEW pc \in CallerStages,
         NEW x \in Contexts \cup {None}, NEW k \in Sessions \cup {None}
  PROVE  /\ [r EXCEPT !.pc = pc] \in CallerStates
         /\ [r EXCEPT !.pc = pc, !.ctx = x] \in CallerStates
         /\ [r EXCEPT !.pc = pc, !.chan = k] \in CallerStates
         /\ [r EXCEPT !.pc = pc, !.restart = TRUE] \in CallerStates
BY DEF CallerStates

LEMMA IdleRecord == Idle \in CallerStates
BY DEF CallerStates, CallerStages, Idle

LEMMA CallerStagesAre ==
  CallerStages = {"idle", "check", "init", "launch", "cancel", "stop", "readChannel", "wait"}
BY DEF CallerStages

LEMMA UpdaterStagesAre ==
  UpdaterStages = {"none", "enter", "check", "touch", "select", "wait", "publish"}
BY DEF UpdaterStages

\* What a step of the progress goroutine may write.
LEMMA UpdaterRecords ==
  ASSUME NEW r \in UpdaterStates, NEW pc \in UpdaterStages, NEW x \in Contexts \cup {None}
  PROVE  /\ [r EXCEPT !.pc = pc] \in UpdaterStates
         /\ [pc |-> pc, chan |-> x] \in UpdaterStates
         /\ NoUpdater \in UpdaterStates
BY DEF UpdaterStates, UpdaterStages, NoUpdater

LEMMA CallerTyped ==
  ASSUME IInv, [Next]_vars
  PROVE  caller' \in [Callers -> CallerStates]
<1>a. caller \in [Callers -> CallerStates]
  BY DEF IInv, TypeOK
<1>b. cancelSync \in Contexts \cup {None} /\ syncCanceled \in Sessions \cup {None}
  BY DEF IInv, TypeOK
<1>1. ASSUME NEW c \in Callers, CallStart(c) PROVE caller' \in [Callers -> CallerStates]
  BY <1>a, <1>1, CallerRecords, CallerStagesAre DEF CallStart, CancelDone
<1>2. ASSUME NEW c \in Callers, CallCancel(c) PROVE caller' \in [Callers -> CallerStates]
  BY <1>a, <1>2, CallerRecords, CallerStagesAre DEF CallCancel, CancelDone
<1>3. ASSUME NEW c \in Callers, CallRestart(c) PROVE caller' \in [Callers -> CallerStates]
  BY <1>a, <1>3, CallerRecords, CallerStagesAre DEF CallRestart, CancelDone
<1>4. ASSUME NEW c \in Callers, CheckStart(c) PROVE caller' \in [Callers -> CallerStates]
  BY <1>a, <1>4, CallerRecords, IdleRecord, CallerStagesAre DEF CheckStart,
     CancelDone
<1>5. ASSUME NEW c \in Callers, InitActive(c) PROVE caller' \in [Callers -> CallerStates]
  <2>1. PICK s \in Sessions :
          caller' = [caller EXCEPT ![c] = [@ EXCEPT !.pc = "launch", !.ctx = s]]
    BY <1>5 DEF InitActive
  <2>. QED
    BY <1>a, <2>1, CallerRecords, CallerStagesAre
<1>6. ASSUME NEW c \in Callers, Launch(c) PROVE caller' \in [Callers -> CallerStates]
  BY <1>a, <1>6, IdleRecord DEF Launch, CancelDone
<1>7. ASSUME NEW c \in Callers, ReadCancel(c) PROVE caller' \in [Callers -> CallerStates]
  <2>1. CASE cancelSync = None /\ CancelDone(c)
    BY <1>a, <2>1, CallerRecords, IdleRecord, CallerStagesAre DEF CancelDone
  <2>2. CASE caller' = [caller EXCEPT ![c] = [@ EXCEPT !.pc = "stop", !.ctx = cancelSync]]
    BY <1>a, <1>b, <2>2, CallerRecords, CallerStagesAre
  <2>. QED
    BY <1>7, <2>1, <2>2 DEF ReadCancel
<1>8. ASSUME NEW c \in Callers, CancelContext(c) PROVE caller' \in [Callers -> CallerStates]
  BY <1>a, <1>8, CallerRecords, CallerStagesAre DEF CancelContext, CancelDone
<1>9. ASSUME NEW c \in Callers, ReadChannel(c) PROVE caller' \in [Callers -> CallerStates]
  BY <1>a, <1>b, <1>9, CallerRecords, CallerStagesAre DEF ReadChannel,
     CancelDone
<1>10. ASSUME NEW c \in Callers, Wait(c) PROVE caller' \in [Callers -> CallerStates]
  BY <1>a, <1>10, CallerRecords, IdleRecord, CallerStagesAre DEF Wait,
     CancelDone
<1>11. CASE UNCHANGED caller
  BY <1>a, <1>11
<1>. QED
  BY <1>1, <1>2, <1>3, <1>4, <1>5, <1>6, <1>7, <1>8, <1>9, <1>10, <1>11
     DEF vars, Next, CallerStep, SyncerStep, JobStep, UpdaterStep, CallDiscover,
         FetchStarted, FetchFinished, RescanStarted, RescanFinished, Synced,
         CloseCanceled, StopUpdating, Reset, PeersLost, RunReturns,
         DiscoveryStarted, MarkDiscovery, DiscoveryEnds, DiscoveryFinished,
         UnmarkDiscovery, StopProgress, TakeSync, ClearSync, Enter,
         CheckSyncing, Touch, Select, Selected, Publish

LEMMA UpdaterTyped ==
  ASSUME IInv, [Next]_vars
  PROVE  updater' \in [Contexts -> UpdaterStates]
<1>a. updater \in [Contexts -> UpdaterStates]
  BY DEF IInv, TypeOK
<1>b. \A s \in Sessions : discovery[s] \in Contexts \cup {None}
  BY DEF IInv, TypeOK
<1>c. active \in Sessions \cup {None}
  BY DEF IInv, TypeOK
<1>1. ASSUME NEW u \in Contexts, MarkDiscovery(u) PROVE updater' \in [Contexts -> UpdaterStates]
  <2>1. updater' = [updater EXCEPT ![u].pc = "enter"] \/ UNCHANGED updater
    BY <1>1 DEF MarkDiscovery
  <2>. QED
    BY <1>a, <2>1, UpdaterRecords, UpdaterStagesAre
<1>2. ASSUME NEW u \in Contexts, Enter(u) PROVE updater' \in [Contexts -> UpdaterStates]
  <2>1. updater' = [updater EXCEPT ![u].pc = "check"] \/ UNCHANGED updater
    BY <1>2 DEF Enter
  <2>. QED
    BY <1>a, <2>1, UpdaterRecords, UpdaterStagesAre
<1>3. ASSUME NEW u \in Contexts, CheckSyncing(u) PROVE updater' \in [Contexts -> UpdaterStates]
  BY <1>a, <1>3, UpdaterRecords DEF CheckSyncing, UpdaterStages
<1>4. ASSUME NEW u \in Contexts, Touch(u) PROVE updater' \in [Contexts -> UpdaterStates]
  <2>1. updater' = [updater EXCEPT ![u].pc = "select"] \/ UNCHANGED updater
    BY <1>4 DEF Touch
  <2>. QED
    BY <1>a, <2>1, UpdaterRecords, UpdaterStagesAre
<1>5. ASSUME NEW u \in Contexts, Select(u) PROVE updater' \in [Contexts -> UpdaterStates]
  BY <1>a, <1>b, <1>c, <1>5, UpdaterRecords DEF Select, UpdaterStages
<1>6. ASSUME NEW u \in Contexts, Selected(u) PROVE updater' \in [Contexts -> UpdaterStates]
  BY <1>a, <1>b, <1>c, <1>6, UpdaterRecords DEF Selected, UpdaterStages
<1>7. ASSUME NEW u \in Contexts, Publish(u) PROVE updater' \in [Contexts -> UpdaterStates]
  <2>1. updater' = [updater EXCEPT ![u].pc = "check"] \/ UNCHANGED updater
    BY <1>7 DEF Publish
  <2>. QED
    BY <1>a, <2>1, UpdaterRecords, UpdaterStagesAre
<1>8. CASE UNCHANGED updater
  BY <1>a, <1>8
<1>. QED
  BY <1>1, <1>2, <1>3, <1>4, <1>5, <1>6, <1>7, <1>8
     DEF vars, Next, CallerStep, SyncerStep, JobStep, UpdaterStep, CancelDone,
         CloseDiscovery, CallStart, CallCancel, CallRestart, CallDiscover,
         CheckStart, InitActive, Launch, ReadCancel, CancelContext, ReadChannel,
         Wait, FetchStarted, FetchFinished, RescanStarted, RescanFinished,
         Synced, CloseCanceled, StopUpdating, Reset, PeersLost, RunReturns,
         DiscoveryStarted, DiscoveryEnds, DiscoveryFinished, UnmarkDiscovery,
         StopProgress, TakeSync, ClearSync

\* The conjuncts of TypeOK about job, and what JobTo needs to keep them.
JobTyped ==
  /\ job \in [Contexts -> RunStages \cup EndStages \cup DiscoverStages \cup {"ended"}]
  /\ \A s \in Sessions : job[s] \in RunStages \cup EndStages \cup {"ended"}
  /\ \A c \in Discoverers : job[c] \in DiscoverStages \cup {"ended"}

StagesOf(u) == IF u \in Discoverers THEN DiscoverStages \cup {"ended"}
               ELSE RunStages \cup EndStages \cup {"ended"}

LEMMA JobToTyped ==
  ASSUME JobTyped, NEW u \in Contexts, NEW stage \in StagesOf(u), JobTo(u, stage)
  PROVE  JobTyped'
BY CallersAssumption DEF JobTyped, StagesOf, JobTo

LEMMA StagesAre ==
  /\ \A s \in Sessions :
       StagesOf(s) = {"fetch", "fetched", "discover", "discovering", "finish",
                      "rescan", "rescanning", "complete", "up", "lost",
                      "mark", "unmark", "stopProgress",
                      "returned", "closed", "reset", "ended"}
  /\ \A c \in Discoverers :
       StagesOf(c) = {"take", "discover", "discovering", "clear", "finish",
                      "mark", "unmark", "stopProgress", "ended"}
BY CallersAssumption
   DEF StagesOf, RunStages, EndStages, DiscoverStages, Callbacks

LEMMA JobsTyped ==
  ASSUME IInv, [Next]_vars
  PROVE  JobTyped'
<1>a. JobTyped
  BY DEF IInv, TypeOK, JobTyped
<1>1. ASSUME NEW c \in Callers, CallDiscover(c) PROVE JobTyped'
  BY <1>a, <1>1, JobToTyped, StagesAre DEF CallDiscover
<1>2. ASSUME NEW c \in Callers, Launch(c) PROVE JobTyped'
  <2>1. UNCHANGED job \/ JobTo(caller[c].ctx, "fetch")
    BY <1>2 DEF Launch, JobTo
  <2>2. caller[c].ctx \in Sessions
    BY <1>2 DEF Launch, IInv, Pointed
  <2>. QED
    BY <1>a, <2>1, <2>2, JobToTyped, StagesAre DEF JobTyped
<1>3. ASSUME NEW s \in Sessions, FetchStarted(s) PROVE JobTyped'
  <2>1. UNCHANGED job \/ JobTo(s, "fetched")
    BY <1>3 DEF FetchStarted, JobTo
  <2>. QED
    BY <1>a, <2>1, JobToTyped, StagesAre DEF JobTyped
<1>4. ASSUME NEW s \in Sessions, FetchFinished(s) PROVE JobTyped'
  <2>1. UNCHANGED job \/ JobTo(s, "discover") \/ JobTo(s, "complete")
    BY <1>4 DEF FetchFinished, JobTo
  <2>. QED
    BY <1>a, <2>1, JobToTyped, StagesAre DEF JobTyped
<1>5. ASSUME NEW s \in Sessions, RescanStarted(s) PROVE JobTyped'
  <2>1. UNCHANGED job \/ JobTo(s, "rescanning")
    BY <1>5 DEF RescanStarted, JobTo
  <2>. QED
    BY <1>a, <2>1, JobToTyped, StagesAre DEF JobTyped
<1>6. ASSUME NEW s \in Sessions, RescanFinished(s) PROVE JobTyped'
  <2>1. UNCHANGED job \/ JobTo(s, "complete")
    BY <1>6 DEF RescanFinished, JobTo
  <2>. QED
    BY <1>a, <2>1, JobToTyped, StagesAre DEF JobTyped
<1>7. ASSUME NEW s \in Sessions, Synced(s) PROVE JobTyped'
  BY <1>a, <1>7, JobToTyped, StagesAre DEF Synced
<1>8. ASSUME NEW s \in Sessions, CloseCanceled(s) PROVE JobTyped'
  <2>1. UNCHANGED job \/ JobTo(s, "closed")
    BY <1>8 DEF CloseCanceled, JobTo
  <2>. QED
    BY <1>a, <2>1, JobToTyped, StagesAre DEF JobTyped
<1>9. ASSUME NEW s \in Sessions, StopUpdating(s) PROVE JobTyped'
  BY <1>a, <1>9, JobToTyped, StagesAre DEF StopUpdating
<1>10. ASSUME NEW s \in Sessions, Reset(s) PROVE JobTyped'
  BY <1>a, <1>10, JobToTyped, StagesAre DEF Reset
<1>11. ASSUME NEW s \in Sessions, PeersLost(s) PROVE JobTyped'
  BY <1>a, <1>11, JobToTyped, StagesAre DEF PeersLost
<1>12. ASSUME NEW s \in Sessions, RunReturns(s) PROVE JobTyped'
  BY <1>a, <1>12, JobToTyped, StagesAre DEF RunReturns
<1>13. ASSUME NEW u \in Contexts, DiscoveryStarted(u) PROVE JobTyped'
  <2>1. UNCHANGED job \/ JobTo(u, "discovering") \/ JobTo(u, "mark")
    BY <1>13 DEF DiscoveryStarted, JobTo
  <2>2. u \in Sessions \/ u \in Discoverers
    OBVIOUS
  <2>. QED
    BY <1>a, <2>1, JobToTyped, StagesAre DEF JobTyped
<1>14. ASSUME NEW u \in Contexts, MarkDiscovery(u) PROVE JobTyped'
  <2>1. UNCHANGED job \/ JobTo(u, "discovering")
    BY <1>14 DEF MarkDiscovery, JobTo
  <2>2. u \in Sessions \/ u \in Discoverers
    OBVIOUS
  <2>. QED
    BY <1>a, <2>1, JobToTyped, StagesAre DEF JobTyped
<1>15. ASSUME NEW u \in Contexts, DiscoveryEnds(u) PROVE JobTyped'
  BY <1>a, <1>15, JobToTyped, StagesAre DEF DiscoveryEnds, Discovered
<1>16. ASSUME NEW u \in Contexts, DiscoveryFinished(u) PROVE JobTyped'
  BY <1>a, <1>16, JobToTyped, StagesAre DEF DiscoveryFinished, AfterDiscovery
<1>17. ASSUME NEW u \in Contexts, UnmarkDiscovery(u) PROVE JobTyped'
  <2>1. UNCHANGED job \/ JobTo(u, "stopProgress")
    BY <1>17 DEF UnmarkDiscovery, JobTo
  <2>2. u \in Sessions \/ u \in Discoverers
    OBVIOUS
  <2>. QED
    BY <1>a, <2>1, JobToTyped, StagesAre DEF JobTyped
<1>18. ASSUME NEW u \in Contexts, StopProgress(u) PROVE JobTyped'
  BY <1>a, <1>18, JobToTyped, StagesAre DEF StopProgress, AfterDiscovery
<1>19. ASSUME NEW c \in Discoverers, TakeSync(c) PROVE JobTyped'
  BY <1>a, <1>19, JobToTyped, StagesAre DEF TakeSync
<1>20. ASSUME NEW c \in Discoverers, ClearSync(c) PROVE JobTyped'
  BY <1>a, <1>20, JobToTyped, StagesAre DEF ClearSync
<1>21. CASE UNCHANGED job
  BY <1>a, <1>21 DEF JobTyped
<1>. QED
  BY <1>1, <1>2, <1>3, <1>4, <1>5, <1>6, <1>7, <1>8, <1>9, <1>10, <1>11,
     <1>12, <1>13, <1>14, <1>15, <1>16, <1>17, <1>18, <1>19, <1>20, <1>21
     DEF vars, Next, CallerStep, SyncerStep, JobStep, UpdaterStep, CancelDone,
         CallStart, CallCancel, CallRestart, CheckStart, InitActive, ReadCancel,
         CancelContext, ReadChannel, Wait, Enter, CheckSyncing, Touch, Select,
         Selected, Publish

\* The other conjuncts of TypeOK.
FieldsTyped ==
  /\ syncing \in BOOLEAN /\ synced \in BOOLEAN /\ shuttingDown \in BOOLEAN
  /\ cancelSync \in Contexts \cup {None}
  /\ syncCanceled \in Sessions \cup {None} /\ active \in Sessions \cup {None}
  /\ scanning \subseteq Sessions
  /\ discovery \in [Sessions -> Contexts \cup {None}]
  /\ cancelled \subseteq Contexts /\ closed \subseteq Sessions /\ stopped \subseteq Contexts
  /\ panic \in {"none", "nil activeSyncData", "bad close of syncCanceled"}

LEMMA FieldsTypedStep ==
  ASSUME IInv, [Next]_vars
  PROVE  FieldsTyped'
<1>a. FieldsTyped
  BY DEF IInv, TypeOK, FieldsTyped
<1>1. ASSUME NEW c \in Callers, CallStart(c) PROVE FieldsTyped'
  BY <1>a, <1>1 DEF FieldsTyped, CallStart
<1>2. ASSUME NEW c \in Callers, CallCancel(c) PROVE FieldsTyped'
  BY <1>a, <1>2 DEF FieldsTyped, CallCancel
<1>3. ASSUME NEW c \in Callers, CallRestart(c) PROVE FieldsTyped'
  BY <1>a, <1>3 DEF FieldsTyped, CallRestart
<1>4. ASSUME NEW c \in Callers, CallDiscover(c) PROVE FieldsTyped'
  BY <1>a, <1>4 DEF FieldsTyped, CallDiscover
<1>5. ASSUME NEW c \in Callers, CheckStart(c) PROVE FieldsTyped'
  BY <1>a, <1>5 DEF FieldsTyped, CheckStart
<1>6. ASSUME NEW c \in Callers, InitActive(c) PROVE FieldsTyped'
  BY <1>a, <1>6 DEF FieldsTyped, InitActive
<1>7. ASSUME NEW c \in Callers, Launch(c) PROVE FieldsTyped'
  BY <1>a, <1>7 DEF FieldsTyped, Launch, IInv, Pointed
<1>8. ASSUME NEW c \in Callers, ReadCancel(c) PROVE FieldsTyped'
  BY <1>a, <1>8 DEF FieldsTyped, ReadCancel, CancelDone
<1>9. ASSUME NEW c \in Callers, CancelContext(c) PROVE FieldsTyped'
  BY <1>a, <1>9 DEF FieldsTyped, CancelContext, IInv, Pointed
<1>10. ASSUME NEW c \in Callers, ReadChannel(c) PROVE FieldsTyped'
  BY <1>a, <1>10 DEF FieldsTyped, ReadChannel
<1>11. ASSUME NEW c \in Callers, Wait(c) PROVE FieldsTyped'
  BY <1>a, <1>11 DEF FieldsTyped, Wait, CancelDone
<1>12. ASSUME NEW s \in Sessions, FetchStarted(s) PROVE FieldsTyped'
  BY <1>a, <1>12 DEF FieldsTyped, FetchStarted
<1>13. ASSUME NEW s \in Sessions, FetchFinished(s) PROVE FieldsTyped'
  BY <1>a, <1>13 DEF FieldsTyped, FetchFinished
<1>14. ASSUME NEW s \in Sessions, RescanStarted(s) PROVE FieldsTyped'
  <2>1. CASE panic' = "nil activeSyncData" /\ UNCHANGED <<flags, objects, channels, shuttingDown>>
    BY <1>a, <2>1 DEF FieldsTyped
  <2>2. CASE CloseDiscovery /\ (syncing => active # None)
             /\ scanning' = (IF syncing THEN scanning \cup {active} ELSE scanning)
             /\ UNCHANGED <<flags, active, cancelled, closed, shuttingDown, panic>>
    <3>1. stopped' \subseteq Contexts /\ discovery' \in [Sessions -> Contexts \cup {None}]
      <4>1. CASE active # None /\ discovery[active] # None
        <5>1. active \in Sessions /\ discovery[active] \in Contexts
          BY <1>a, <4>1 DEF FieldsTyped
        <5>. QED
          BY <1>a, <2>2, <4>1, <5>1 DEF FieldsTyped, CloseDiscovery
      <4>2. CASE ~(active # None /\ discovery[active] # None)
        BY <1>a, <2>2, <4>2 DEF FieldsTyped, CloseDiscovery
      <4>. QED
        BY <4>1, <4>2
    <3>2. scanning' \subseteq Sessions
      BY <1>a, <2>2 DEF FieldsTyped
    <3>. QED
      BY <1>a, <2>2, <3>1, <3>2 DEF FieldsTyped
  <2>. QED
    BY <1>14, <2>1, <2>2 DEF RescanStarted
<1>15. ASSUME NEW s \in Sessions, RescanFinished(s) PROVE FieldsTyped'
  BY <1>a, <1>15 DEF FieldsTyped, RescanFinished
<1>16. ASSUME NEW s \in Sessions, Synced(s) PROVE FieldsTyped'
  BY <1>a, <1>16 DEF FieldsTyped, Synced
<1>17. ASSUME NEW s \in Sessions, CloseCanceled(s) PROVE FieldsTyped'
  BY <1>a, <1>17 DEF FieldsTyped, CloseCanceled
<1>18. ASSUME NEW s \in Sessions, StopUpdating(s) PROVE FieldsTyped'
  BY <1>a, <1>18 DEF FieldsTyped, StopUpdating, CloseDiscovery
<1>19. ASSUME NEW s \in Sessions, Reset(s) PROVE FieldsTyped'
  BY <1>a, <1>19 DEF FieldsTyped, Reset, ForgetCancel
<1>20. ASSUME NEW s \in Sessions, PeersLost(s) PROVE FieldsTyped'
  BY <1>a, <1>20 DEF FieldsTyped, PeersLost, Unsynced
<1>21. ASSUME NEW s \in Sessions, RunReturns(s) PROVE FieldsTyped'
  BY <1>a, <1>21 DEF FieldsTyped, RunReturns
<1>22. ASSUME NEW u \in Contexts, DiscoveryStarted(u) PROVE FieldsTyped'
  BY <1>a, <1>22 DEF FieldsTyped, DiscoveryStarted
<1>23. ASSUME NEW u \in Contexts, MarkDiscovery(u) PROVE FieldsTyped'
  BY <1>a, <1>23 DEF FieldsTyped, MarkDiscovery
<1>24. ASSUME NEW u \in Contexts, DiscoveryEnds(u) PROVE FieldsTyped'
  BY <1>a, <1>24 DEF FieldsTyped, DiscoveryEnds
<1>25. ASSUME NEW u \in Contexts, DiscoveryFinished(u) PROVE FieldsTyped'
  BY <1>a, <1>25 DEF FieldsTyped, DiscoveryFinished
<1>26. ASSUME NEW u \in Contexts, UnmarkDiscovery(u) PROVE FieldsTyped'
  BY <1>a, <1>26 DEF FieldsTyped, UnmarkDiscovery
<1>27. ASSUME NEW u \in Contexts, StopProgress(u) PROVE FieldsTyped'
  BY <1>a, <1>27 DEF FieldsTyped, StopProgress, CloseDiscovery
<1>28. ASSUME NEW c \in Discoverers, TakeSync(c) PROVE FieldsTyped'
  BY <1>a, <1>28 DEF FieldsTyped, TakeSync
<1>29. ASSUME NEW c \in Discoverers, ClearSync(c) PROVE FieldsTyped'
  BY <1>a, <1>29 DEF FieldsTyped, ClearSync, ForgetCancel
<1>30. ASSUME NEW u \in Contexts, Enter(u) PROVE FieldsTyped'
  BY <1>a, <1>30 DEF FieldsTyped, Enter
<1>31. ASSUME NEW u \in Contexts, CheckSyncing(u) PROVE FieldsTyped'
  BY <1>a, <1>31 DEF FieldsTyped, CheckSyncing
<1>32. ASSUME NEW u \in Contexts, Touch(u) PROVE FieldsTyped'
  BY <1>a, <1>32 DEF FieldsTyped, Touch
<1>33. ASSUME NEW u \in Contexts, Select(u) PROVE FieldsTyped'
  BY <1>a, <1>33 DEF FieldsTyped, Select
<1>34. ASSUME NEW u \in Contexts, Selected(u) PROVE FieldsTyped'
  BY <1>a, <1>34 DEF FieldsTyped, Selected
<1>35. ASSUME NEW u \in Contexts, Publish(u) PROVE FieldsTyped'
  BY <1>a, <1>35 DEF FieldsTyped, Publish
<1>36. CASE UNCHANGED vars
  BY <1>a, <1>36 DEF FieldsTyped, vars
<1>. QED
  BY <1>1, <1>2, <1>3, <1>4, <1>5, <1>6, <1>7, <1>8, <1>9, <1>10, <1>11,
     <1>12, <1>13, <1>14, <1>15, <1>16, <1>17, <1>18, <1>19, <1>20, <1>21,
     <1>22, <1>23, <1>24, <1>25, <1>26, <1>27, <1>28, <1>29, <1>30, <1>31,
     <1>32, <1>33, <1>34, <1>35, <1>36
     DEF Next, CallerStep, SyncerStep, JobStep, UpdaterStep

LEMMA TypeStep ==
  ASSUME IInv, [Next]_vars
  PROVE  TypeOK'
BY CallerTyped, UpdaterTyped, JobsTyped, FieldsTypedStep
   DEF JobTyped, FieldsTyped, TypeOK

\* A caller whose CancelSync is over goes on as a new one or returns.
LEMMA CancelDoneMoves ==
  ASSUME NEW c \in Callers, CancelDone(c)
  PROVE  \E r \in CallerStates :
           /\ caller' = [caller EXCEPT ![c] = r] /\ r.pc \in {"idle", "check"}
           /\ r.ctx = None
           /\ r.restart \/ r.pc = "check" => caller[c].restart
<1>1. /\ Idle \in CallerStates /\ Idle.pc = "idle" /\ Idle.ctx = None /\ ~Idle.restart
  BY IdleRecord DEF Idle
<1>2. [Idle EXCEPT !.pc = "check", !.restart = TRUE] \in CallerStates
  BY <1>1, CallerRecords, CallerStagesAre
<1>. QED
  BY <1>1, <1>2 DEF CancelDone, Idle

LEMMA PointedStep ==
  ASSUME IInv, [Next]_vars
  PROVE  Pointed'
<1>a. /\ caller \in [Callers -> CallerStates] /\ Pointed
      /\ cancelSync \in Contexts \cup {None}
  BY DEF IInv, TypeOK
<1>1. ASSUME NEW c \in Callers, CallStart(c) PROVE Pointed'
  BY <1>a, <1>1 DEF CallStart, Pointed
<1>2. ASSUME NEW c \in Callers, CallCancel(c) PROVE Pointed'
  BY <1>a, <1>2 DEF CallCancel, Pointed
<1>3. ASSUME NEW c \in Callers, CallRestart(c) PROVE Pointed'
  BY <1>a, <1>3 DEF CallRestart, Pointed
<1>4. ASSUME NEW c \in Callers, CheckStart(c) PROVE Pointed'
  BY <1>a, <1>4 DEF CheckStart, Pointed, Idle
<1>5. ASSUME NEW c \in Callers, InitActive(c) PROVE Pointed'
  BY <1>a, <1>5 DEF InitActive, Pointed
<1>6. ASSUME NEW c \in Callers, Launch(c) PROVE Pointed'
  <2>1. UNCHANGED caller \/ caller' = [caller EXCEPT ![c] = Idle]
    BY <1>6 DEF Launch
  <2>. QED
    BY <1>a, <2>1 DEF Pointed, Idle
<1>7. ASSUME NEW c \in Callers, ReadCancel(c) PROVE Pointed'
  <2>1. CASE CancelDone(c)
    BY <1>a, <2>1, CancelDoneMoves DEF Pointed
  <2>2. CASE /\ cancelSync # None
             /\ caller' = [caller EXCEPT ![c] = [@ EXCEPT !.pc = "stop", !.ctx = cancelSync]]
    BY <1>a, <2>2 DEF Pointed, CallerStates
  <2>. QED
    BY <1>7, <2>1, <2>2 DEF ReadCancel
<1>8. ASSUME NEW c \in Callers, CancelContext(c) PROVE Pointed'
  BY <1>a, <1>8 DEF CancelContext, Pointed
<1>9. ASSUME NEW c \in Callers, ReadChannel(c) PROVE Pointed'
  BY <1>a, <1>9 DEF ReadChannel, Pointed
<1>10. ASSUME NEW c \in Callers, Wait(c) PROVE Pointed'
  <2>. QED
    BY <1>a, <1>10, CancelDoneMoves DEF Wait, Pointed
<1>11. CASE UNCHANGED caller
  BY <1>a, <1>11 DEF Pointed
<1>. QED
  BY <1>1, <1>2, <1>3, <1>4, <1>5, <1>6, <1>7, <1>8, <1>9, <1>10, <1>11
     DEF vars, Next, CallerStep, SyncerStep, JobStep, UpdaterStep, CallDiscover,
         FetchStarted, FetchFinished, RescanStarted, RescanFinished, Synced,
         CloseCanceled, StopUpdating, Reset, PeersLost, RunReturns,
         DiscoveryStarted, MarkDiscovery, DiscoveryEnds, DiscoveryFinished,
         UnmarkDiscovery, StopProgress, TakeSync, ClearSync, Enter,
         CheckSyncing, Touch, Select, Selected, Publish

LEMMA LiveStep ==
  ASSUME IInv, [Next]_vars
  PROVE  FieldsAreLive'
<1>a. /\ job \in [Contexts -> RunStages \cup EndStages \cup DiscoverStages \cup {"ended"}]
      /\ caller \in [Callers -> CallerStates]
      /\ \A s \in Sessions : job[s] \in StagesOf(s)
      /\ \A c \in Discoverers : job[c] \in StagesOf(c)
  BY DEF IInv, TypeOK, StagesOf
<1>b. FieldsAreLive /\ Pointed
  BY DEF IInv
<1>c. /\ cancelSync \in Contexts \cup {None}
      /\ syncCanceled \in Sessions \cup {None} /\ active \in Sessions \cup {None}
  BY DEF IInv, TypeOK
<1>d. Sessions \cap Discoverers = {} /\ None \notin Contexts
  BY CallersAssumption
<1>1. ASSUME NEW c \in Callers, CallStart(c) PROVE FieldsAreLive'
  BY <1>b, <1>1 DEF CallStart, FieldsAreLive, JobTo
<1>2. ASSUME NEW c \in Callers, CallCancel(c) PROVE FieldsAreLive'
  BY <1>b, <1>2 DEF CallCancel, FieldsAreLive, JobTo
<1>3. ASSUME NEW c \in Callers, CallRestart(c) PROVE FieldsAreLive'
  BY <1>b, <1>3 DEF CallRestart, FieldsAreLive, JobTo, CallerStates,
     CallerStates
<1>4. ASSUME NEW c \in Callers, CallDiscover(c) PROVE FieldsAreLive'
  BY <1>b, <1>4 DEF CallDiscover, FieldsAreLive, JobTo, Unused
<1>5. ASSUME NEW c \in Callers, CheckStart(c) PROVE FieldsAreLive'
  BY <1>a, <1>b, <1>5 DEF CheckStart, FieldsAreLive, JobTo
<1>6. ASSUME NEW c \in Callers, InitActive(c) PROVE FieldsAreLive'
  BY <1>a, <1>b, <1>6 DEF InitActive, FieldsAreLive, JobTo, CallerStates,
     CallerStates
<1>7. ASSUME NEW c \in Callers, Launch(c) PROVE FieldsAreLive'
  BY <1>a, <1>b, <1>c, <1>d, <1>7 DEF Launch, FieldsAreLive, JobTo, Pointed,
     Idle
<1>8. ASSUME NEW c \in Callers, ReadCancel(c) PROVE FieldsAreLive'
  BY <1>a, <1>b, <1>8 DEF ReadCancel, FieldsAreLive, JobTo, CancelDone
<1>9. ASSUME NEW c \in Callers, CancelContext(c) PROVE FieldsAreLive'
  BY <1>b, <1>9 DEF CancelContext, FieldsAreLive, JobTo
<1>10. ASSUME NEW c \in Callers, ReadChannel(c) PROVE FieldsAreLive'
  BY <1>b, <1>10 DEF ReadChannel, FieldsAreLive, JobTo
<1>11. ASSUME NEW c \in Callers, Wait(c) PROVE FieldsAreLive'
  BY <1>a, <1>b, <1>11 DEF Wait, FieldsAreLive, JobTo, CancelDone
<1>12. ASSUME NEW s \in Sessions, FetchStarted(s) PROVE FieldsAreLive'
  BY <1>a, <1>b, <1>c, <1>12 DEF FetchStarted, FieldsAreLive, JobTo
<1>13. ASSUME NEW s \in Sessions, FetchFinished(s) PROVE FieldsAreLive'
  BY <1>a, <1>b, <1>c, <1>13 DEF FetchFinished, FieldsAreLive, JobTo
<1>14. ASSUME NEW s \in Sessions, RescanStarted(s) PROVE FieldsAreLive'
  BY <1>a, <1>b, <1>c, <1>14 DEF RescanStarted, FieldsAreLive, JobTo
<1>15. ASSUME NEW s \in Sessions, RescanFinished(s) PROVE FieldsAreLive'
  BY <1>a, <1>b, <1>c, <1>15 DEF RescanFinished, FieldsAreLive, JobTo
<1>16. ASSUME NEW s \in Sessions, Synced(s) PROVE FieldsAreLive'
  BY <1>b, <1>16 DEF Synced, FieldsAreLive, JobTo
<1>17. ASSUME NEW s \in Sessions, CloseCanceled(s) PROVE FieldsAreLive'
  BY <1>a, <1>b, <1>c, <1>17 DEF CloseCanceled, FieldsAreLive, JobTo
<1>18. ASSUME NEW s \in Sessions, StopUpdating(s) PROVE FieldsAreLive'
  BY <1>b, <1>18 DEF StopUpdating, FieldsAreLive, JobTo
<1>19. ASSUME NEW s \in Sessions, Reset(s) PROVE FieldsAreLive'
  BY <1>d, <1>19 DEF Reset, FieldsAreLive, ForgetCancel
<1>20. ASSUME NEW s \in Sessions, PeersLost(s) PROVE FieldsAreLive'
  BY <1>b, <1>20 DEF PeersLost, FieldsAreLive, JobTo
<1>21. ASSUME NEW s \in Sessions, RunReturns(s) PROVE FieldsAreLive'
  BY <1>b, <1>21, StagesAre DEF RunReturns, FieldsAreLive, JobTo
<1>22. ASSUME NEW u \in Contexts, DiscoveryStarted(u) PROVE FieldsAreLive'
  <2>1. job' = [job EXCEPT ![u] = "discovering"] \/ job' = [job EXCEPT ![u] = "mark"]
        \/ UNCHANGED job
    BY <1>22 DEF DiscoveryStarted, JobTo
  <2>2. UNCHANGED <<cancelSync, syncCanceled, active, caller>>
    BY <1>22 DEF DiscoveryStarted
  <2>. QED
    BY <1>a, <1>b, <1>c, <2>1, <2>2 DEF FieldsAreLive
<1>23. ASSUME NEW u \in Contexts, MarkDiscovery(u) PROVE FieldsAreLive'
  BY <1>a, <1>b, <1>c, <1>23 DEF MarkDiscovery, FieldsAreLive, JobTo
<1>24. ASSUME NEW u \in Contexts, DiscoveryEnds(u) PROVE FieldsAreLive'
  BY <1>b, <1>24 DEF DiscoveryEnds, FieldsAreLive, JobTo, Discovered
<1>25. ASSUME NEW u \in Contexts, DiscoveryFinished(u) PROVE FieldsAreLive'
  BY <1>b, <1>c, <1>25, StagesAre DEF DiscoveryFinished, FieldsAreLive, JobTo,
     AfterDiscovery
<1>26. ASSUME NEW u \in Contexts, UnmarkDiscovery(u) PROVE FieldsAreLive'
  BY <1>a, <1>b, <1>c, <1>26 DEF UnmarkDiscovery, FieldsAreLive, JobTo
<1>27. ASSUME NEW u \in Contexts, StopProgress(u) PROVE FieldsAreLive'
  BY <1>b, <1>c, <1>27, StagesAre DEF StopProgress, FieldsAreLive, JobTo,
     AfterDiscovery
<1>28. ASSUME NEW c \in Discoverers, TakeSync(c) PROVE FieldsAreLive'
  BY <1>a, <1>b, <1>28 DEF TakeSync, FieldsAreLive, JobTo
<1>29. ASSUME NEW c \in Discoverers, ClearSync(c) PROVE FieldsAreLive'
  BY <1>b, <1>d, <1>29 DEF ClearSync, FieldsAreLive, JobTo, ForgetCancel
<1>30. ASSUME NEW u \in Contexts, Enter(u) PROVE FieldsAreLive'
  BY <1>b, <1>30 DEF Enter, FieldsAreLive, JobTo
<1>31. ASSUME NEW u \in Contexts, CheckSyncing(u) PROVE FieldsAreLive'
  BY <1>b, <1>31 DEF CheckSyncing, FieldsAreLive, JobTo
<1>32. ASSUME NEW u \in Contexts, Touch(u) PROVE FieldsAreLive'
  BY <1>b, <1>32 DEF Touch, FieldsAreLive, JobTo
<1>33. ASSUME NEW u \in Contexts, Select(u) PROVE FieldsAreLive'
  BY <1>b, <1>33 DEF Select, FieldsAreLive, JobTo
<1>34. ASSUME NEW u \in Contexts, Selected(u) PROVE FieldsAreLive'
  BY <1>b, <1>34 DEF Selected, FieldsAreLive, JobTo
<1>35. ASSUME NEW u \in Contexts, Publish(u) PROVE FieldsAreLive'
  BY <1>b, <1>35 DEF Publish, FieldsAreLive, JobTo
<1>36. CASE UNCHANGED vars
  BY <1>b, <1>36 DEF FieldsAreLive, vars
<1>. QED
  BY <1>1, <1>2, <1>3, <1>4, <1>5, <1>6, <1>7, <1>8, <1>9, <1>10, <1>11,
     <1>12, <1>13, <1>14, <1>15, <1>16, <1>17, <1>18, <1>19, <1>20, <1>21,
     <1>22, <1>23, <1>24, <1>25, <1>26, <1>27, <1>28, <1>29, <1>30, <1>31,
     <1>32, <1>33, <1>34, <1>35, <1>36
     DEF Next, CallerStep, SyncerStep, JobStep, UpdaterStep

\* IInv holds in every state, whatever starts, cancels and discovers at once.
THEOREM Inductive == Spec => []IInv
<1>1. Init => IInv
  <2>. SUFFICES ASSUME Init PROVE IInv
    OBVIOUS
  <2>1. TypeOK
    BY IdleRecord, UpdaterRecords, CallersAssumption
       DEF Init, TypeOK, RunStages, NoUpdater, UpdaterStates, UpdaterStages
  <2>2. FieldsAreLive
    BY CallersAssumption DEF Init, FieldsAreLive
  <2>3. Pointed
    BY DEF Init, Pointed, Idle
  <2>. QED
    BY <2>1, <2>2, <2>3 DEF IInv
<1>2. IInv /\ [Next]_vars => IInv'
  BY TypeStep, LiveStep, PointedStep DEF IInv
<1>. QED
  BY <1>1, <1>2, PTL DEF Spec

\* Every field of SyncData has its type.
THEOREM TypeCorrect == Spec => []TypeOK
<1>1. IInv => TypeOK
  BY DEF IInv
<1>. QED
  BY <1>1, Inductive, PTL

\* A field of SyncData never names a goroutine that is gone: what is left of an
\* ended session is cleared.
THEOREM FieldsStayLive == Spec => []FieldsAreLive
<1>1. IInv => FieldsAreLive
  BY DEF IInv
<1>. QED
  BY <1>1, Inductive, PTL

-----------------------------------------------------------------------------
(* With one starter and no DiscoverUsage *)

LEMMA StartersStartStep ==
  ASSUME OneStarter, IInv, OneStarterInv, [Next]_vars
  PROVE  StartersStart'
<1>a. /\ caller \in [Callers -> CallerStates] /\ StartersStart
      /\ Starters \subseteq Callers
  BY CallersAssumption DEF IInv, TypeOK, OneStarterInv
<1>1. ASSUME NEW c \in Callers, CallStart(c) PROVE StartersStart'
  BY <1>a, <1>1 DEF CallStart, StartersStart
<1>2. ASSUME NEW c \in Callers, CallCancel(c) PROVE StartersStart'
  BY <1>a, <1>2 DEF CallCancel, StartersStart
<1>3. ASSUME NEW c \in Callers, CallRestart(c) PROVE StartersStart'
  BY <1>a, <1>3 DEF CallRestart, StartersStart
<1>4. ASSUME NEW c \in Callers, CheckStart(c) PROVE StartersStart'
  BY <1>a, <1>4 DEF CheckStart, StartersStart
<1>5. ASSUME NEW c \in Callers, InitActive(c) PROVE StartersStart'
  BY <1>a, <1>5 DEF InitActive, StartersStart
<1>6. ASSUME NEW c \in Callers, Launch(c) PROVE StartersStart'
  <2>1. UNCHANGED caller \/ caller' = [caller EXCEPT ![c] = Idle]
    BY <1>6 DEF Launch
  <2>. QED
    BY <1>a, <2>1 DEF StartersStart, Idle
<1>7. ASSUME NEW c \in Callers, ReadCancel(c) PROVE StartersStart'
  <2>1. CASE CancelDone(c)
    BY <1>a, <2>1, CancelDoneMoves DEF StartersStart
  <2>2. CASE caller' = [caller EXCEPT ![c] = [@ EXCEPT !.pc = "stop", !.ctx = cancelSync]]
    BY <1>a, <2>2 DEF StartersStart, CallerStates
  <2>. QED
    BY <1>7, <2>1, <2>2 DEF ReadCancel
<1>8. ASSUME NEW c \in Callers, CancelContext(c) PROVE StartersStart'
  BY <1>a, <1>8 DEF CancelContext, StartersStart
<1>9. ASSUME NEW c \in Callers, ReadChannel(c) PROVE StartersStart'
  BY <1>a, <1>9 DEF ReadChannel, StartersStart
<1>10. ASSUME NEW c \in Callers, Wait(c) PROVE StartersStart'
  <2>1. CancelDone(c)
    BY <1>10 DEF Wait
  <2>. QED
    BY <1>a, <2>1, CancelDoneMoves DEF StartersStart
<1>11. CASE UNCHANGED caller
  BY <1>a, <1>11 DEF StartersStart
<1>. QED
  BY <1>1, <1>2, <1>3, <1>4, <1>5, <1>6, <1>7, <1>8, <1>9, <1>10, <1>11
     DEF vars, Next, CallerStep, SyncerStep, JobStep, UpdaterStep, CallDiscover,
         FetchStarted, FetchFinished, RescanStarted, RescanFinished, Synced,
         CloseCanceled, StopUpdating, Reset, PeersLost, RunReturns,
         DiscoveryStarted, MarkDiscovery, DiscoveryEnds, DiscoveryFinished,
         UnmarkDiscovery, StopProgress, TakeSync, ClearSync, Enter,
         CheckSyncing, Touch, Select, Selected, Publish

\* A syncer that goes on to another callback keeps the fields.
LEMMA SyncerGoesOn ==
  ASSUME SessionOwnsFields, NEW s \in Sessions,
         NEW stage \in RunStages \ {"up", "lost"},
         job[s] \in RunStages \ {"up", "lost"},
         job \in [Contexts -> RunStages \cup EndStages \cup DiscoverStages \cup {"ended"}],
         UNCHANGED job \/ JobTo(s, stage),
         UNCHANGED <<cancelSync, syncCanceled, syncing, synced, closed>>
  PROVE  SessionOwnsFields'
BY DEF SessionOwnsFields, JobTo, RunStages, Callbacks

LEMMA SessionOwnsFieldsStep ==
  ASSUME OneStarter, IInv, OneStarterInv, [Next]_vars
  PROVE  SessionOwnsFields'
<1>a. /\ job \in [Contexts -> RunStages \cup EndStages \cup DiscoverStages \cup {"ended"}]
      /\ SessionOwnsFields /\ Contexts = Sessions /\ None \notin Sessions
  BY CallersAssumption DEF IInv, TypeOK, OneStarterInv, OneStarter
<1>b. StartsAlone /\ Pointed /\ FieldsAreLive
  BY DEF IInv, OneStarterInv
<1>c. Discoverers = {}
  BY DEF OneStarter
<1>d. RunStages = {"fetch", "fetched", "discover", "discovering", "finish", "rescan",
                   "rescanning", "complete", "up", "lost", "mark", "unmark", "stopProgress"}
  BY DEF RunStages, Callbacks
<1>1. ASSUME NEW c \in Callers, Launch(c) PROVE SessionOwnsFields'
  BY <1>a, <1>b, <1>1 DEF Launch, SessionOwnsFields, JobTo, StartsAlone
<1>2. ASSUME NEW c \in Callers, InitActive(c) PROVE SessionOwnsFields'
  BY <1>a, <1>2 DEF InitActive, SessionOwnsFields, JobTo
<1>3. ASSUME NEW c \in Callers, CallDiscover(c) PROVE SessionOwnsFields'
  BY <1>c, <1>3 DEF CallDiscover
<1>4. ASSUME NEW s \in Sessions, FetchStarted(s) PROVE SessionOwnsFields'
  <2>1. UNCHANGED job \/ JobTo(s, "fetched")
    BY <1>a, <1>c, <1>4 DEF FetchStarted, JobTo
  <2>2. job[s] = "fetch" /\ UNCHANGED <<cancelSync, syncCanceled, syncing, synced, closed>>
    BY <1>4 DEF FetchStarted
  <2>. QED
    BY <1>a, <1>d, <2>1, <2>2, SyncerGoesOn
<1>5. ASSUME NEW s \in Sessions, FetchFinished(s) PROVE SessionOwnsFields'
  <2>1. UNCHANGED job \/ JobTo(s, "discover")
        \/ JobTo(s, "complete")
    BY <1>a, <1>c, <1>5 DEF FetchFinished, JobTo
  <2>2. job[s] = "fetched" /\ UNCHANGED <<cancelSync, syncCanceled, syncing, synced, closed>>
    BY <1>5 DEF FetchFinished
  <2>. QED
    BY <1>a, <1>d, <2>1, <2>2, SyncerGoesOn
<1>6. ASSUME NEW s \in Sessions, RescanStarted(s) PROVE SessionOwnsFields'
  <2>1. UNCHANGED job \/ JobTo(s, "rescanning")
    BY <1>a, <1>c, <1>6 DEF RescanStarted, JobTo
  <2>2. job[s] = "rescan" /\ UNCHANGED <<cancelSync, syncCanceled, syncing, synced, closed>>
    BY <1>6 DEF RescanStarted
  <2>. QED
    BY <1>a, <1>d, <2>1, <2>2, SyncerGoesOn
<1>7. ASSUME NEW s \in Sessions, RescanFinished(s) PROVE SessionOwnsFields'
  <2>1. UNCHANGED job \/ JobTo(s, "complete")
    BY <1>a, <1>c, <1>7 DEF RescanFinished, JobTo
  <2>2. job[s] = "rescanning" /\ UNCHANGED <<cancelSync, syncCanceled, syncing, synced, closed>>
    BY <1>7 DEF RescanFinished
  <2>. QED
    BY <1>a, <1>d, <2>1, <2>2, SyncerGoesOn
<1>8. ASSUME NEW s \in Sessions, Synced(s) PROVE SessionOwnsFields'
  BY <1>a, <1>d, <1>8 DEF Synced, SessionOwnsFields, JobTo
<1>9. ASSUME NEW s \in Sessions, CloseCanceled(s) PROVE SessionOwnsFields'
  <2>1. job[s] = "returned" /\ UNCHANGED <<cancelSync, syncCanceled, syncing, synced>>
    BY <1>9 DEF CloseCanceled
  <2>2. \/ UNCHANGED <<job, closed>>
        \/ /\ job' = [job EXCEPT ![s] = "closed"]
           /\ closed' = closed \cup {syncCanceled}
    <3>1. CASE syncCanceled \in closed \cup {None}
      BY <1>9, <3>1 DEF CloseCanceled
    <3>2. CASE syncCanceled \notin closed \cup {None}
      BY <1>9, <3>2 DEF CloseCanceled, JobTo
    <3>. QED
      BY <3>1, <3>2
  <2>3. \A r \in Sessions \ {s} : job[r] = "ended"
    BY <1>a, <2>1 DEF SessionOwnsFields
  <2>. QED
    BY <1>a, <1>d, <2>1, <2>2 DEF SessionOwnsFields
<1>10. ASSUME NEW s \in Sessions, StopUpdating(s) PROVE SessionOwnsFields'
  BY <1>a, <1>d, <1>10 DEF StopUpdating, SessionOwnsFields, JobTo
<1>11. ASSUME NEW s \in Sessions, Reset(s) PROVE SessionOwnsFields'
  BY <1>a, <1>11 DEF Reset, SessionOwnsFields, JobTo
<1>12. ASSUME NEW s \in Sessions, PeersLost(s) PROVE SessionOwnsFields'
  BY <1>a, <1>d, <1>12 DEF PeersLost, SessionOwnsFields, JobTo, Unsynced
<1>13. ASSUME NEW s \in Sessions, RunReturns(s) PROVE SessionOwnsFields'
  BY <1>a, <1>d, <1>13 DEF RunReturns, SessionOwnsFields, JobTo
<1>14. ASSUME NEW u \in Contexts, DiscoveryStarted(u) PROVE SessionOwnsFields'
  <2>1. UNCHANGED job \/ JobTo(u, "mark")
        \/ JobTo(u, "discovering")
    BY <1>a, <1>c, <1>14 DEF DiscoveryStarted, JobTo
  <2>2. job[u] = "discover" /\ UNCHANGED <<cancelSync, syncCanceled, syncing, synced, closed>>
    BY <1>14 DEF DiscoveryStarted
  <2>. QED
    BY <1>a, <1>d, <2>1, <2>2, SyncerGoesOn
<1>15. ASSUME NEW u \in Contexts, MarkDiscovery(u) PROVE SessionOwnsFields'
  <2>1. UNCHANGED job \/ JobTo(u, "discovering")
    BY <1>a, <1>c, <1>15 DEF MarkDiscovery, JobTo
  <2>2. job[u] = "mark" /\ UNCHANGED <<cancelSync, syncCanceled, syncing, synced, closed>>
    BY <1>15 DEF MarkDiscovery
  <2>. QED
    BY <1>a, <1>d, <2>1, <2>2, SyncerGoesOn
<1>16. ASSUME NEW u \in Contexts, DiscoveryEnds(u) PROVE SessionOwnsFields'
  <2>1. UNCHANGED job \/ JobTo(u, "finish")
    BY <1>a, <1>c, <1>16 DEF DiscoveryEnds, JobTo, Discovered
  <2>2. job[u] = "discovering" /\ UNCHANGED <<cancelSync, syncCanceled, syncing, synced, closed>>
    BY <1>16 DEF DiscoveryEnds
  <2>. QED
    BY <1>a, <1>d, <2>1, <2>2, SyncerGoesOn
<1>17. ASSUME NEW u \in Contexts, DiscoveryFinished(u) PROVE SessionOwnsFields'
  <2>1. UNCHANGED job \/ JobTo(u, "unmark")
        \/ JobTo(u, "rescan")
    BY <1>a, <1>c, <1>17 DEF DiscoveryFinished, JobTo, AfterDiscovery
  <2>2. job[u] = "finish" /\ UNCHANGED <<cancelSync, syncCanceled, syncing, synced, closed>>
    BY <1>17 DEF DiscoveryFinished
  <2>. QED
    BY <1>a, <1>d, <2>1, <2>2, SyncerGoesOn
<1>18. ASSUME NEW u \in Contexts, UnmarkDiscovery(u) PROVE SessionOwnsFields'
  <2>1. UNCHANGED job \/ JobTo(u, "stopProgress")
    BY <1>a, <1>c, <1>18 DEF UnmarkDiscovery, JobTo
  <2>2. job[u] = "unmark" /\ UNCHANGED <<cancelSync, syncCanceled, syncing, synced, closed>>
    BY <1>18 DEF UnmarkDiscovery
  <2>. QED
    BY <1>a, <1>d, <2>1, <2>2, SyncerGoesOn
<1>19. ASSUME NEW u \in Contexts, StopProgress(u) PROVE SessionOwnsFields'
  <2>1. UNCHANGED job \/ JobTo(u, "rescan")
    BY <1>a, <1>c, <1>19 DEF StopProgress, JobTo, AfterDiscovery
  <2>2. job[u] = "stopProgress" /\ UNCHANGED <<cancelSync, syncCanceled, syncing, synced, closed>>
    BY <1>19 DEF StopProgress
  <2>. QED
    BY <1>a, <1>d, <2>1, <2>2, SyncerGoesOn
<1>20. ASSUME NEW c \in Discoverers, TakeSync(c) PROVE SessionOwnsFields'
  BY <1>c
<1>21. ASSUME NEW c \in Discoverers, ClearSync(c) PROVE SessionOwnsFields'
  BY <1>c
<1>22. CASE UNCHANGED <<job, cancelSync, syncCanceled, syncing, synced, closed>>
  BY <1>a, <1>22 DEF SessionOwnsFields
<1>. QED
  BY <1>1, <1>2, <1>3, <1>4, <1>5, <1>6, <1>7, <1>8, <1>9, <1>10, <1>11,
     <1>12, <1>13, <1>14, <1>15, <1>16, <1>17, <1>18, <1>19, <1>20, <1>21,
     <1>22
     DEF vars, Next, CallerStep, SyncerStep, JobStep, UpdaterStep, CancelDone,
         CallStart, CallCancel, CallRestart, CheckStart, ReadCancel,
         CancelContext, ReadChannel, Wait, Enter, CheckSyncing, Touch, Select,
         Selected, Publish

LEMMA ShownSessionExistsStep ==
  ASSUME OneStarter, IInv, OneStarterInv, [Next]_vars
  PROVE  ShownSessionExists'
<1>a. ShownSessionExists /\ Pointed /\ SessionOwnsFields
  BY DEF IInv, OneStarterInv
<1>b. Discoverers = {}
  BY DEF OneStarter
<1>c. "complete" # "ended" /\ "up" # "ended"
  OBVIOUS
<1>1. ASSUME NEW c \in Callers, Launch(c) PROVE ShownSessionExists'
  BY <1>a, <1>1 DEF Launch, ShownSessionExists, Pointed
<1>2. ASSUME NEW s \in Sessions, Synced(s) PROVE ShownSessionExists'
  BY <1>a, <1>2 DEF Synced, ShownSessionExists, SessionOwnsFields
<1>3. ASSUME NEW s \in Sessions, PeersLost(s) PROVE ShownSessionExists'
  BY <1>a, <1>3 DEF PeersLost, ShownSessionExists, SessionOwnsFields
<1>4. ASSUME NEW s \in Sessions, Reset(s) PROVE ShownSessionExists'
  BY <1>4 DEF Reset, ShownSessionExists
<1>5. ASSUME NEW c \in Callers, CallDiscover(c) PROVE ShownSessionExists'
  BY <1>b, <1>5 DEF CallDiscover
<1>6. ASSUME NEW c \in Discoverers, TakeSync(c) PROVE ShownSessionExists'
  BY <1>b
<1>7. ASSUME NEW c \in Discoverers, ClearSync(c) PROVE ShownSessionExists'
  BY <1>b
<1>8. CASE UNCHANGED <<cancelSync, syncing, synced>>
  BY <1>a, <1>8 DEF ShownSessionExists
<1>. QED
  BY <1>1, <1>2, <1>3, <1>4, <1>5, <1>6, <1>7, <1>8
     DEF vars, Next, CallerStep, SyncerStep, JobStep, UpdaterStep, CancelDone,
         ForgetCancel, CallStart, CallCancel, CallRestart, CheckStart,
         InitActive, ReadCancel, CancelContext, ReadChannel, Wait, FetchStarted,
         FetchFinished, RescanStarted, RescanFinished, CloseCanceled,
         StopUpdating, RunReturns, DiscoveryStarted, MarkDiscovery,
         DiscoveryEnds, DiscoveryFinished, UnmarkDiscovery, StopProgress, Enter,
         CheckSyncing, Touch, Select, Selected, Publish

LEMMA StartsAloneStep ==
  ASSUME OneStarter, IInv, OneStarterInv, [Next]_vars
  PROVE  StartsAlone'
<1>a. /\ StartsAlone /\ SessionOwnsFields /\ ShownSessionExists /\ StartersStart
      /\ Pointed /\ FieldsAreLive /\ caller \in [Callers -> CallerStates]
      /\ None \notin Sessions /\ cancelSync \in Sessions \cup {None}
  BY CallersAssumption DEF IInv, TypeOK, OneStarterInv, OneStarter
<1>b. \A c, d \in Starters : c = d
  BY DEF OneStarter
<1>c. Discoverers = {}
  BY DEF OneStarter
<1>1. ASSUME NEW c \in Callers, CallStart(c) PROVE StartsAlone'
  BY <1>a, <1>1 DEF CallStart, StartsAlone
<1>2. ASSUME NEW c \in Callers, CallCancel(c) PROVE StartsAlone'
  BY <1>a, <1>2 DEF CallCancel, StartsAlone
<1>3. ASSUME NEW c \in Callers, CallRestart(c) PROVE StartsAlone'
  BY <1>a, <1>3 DEF CallRestart, StartsAlone
<1>4. ASSUME NEW c \in Callers, CheckStart(c) PROVE StartsAlone'
  BY <1>a, <1>b, <1>4 DEF CheckStart, StartsAlone, StartersStart, MayStart, Idle
<1>5. ASSUME NEW c \in Callers, InitActive(c) PROVE StartsAlone'
  BY <1>a, <1>5 DEF InitActive, StartsAlone, Unused
<1>6. ASSUME NEW c \in Callers, Launch(c) PROVE StartsAlone'
  <2>1. \/ UNCHANGED <<caller, syncing, synced, closed>>
        \/ /\ caller' = [caller EXCEPT ![c] = Idle] /\ UNCHANGED closed
    BY <1>6 DEF Launch
  <2>2. \A d \in Callers \ {c} : caller[d].pc \notin {"init", "launch"}
    BY <1>a, <1>b, <1>6 DEF Launch, StartersStart
  <2>. QED
    BY <1>a, <2>1, <2>2 DEF StartsAlone, Idle
<1>7. ASSUME NEW c \in Callers, ReadCancel(c) PROVE StartsAlone'
  <2>1. UNCHANGED <<syncing, synced, closed>>
    BY <1>7 DEF ReadCancel
  <2>2. \A d \in Callers : caller[d].pc = "launch" => caller[d].ctx \in Sessions
    BY <1>a DEF Pointed
  <2>3. CASE CancelDone(c)
    BY <1>a, <2>1, <2>2, <2>3, CancelDoneMoves DEF StartsAlone
  <2>4. CASE /\ cancelSync # None
             /\ caller' = [caller EXCEPT ![c] = [@ EXCEPT !.pc = "stop", !.ctx = cancelSync]]
    <3>1. syncing \/ synced
      BY <1>a, <2>4 DEF SessionOwnsFields, FieldsAreLive
    <3>2. \A d \in Callers : caller[d].pc \notin {"init", "launch"}
      BY <1>a, <3>1 DEF StartsAlone
    <3>. QED
      BY <1>a, <2>4, <3>2 DEF StartsAlone, CallerStates
  <2>. QED
    BY <1>7, <2>3, <2>4 DEF ReadCancel
<1>8. ASSUME NEW c \in Callers, CancelContext(c) PROVE StartsAlone'
  BY <1>a, <1>8 DEF CancelContext, StartsAlone
<1>9. ASSUME NEW c \in Callers, ReadChannel(c) PROVE StartsAlone'
  BY <1>a, <1>9 DEF ReadChannel, StartsAlone
<1>10. ASSUME NEW c \in Callers, Wait(c) PROVE StartsAlone'
  <2>1. CancelDone(c) /\ UNCHANGED <<syncing, synced, closed>>
    BY <1>10 DEF Wait
  <2>2. \A d \in Callers : caller[d].pc = "launch" => caller[d].ctx \in Sessions
    BY <1>a DEF Pointed
  <2>. QED
    BY <1>a, <2>1, <2>2, CancelDoneMoves DEF StartsAlone
<1>11. ASSUME NEW s \in Sessions, CloseCanceled(s) PROVE StartsAlone'
  BY <1>a, <1>11 DEF CloseCanceled, StartsAlone, SessionOwnsFields
<1>12. ASSUME NEW s \in Sessions, Synced(s) PROVE StartsAlone'
  BY <1>a, <1>12 DEF Synced, StartsAlone, SessionOwnsFields
<1>13. ASSUME NEW s \in Sessions, PeersLost(s) PROVE StartsAlone'
  BY <1>a, <1>13 DEF PeersLost, StartsAlone, SessionOwnsFields
<1>14. ASSUME NEW s \in Sessions, Reset(s) PROVE StartsAlone'
  BY <1>a, <1>14 DEF Reset, StartsAlone
<1>15. ASSUME NEW c \in Callers, CallDiscover(c) PROVE StartsAlone'
  BY <1>c, <1>15 DEF CallDiscover
<1>16. ASSUME NEW c \in Discoverers, TakeSync(c) PROVE StartsAlone'
  BY <1>c
<1>17. ASSUME NEW c \in Discoverers, ClearSync(c) PROVE StartsAlone'
  BY <1>c
<1>18. CASE UNCHANGED <<caller, syncing, synced, closed>>
  BY <1>a, <1>18 DEF StartsAlone
<1>. QED
  BY <1>1, <1>2, <1>3, <1>4, <1>5, <1>6, <1>7, <1>8, <1>9, <1>10, <1>11,
     <1>12, <1>13, <1>14, <1>15, <1>16, <1>17, <1>18
     DEF vars, Next, CallerStep, SyncerStep, JobStep, UpdaterStep, FetchStarted,
         FetchFinished, RescanStarted, RescanFinished, StopUpdating, RunReturns,
         DiscoveryStarted, MarkDiscovery, DiscoveryEnds, DiscoveryFinished,
         UnmarkDiscovery, StopProgress, Enter, CheckSyncing, Touch, Select,
         Selected, Publish

LEMMA WaitsStep ==
  ASSUME OneStarter, IInv, OneStarterInv, [Next]_vars
  PROVE  WaitsOnItsChannel'
<1>a. /\ caller \in [Callers -> CallerStates] /\ job \in [Contexts -> RunStages \cup EndStages \cup DiscoverStages \cup {"ended"}]
      /\ WaitsOnItsChannel /\ SessionOwnsFields /\ Contexts = Sessions /\ None \notin Sessions
  BY CallersAssumption DEF IInv, TypeOK, OneStarterInv, OneStarter
<1>b. StartsAlone /\ Pointed /\ FieldsAreLive
  BY DEF IInv, OneStarterInv
<1>c. Discoverers = {}
  BY DEF OneStarter
<1>d. RunStages = {"fetch", "fetched", "discover", "discovering", "finish", "rescan",
                   "rescanning", "complete", "up", "lost", "mark", "unmark", "stopProgress"}
  BY DEF RunStages, Callbacks
<1>1. ASSUME NEW c \in Callers, CallStart(c) PROVE WaitsOnItsChannel'
  BY <1>a, <1>1 DEF CallStart, WaitsOnItsChannel, JobTo
<1>2. ASSUME NEW c \in Callers, CallCancel(c) PROVE WaitsOnItsChannel'
  BY <1>a, <1>2 DEF CallCancel, WaitsOnItsChannel, JobTo
<1>3. ASSUME NEW c \in Callers, CallRestart(c) PROVE WaitsOnItsChannel'
  BY <1>a, <1>3 DEF CallRestart, WaitsOnItsChannel, JobTo
<1>4. ASSUME NEW c \in Callers, CheckStart(c) PROVE WaitsOnItsChannel'
  BY <1>a, <1>4 DEF CheckStart, WaitsOnItsChannel, JobTo, Idle
<1>5. ASSUME NEW c \in Callers, InitActive(c) PROVE WaitsOnItsChannel'
  BY <1>a, <1>5 DEF InitActive, WaitsOnItsChannel, JobTo
<1>6. ASSUME NEW c \in Callers, Launch(c) PROVE WaitsOnItsChannel'
  <2>1. \/ UNCHANGED <<caller, job>>
        \/ /\ caller' = [caller EXCEPT ![c] = Idle]
           /\ job' = [job EXCEPT ![caller[c].ctx] = "fetch"]
    BY <1>6 DEF Launch, JobTo
  <2>2. \A d \in Callers \ {c} : caller[d].ctx # caller[c].ctx
    BY <1>b, <1>6 DEF Launch, StartsAlone
  <2>. QED
    BY <1>a, <2>1, <2>2 DEF WaitsOnItsChannel, Idle
<1>7. ASSUME NEW c \in Callers, ReadCancel(c) PROVE WaitsOnItsChannel'
  <2>3. UNCHANGED job
    BY <1>7 DEF ReadCancel
  <2>1. CASE CancelDone(c)
    BY <1>a, <2>1, <2>3, CancelDoneMoves DEF WaitsOnItsChannel
  <2>2. CASE caller' = [caller EXCEPT ![c] = [@ EXCEPT !.pc = "stop", !.ctx = cancelSync]]
    BY <1>a, <2>2, <2>3 DEF WaitsOnItsChannel, CallerStates
  <2>. QED
    BY <1>7, <2>1, <2>2 DEF ReadCancel
<1>8. ASSUME NEW c \in Callers, CancelContext(c) PROVE WaitsOnItsChannel'
  BY <1>a, <1>8 DEF CancelContext, WaitsOnItsChannel, JobTo
<1>9. ASSUME NEW c \in Callers, ReadChannel(c) PROVE WaitsOnItsChannel'
  BY <1>a, <1>9 DEF ReadChannel, WaitsOnItsChannel, JobTo, SessionOwnsFields
<1>10. ASSUME NEW c \in Callers, Wait(c) PROVE WaitsOnItsChannel'
  <2>1. CancelDone(c) /\ UNCHANGED job
    BY <1>10 DEF Wait
  <2>. QED
    BY <1>a, <2>1, CancelDoneMoves DEF WaitsOnItsChannel
<1>11. ASSUME NEW c \in Callers, CallDiscover(c) PROVE WaitsOnItsChannel'
  BY <1>c, <1>11 DEF CallDiscover
<1>12. ASSUME NEW s \in Sessions, FetchStarted(s) PROVE WaitsOnItsChannel'
  BY <1>a, <1>12 DEF FetchStarted, WaitsOnItsChannel, JobTo
<1>13. ASSUME NEW s \in Sessions, FetchFinished(s) PROVE WaitsOnItsChannel'
  BY <1>a, <1>13 DEF FetchFinished, WaitsOnItsChannel, JobTo
<1>14. ASSUME NEW s \in Sessions, RescanStarted(s) PROVE WaitsOnItsChannel'
  BY <1>a, <1>14 DEF RescanStarted, WaitsOnItsChannel, JobTo
<1>15. ASSUME NEW s \in Sessions, RescanFinished(s) PROVE WaitsOnItsChannel'
  BY <1>a, <1>15 DEF RescanFinished, WaitsOnItsChannel, JobTo
<1>16. ASSUME NEW s \in Sessions, Synced(s) PROVE WaitsOnItsChannel'
  BY <1>a, <1>16 DEF Synced, WaitsOnItsChannel, JobTo
<1>17. ASSUME NEW s \in Sessions, CloseCanceled(s) PROVE WaitsOnItsChannel'
  BY <1>a, <1>17 DEF CloseCanceled, WaitsOnItsChannel, JobTo
<1>18. ASSUME NEW s \in Sessions, StopUpdating(s) PROVE WaitsOnItsChannel'
  BY <1>a, <1>18 DEF StopUpdating, WaitsOnItsChannel, JobTo
<1>19. ASSUME NEW s \in Sessions, Reset(s) PROVE WaitsOnItsChannel'
  BY <1>a, <1>19 DEF Reset, WaitsOnItsChannel, JobTo
<1>20. ASSUME NEW s \in Sessions, PeersLost(s) PROVE WaitsOnItsChannel'
  BY <1>a, <1>20 DEF PeersLost, WaitsOnItsChannel, JobTo
<1>21. ASSUME NEW s \in Sessions, RunReturns(s) PROVE WaitsOnItsChannel'
  BY <1>a, <1>d, <1>21 DEF RunReturns, WaitsOnItsChannel, JobTo
<1>22. ASSUME NEW u \in Contexts, DiscoveryStarted(u) PROVE WaitsOnItsChannel'
  BY <1>a, <1>22 DEF DiscoveryStarted, WaitsOnItsChannel, JobTo
<1>23. ASSUME NEW u \in Contexts, MarkDiscovery(u) PROVE WaitsOnItsChannel'
  BY <1>a, <1>23 DEF MarkDiscovery, WaitsOnItsChannel, JobTo
<1>24. ASSUME NEW u \in Contexts, DiscoveryEnds(u) PROVE WaitsOnItsChannel'
  BY <1>a, <1>24 DEF DiscoveryEnds, WaitsOnItsChannel, JobTo
<1>25. ASSUME NEW u \in Contexts, DiscoveryFinished(u) PROVE WaitsOnItsChannel'
  BY <1>a, <1>25 DEF DiscoveryFinished, WaitsOnItsChannel, JobTo
<1>26. ASSUME NEW u \in Contexts, UnmarkDiscovery(u) PROVE WaitsOnItsChannel'
  BY <1>a, <1>26 DEF UnmarkDiscovery, WaitsOnItsChannel, JobTo
<1>27. ASSUME NEW u \in Contexts, StopProgress(u) PROVE WaitsOnItsChannel'
  BY <1>a, <1>27 DEF StopProgress, WaitsOnItsChannel, JobTo
<1>28. ASSUME NEW c \in Discoverers, TakeSync(c) PROVE WaitsOnItsChannel'
  BY <1>c
<1>29. ASSUME NEW c \in Discoverers, ClearSync(c) PROVE WaitsOnItsChannel'
  BY <1>c
<1>30. CASE UNCHANGED <<job, caller>>
  BY <1>a, <1>30 DEF WaitsOnItsChannel
<1>. QED
  BY <1>1, <1>2, <1>3, <1>4, <1>5, <1>6, <1>7, <1>8, <1>9, <1>10, <1>11,
     <1>12, <1>13, <1>14, <1>15, <1>16, <1>17, <1>18, <1>19, <1>20, <1>21,
     <1>22, <1>23, <1>24, <1>25, <1>26, <1>27, <1>28, <1>29, <1>30
     DEF vars, Next, CallerStep, SyncerStep, JobStep, UpdaterStep, Enter,
         CheckSyncing, Touch, Select, Selected, Publish

\* close(syncCanceled) meets the open channel of the session that ends.
LEMMA NeverClosedTwice ==
  ASSUME OneStarter, IInv, OneStarterInv, [Next]_vars
  PROVE  panic' # "bad close of syncCanceled"
<1>1. ASSUME NEW s \in Sessions, CloseCanceled(s)
      PROVE  panic' # "bad close of syncCanceled"
  <2>1. job[s] = "returned" /\ panic # "bad close of syncCanceled"
    BY <1>1 DEF CloseCanceled, OneStarterInv
  <2>2. syncCanceled = s /\ s \notin closed /\ s # None
    BY <2>1, CallersAssumption DEF OneStarterInv, SessionOwnsFields
  <2>. QED
    BY <1>1, <2>2 DEF CloseCanceled
<1>2. CASE ~ \E s \in Sessions : CloseCanceled(s)
  <2>1. panic' \in {panic, "nil activeSyncData"}
    BY <1>2 DEF vars, Next, CallerStep, SyncerStep, JobStep, UpdaterStep,
       CancelDone, CallStart, CallCancel, CallRestart, CallDiscover,
       CheckStart, InitActive, Launch, ReadCancel, CancelContext, ReadChannel,
       Wait, FetchStarted, FetchFinished, RescanStarted, RescanFinished,
       Synced, StopUpdating, Reset, PeersLost, RunReturns, DiscoveryStarted,
       MarkDiscovery, DiscoveryEnds, DiscoveryFinished, UnmarkDiscovery,
       StopProgress, TakeSync, ClearSync, Enter, CheckSyncing, Touch, Select,
       Selected, Publish
  <2>. QED
    BY <2>1 DEF OneStarterInv
<1>. QED
  BY <1>1, <1>2

\* With one starter and no DiscoverUsage, OneStarterInv holds in every state.
THEOREM OneStarterInductive == ASSUME OneStarter PROVE Spec => []OneStarterInv
<1>1. Init => OneStarterInv
  BY CallersAssumption
     DEF Init, OneStarterInv, Idle, StartersStart, SessionOwnsFields,
         ShownSessionExists,
         StartsAlone, WaitsOnItsChannel
<1>2. IInv /\ OneStarterInv /\ [Next]_vars => OneStarterInv'
  BY StartersStartStep, SessionOwnsFieldsStep, ShownSessionExistsStep,
     StartsAloneStep,
     WaitsStep, NeverClosedTwice DEF OneStarterInv
<1>. QED
  BY <1>1, <1>2, Inductive, PTL DEF Spec

\* A running syncer is the one CancelSync ends, whoever else cancels.
THEOREM AlwaysCancellable == ASSUME OneStarter PROVE Spec => []Cancellable
<1>1. OneStarterInv => Cancellable
  BY DEF OneStarterInv, SessionOwnsFields, Cancellable, RunStages, Callbacks
<1>. QED
  BY <1>1, OneStarterInductive, PTL

\* The end of a session never closes a nil or closed syncCanceled.
THEOREM OnceClosed == ASSUME OneStarter PROVE Spec => []ClosesOnce
<1>1. OneStarterInv => ClosesOnce
  BY DEF OneStarterInv, ClosesOnce
<1>. QED
  BY <1>1, OneStarterInductive, PTL

\* Only Wait ends a wait.
LEMMA LeavesWait ==
  ASSUME IInv, NEW c \in Callers, [Next]_vars
  PROVE  caller[c].pc = "wait" /\ caller'[c].pc # "wait" => Wait(c)
<1>a. caller \in [Callers -> CallerStates]
  BY DEF IInv, TypeOK
<1>1. ASSUME NEW d \in Callers, CallStart(d) PROVE caller[c].pc = "wait" /\ caller'[c].pc # "wait" => Wait(c)
  BY <1>1 DEF CallStart
<1>2. ASSUME NEW d \in Callers, CallCancel(d) PROVE caller[c].pc = "wait" /\ caller'[c].pc # "wait" => Wait(c)
  BY <1>2 DEF CallCancel
<1>3. ASSUME NEW d \in Callers, CallRestart(d) PROVE caller[c].pc = "wait" /\ caller'[c].pc # "wait" => Wait(c)
  BY <1>3 DEF CallRestart
<1>4. ASSUME NEW d \in Callers, CheckStart(d) PROVE caller[c].pc = "wait" /\ caller'[c].pc # "wait" => Wait(c)
  BY <1>a, <1>4 DEF CheckStart
<1>5. ASSUME NEW d \in Callers, InitActive(d) PROVE caller[c].pc = "wait" /\ caller'[c].pc # "wait" => Wait(c)
  BY <1>5 DEF InitActive
<1>6. ASSUME NEW d \in Callers, Launch(d) PROVE caller[c].pc = "wait" /\ caller'[c].pc # "wait" => Wait(c)
  BY <1>a, <1>6 DEF Launch
<1>7. ASSUME NEW d \in Callers, ReadCancel(d) PROVE caller[c].pc = "wait" /\ caller'[c].pc # "wait" => Wait(c)
  BY <1>a, <1>7 DEF ReadCancel, CancelDone
<1>8. ASSUME NEW d \in Callers, CancelContext(d) PROVE caller[c].pc = "wait" /\ caller'[c].pc # "wait" => Wait(c)
  BY <1>8 DEF CancelContext
<1>9. ASSUME NEW d \in Callers, ReadChannel(d) PROVE caller[c].pc = "wait" /\ caller'[c].pc # "wait" => Wait(c)
  BY <1>9 DEF ReadChannel
<1>10. ASSUME NEW d \in Callers, Wait(d) PROVE caller[c].pc = "wait" /\ caller'[c].pc # "wait" => Wait(c)
  BY <1>a, <1>10 DEF Wait, CancelDone
<1>11. CASE UNCHANGED caller
  BY <1>11 DEF At
<1>. QED
  BY <1>1, <1>2, <1>3, <1>4, <1>5, <1>6, <1>7, <1>8, <1>9, <1>10, <1>11
     DEF vars, Next, CallerStep, SyncerStep, JobStep, UpdaterStep, CallDiscover,
         FetchStarted, FetchFinished, RescanStarted, RescanFinished, Synced,
         CloseCanceled, StopUpdating, Reset, PeersLost, RunReturns,
         DiscoveryStarted, MarkDiscovery, DiscoveryEnds, DiscoveryFinished,
         UnmarkDiscovery, StopProgress, TakeSync, ClearSync, Enter,
         CheckSyncing, Touch, Select, Selected, Publish

\* CancelSync returns only when the syncer it cancelled has stopped.
THEOREM CancelWaitsForSyncer == ASSUME OneStarter PROVE Spec => CancelWaits
<1>1. ASSUME IInv, OneStarterInv, [Next]_vars, NEW c \in Callers,
             At(c, "wait"), caller'[c].pc # "wait", caller[c].ctx \in Sessions
      PROVE  ~Running(caller[c].ctx)
  <2>1. Wait(c)
    BY <1>1, LeavesWait
  <2>2. caller[c].chan \in closed
    BY <2>1 DEF Wait, Signalled
  <2>. QED
    BY <1>1, <2>2 DEF OneStarterInv, WaitsOnItsChannel, SessionOwnsFields,
       RunStages, Callbacks
<1>2. IInv /\ OneStarterInv /\ [Next]_vars =>
        [\A c \in Callers :
           At(c, "wait") /\ caller'[c].pc # "wait" /\ caller[c].ctx \in Sessions
             => ~Running(caller[c].ctx)]_vars
  BY <1>1
<1>. QED
  BY <1>2, Inductive, OneStarterInductive, PTL DEF Spec, CancelWaits

-----------------------------------------------------------------------------
(* SpvSync implements SyncSession *)

\* Neither the mode shown nor the running syncers change.
LEMMA SameSession ==
  ASSUME NEW u \in Contexts, NEW stage,
         job \in [Contexts -> RunStages \cup EndStages \cup DiscoverStages \cup {"ended"}],
         UNCHANGED job \/ JobTo(u, stage),
         job[u] \in RunStages <=> stage \in RunStages,
         UNCHANGED <<syncing, synced>>
  PROVE  UNCHANGED Session!session
<1>1. \A s \in Sessions : Running(s)' <=> Running(s)
  BY DEF JobTo
<1>. QED
  BY <1>1 DEF Session!session

LEMMA SessionStep ==
  ASSUME OneStarter, IInv, OneStarterInv, [Next]_vars
  PROVE  [Session!Next]_(Session!session)
<1>a. /\ job \in [Contexts -> RunStages \cup EndStages \cup DiscoverStages \cup {"ended"}]
      /\ Contexts = Sessions /\ SessionOwnsFields /\ StartsAlone /\ ShownSessionExists
  BY DEF IInv, TypeOK, OneStarterInv, OneStarter
<1>b. Discoverers = {}
  BY DEF OneStarter
<1>c. /\ RunStages = {"fetch", "fetched", "discover", "discovering", "finish", "rescan",
                      "rescanning", "complete", "up", "lost", "mark", "unmark", "stopProgress"}
      /\ RunStages \cap (EndStages \cup {"ended"}) = {}
  BY DEF RunStages, EndStages, Callbacks
<1>1. ASSUME NEW c \in Callers, Launch(c) PROVE [Session!Next]_(Session!session)
  <2>. PICK s \in Sessions : s = caller[c].ctx
    BY <1>1 DEF Launch, IInv, Pointed
  <2>1. CASE active = None
    <3>1. UNCHANGED <<job, syncing, synced>>
      BY <1>1, <2>1 DEF Launch
    <3>. QED
      BY <3>1 DEF Session!session
  <2>2. CASE active # None
    <3>a. ~syncing /\ ~synced
      BY <1>a, <1>1 DEF Launch, StartsAlone
    <3>b. syncing' = TRUE /\ UNCHANGED synced /\ JobTo(s, "fetch")
      BY <1>1, <2>2 DEF Launch
    <3>c. synced \in BOOLEAN
      BY DEF IInv, TypeOK
    <3>1. /\ ~syncing /\ ~synced
          /\ syncing' = TRUE /\ ~synced' /\ job' = [job EXCEPT ![s] = "fetch"]
      BY <3>a, <3>b, <3>c DEF JobTo
    <3>2. \A r \in Sessions : job[r] = "ended"
      BY <1>a, <3>1 DEF SessionOwnsFields
    <3>3. {r \in Sessions : Running(r)} = {}
      BY <1>c, <3>2
    <3>4. {r \in Sessions : Running(r)}' = {s}
      BY <1>a, <1>c, <3>1, <3>2
    <3>5. Session!Start(s)
      BY <3>1, <3>3, <3>4 DEF Session!Start
    <3>. QED
      BY <3>5 DEF Session!Next
  <2>. QED
    BY <2>1, <2>2
<1>2. ASSUME NEW c \in Callers, CallDiscover(c) PROVE [Session!Next]_(Session!session)
  BY <1>b, <1>2 DEF CallDiscover
<1>3. ASSUME NEW s \in Sessions, FetchStarted(s) PROVE [Session!Next]_(Session!session)
  <2>1. UNCHANGED job \/ JobTo(s, "fetched")
    BY <1>a, <1>b, <1>3 DEF FetchStarted
  <2>2. job[s] = "fetch" /\ UNCHANGED <<syncing, synced>>
    BY <1>3 DEF FetchStarted
  <2>. QED
    BY <1>a, <1>c, <2>1, <2>2, SameSession
<1>4. ASSUME NEW s \in Sessions, FetchFinished(s) PROVE [Session!Next]_(Session!session)
  <2>1. UNCHANGED job \/ JobTo(s, "discover") \/ JobTo(s, "complete")
    BY <1>a, <1>b, <1>4 DEF FetchFinished
  <2>2. job[s] = "fetched" /\ UNCHANGED <<syncing, synced>>
    BY <1>4 DEF FetchFinished
  <2>. QED
    BY <1>a, <1>c, <2>1, <2>2, SameSession
<1>5. ASSUME NEW s \in Sessions, RescanStarted(s) PROVE [Session!Next]_(Session!session)
  <2>1. UNCHANGED job \/ JobTo(s, "rescanning")
    BY <1>a, <1>b, <1>5 DEF RescanStarted
  <2>2. job[s] = "rescan" /\ UNCHANGED <<syncing, synced>>
    BY <1>5 DEF RescanStarted
  <2>. QED
    BY <1>a, <1>c, <2>1, <2>2, SameSession
<1>6. ASSUME NEW s \in Sessions, RescanFinished(s) PROVE [Session!Next]_(Session!session)
  <2>1. UNCHANGED job \/ JobTo(s, "complete")
    BY <1>a, <1>b, <1>6 DEF RescanFinished
  <2>2. job[s] = "rescanning" /\ UNCHANGED <<syncing, synced>>
    BY <1>6 DEF RescanFinished
  <2>. QED
    BY <1>a, <1>c, <2>1, <2>2, SameSession
<1>7. ASSUME NEW s \in Sessions, Synced(s) PROVE [Session!Next]_(Session!session)
  <2>1. job[s] = "complete" /\ syncing /\ ~synced
    BY <1>a, <1>c, <1>7 DEF Synced, SessionOwnsFields
  <2>2. syncing' = FALSE /\ synced' = TRUE /\ JobTo(s, "up")
    BY <1>7, <2>1 DEF Synced
  <2>3. {r \in Sessions : Running(r)}' = {r \in Sessions : Running(r)}
    BY <1>a, <1>c, <2>1, <2>2 DEF JobTo
  <2>4. {r \in Sessions : Running(r)} # {}
    BY <1>c, <2>1
  <2>. QED
    BY <2>1, <2>2, <2>3, <2>4 DEF Session!Next, Session!Complete
<1>8. ASSUME NEW s \in Sessions, CloseCanceled(s) PROVE [Session!Next]_(Session!session)
  <2>1. UNCHANGED job \/ JobTo(s, "closed")
    BY <1>a, <1>b, <1>8 DEF CloseCanceled
  <2>2. job[s] = "returned" /\ UNCHANGED <<syncing, synced>>
    BY <1>8 DEF CloseCanceled
  <2>. QED
    BY <1>a, <1>c, <2>1, <2>2, SameSession
<1>9. ASSUME NEW s \in Sessions, StopUpdating(s) PROVE [Session!Next]_(Session!session)
  <2>1. UNCHANGED job \/ JobTo(s, "reset")
    BY <1>a, <1>b, <1>9 DEF StopUpdating
  <2>2. job[s] = "closed" /\ UNCHANGED <<syncing, synced>>
    BY <1>9 DEF StopUpdating
  <2>. QED
    BY <1>a, <1>c, <2>1, <2>2, SameSession
<1>10. ASSUME NEW s \in Sessions, Reset(s) PROVE [Session!Next]_(Session!session)
  <2>1. /\ job[s] = "reset" /\ JobTo(s, "ended")
        /\ syncing' = FALSE /\ synced' = FALSE /\ (syncing \/ synced)
    BY <1>a, <1>10 DEF Reset, SessionOwnsFields
  <2>2. \A r \in Sessions \ {s} : job[r] = "ended"
    BY <1>a, <2>1 DEF SessionOwnsFields
  <2>3. {r \in Sessions : Running(r)} = {} /\ {r \in Sessions : Running(r)}' = {}
    BY <1>a, <1>c, <2>1, <2>2 DEF JobTo, EndStages
  <2>. QED
    BY <2>1, <2>3 DEF Session!Next, Session!SwitchOff
<1>11. ASSUME NEW s \in Sessions, PeersLost(s) PROVE [Session!Next]_(Session!session)
  <2>1. job[s] = "up" /\ synced /\ synced' /\ JobTo(s, "lost")
    BY <1>a, <1>11 DEF PeersLost, Unsynced, SessionOwnsFields
  <2>2. \A r \in Sessions : Running(r)' <=> Running(r)
    BY <1>a, <1>c, <2>1 DEF JobTo
  <2>. QED
    BY <2>1, <2>2 DEF Session!session
<1>12. ASSUME NEW s \in Sessions, RunReturns(s) PROVE [Session!Next]_(Session!session)
  <2>1. Running(s) /\ JobTo(s, "returned") /\ UNCHANGED <<syncing, synced>>
    BY <1>12 DEF RunReturns
  <2>2. \A r \in Sessions \ {s} : job[r] = "ended"
    BY <1>a, <1>c, <2>1 DEF SessionOwnsFields
  <2>3. {r \in Sessions : Running(r)}' = {}
    BY <1>a, <1>c, <2>1, <2>2 DEF JobTo, EndStages
  <2>. QED
    BY <2>1, <2>3 DEF Session!Next, Session!Stop
<1>13. ASSUME NEW u \in Contexts, DiscoveryStarted(u) PROVE [Session!Next]_(Session!session)
  <2>1. UNCHANGED job \/ JobTo(u, "mark") \/ JobTo(u, "discovering")
    BY <1>a, <1>b, <1>13 DEF DiscoveryStarted
  <2>2. job[u] = "discover" /\ UNCHANGED <<syncing, synced>>
    BY <1>13 DEF DiscoveryStarted
  <2>. QED
    BY <1>a, <1>c, <2>1, <2>2, SameSession
<1>14. ASSUME NEW u \in Contexts, MarkDiscovery(u) PROVE [Session!Next]_(Session!session)
  <2>1. UNCHANGED job \/ JobTo(u, "discovering")
    BY <1>a, <1>b, <1>14 DEF MarkDiscovery
  <2>2. job[u] = "mark" /\ UNCHANGED <<syncing, synced>>
    BY <1>14 DEF MarkDiscovery
  <2>. QED
    BY <1>a, <1>c, <2>1, <2>2, SameSession
<1>15. ASSUME NEW u \in Contexts, DiscoveryEnds(u) PROVE [Session!Next]_(Session!session)
  <2>1. UNCHANGED job \/ JobTo(u, "finish")
    BY <1>a, <1>b, <1>15 DEF DiscoveryEnds, Discovered
  <2>2. job[u] = "discovering" /\ UNCHANGED <<syncing, synced>>
    BY <1>15 DEF DiscoveryEnds
  <2>. QED
    BY <1>a, <1>c, <2>1, <2>2, SameSession
<1>16. ASSUME NEW u \in Contexts, DiscoveryFinished(u) PROVE [Session!Next]_(Session!session)
  <2>1. UNCHANGED job \/ JobTo(u, "unmark") \/ JobTo(u, "rescan")
    BY <1>a, <1>b, <1>16 DEF DiscoveryFinished, AfterDiscovery
  <2>2. job[u] = "finish" /\ UNCHANGED <<syncing, synced>>
    BY <1>16 DEF DiscoveryFinished
  <2>. QED
    BY <1>a, <1>c, <2>1, <2>2, SameSession
<1>17. ASSUME NEW u \in Contexts, UnmarkDiscovery(u) PROVE [Session!Next]_(Session!session)
  <2>1. UNCHANGED job \/ JobTo(u, "stopProgress")
    BY <1>a, <1>b, <1>17 DEF UnmarkDiscovery
  <2>2. job[u] = "unmark" /\ UNCHANGED <<syncing, synced>>
    BY <1>17 DEF UnmarkDiscovery
  <2>. QED
    BY <1>a, <1>c, <2>1, <2>2, SameSession
<1>18. ASSUME NEW u \in Contexts, StopProgress(u) PROVE [Session!Next]_(Session!session)
  <2>1. UNCHANGED job \/ JobTo(u, "rescan")
    BY <1>a, <1>b, <1>18 DEF StopProgress, AfterDiscovery
  <2>2. job[u] = "stopProgress" /\ UNCHANGED <<syncing, synced>>
    BY <1>18 DEF StopProgress
  <2>. QED
    BY <1>a, <1>c, <2>1, <2>2, SameSession
<1>19. ASSUME NEW c \in Discoverers, TakeSync(c) PROVE [Session!Next]_(Session!session)
  BY <1>b
<1>20. ASSUME NEW c \in Discoverers, ClearSync(c) PROVE [Session!Next]_(Session!session)
  BY <1>b
<1>21. CASE UNCHANGED <<job, syncing, synced>>
  BY <1>21 DEF Session!session
<1>. QED
  BY <1>1, <1>2, <1>3, <1>4, <1>5, <1>6, <1>7, <1>8, <1>9, <1>10, <1>11,
     <1>12, <1>13, <1>14, <1>15, <1>16, <1>17, <1>18, <1>19, <1>20, <1>21
     DEF vars, Next, CallerStep, SyncerStep, JobStep, UpdaterStep, CancelDone,
         CallStart, CallCancel, CallRestart, CheckStart, InitActive, ReadCancel,
         CancelContext, ReadChannel, Wait, Enter, CheckSyncing, Touch, Select,
         Selected, Publish

\* With one starter and no DiscoverUsage, any number of cancellers and sessions
\* behave as SyncSession promises.
THEOREM ImplementsSyncSession == ASSUME OneStarter PROVE Spec => SyncSessionHolds
<1>1. Init => Session!Init
  BY DEF Init, Session!Init, RunStages, Callbacks
<1>2. IInv /\ OneStarterInv /\ [Next]_vars => [Session!Next]_(Session!session)
  BY SessionStep
<1>. QED
  BY <1>1, <1>2, Inductive, OneStarterInductive, PTL
     DEF Spec, SyncSessionHolds, Session!Spec

=============================================================================
