----------------------------- MODULE TestMonitor -----------------------------
(***************************************************************************)
(* TestChannelMonitor (lightning/src/util/test_utils.rs): the monitor     *)
(* double of the functional tests.  add_monitor and update_monitor record  *)
(* the latest update id, hand the monitor to a SimpleManyChannelMonitor    *)
(* (asserting it accepts it), and return the value in update_ret.  A test  *)
(* can arm next_update_ret; the comment on the field says that "after the *)
(* next return, we'll always return this until update_ret is changed".     *)
(*                                                                         *)
(* Each call records the update id, hands the monitor or update to        *)
(* simple_monitor (whose add_monitor and update_monitor take its monitors *)
(* lock inside and release it), and update_monitor then locks             *)
(* simple_monitor.monitors itself and holds the guard to its return.  The *)
(* return path takes two locks in turn: update_ret is read and its guard  *)
(* dropped (lines 86, 113), then next_update_ret is taken and, while the  *)
(* `if let` holds that guard, update_ret is overwritten (87-89, 114-116). *)
(* The round trips through write/read, the added_monitors log and the     *)
(* monitor contents are left out: only the funding outpoint and the       *)
(* update id matter here.                                                 *)
(***************************************************************************)
EXTENDS Naturals

CONSTANTS
    Callers,        \* threads calling into the monitor (channel manager)
    Channels,       \* funding outpoints
    UpdateIds,      \* update ids carried by ChannelMonitorUpdates
    Rets,           \* Ok and the ChannelMonitorUpdateErr variants
    MaxMonCalls,    \* bound on calls in a behaviour
    None

VARIABLES
    updateRet,      \* update_ret
    nextRet,        \* next_update_ret: None or Some(r)
    latest,         \* latest_monitor_update_id: channel -> id, or None
    monitored,      \* funding outpoints simple_monitor holds
    monLock,        \* holder of simple_monitor.monitors, or None
    mpc,            \* per caller: where its current call is (MonPcs)
    target,         \* per caller: the funding outpoint of its current call
    reg,            \* per caller: the value read from update_ret
    monCalls,       \* calls and test writes so far (bounded)
    pendingRet,     \* history: the value armed and not yet past a return
    expectRet,      \* history: what the comment says the next return gives
    monOverlap      \* history: a call or test write overlapped another call

monVars == <<updateRet, nextRet, latest, monitored, monLock, mpc, target, reg,
             monCalls, pendingRet, expectRet, monOverlap>>

MonPcs == {"idle", "adding", "updating", "applied", "returning", "read", "panicked"}

Busy(c) == \E d \in Callers \ {c} : mpc[d] = "read"

-----------------------------------------------------------------------------
Init ==
    /\ updateRet = "ok"
    /\ nextRet = None
    /\ latest = [ch \in Channels |-> None]
    /\ monitored = {}
    /\ monLock = None
    /\ mpc = [c \in Callers |-> "idle"]
    /\ target = [c \in Callers |-> None]
    /\ reg = [c \in Callers |-> None]
    /\ monCalls = 0
    /\ pendingRet = None
    /\ expectRet = "ok"
    /\ monOverlap = FALSE

\* Mutant: next_update_ret is taken before update_ret is read.
MutReadRet(c, v) ==
    /\ reg' = [reg EXCEPT ![c] = IF nextRet # None THEN nextRet ELSE v]
    /\ nextRet' = None
    /\ updateRet' = IF nextRet # None THEN nextRet ELSE updateRet

\* `let ret = self.update_ret.lock().unwrap().clone();`
ReadRet(c, v) ==
    /\ reg' = [reg EXCEPT ![c] = v]
    /\ UNCHANGED <<nextRet, updateRet>>

\* add_monitor up to the call into simple_monitor: the monitor survives a
\* write/read round trip, latest_monitor_update_id gets the monitor's
\* latest update id (0 for a fresh one), added_monitors gets a copy.
AddMonitor(c, ch) ==
    /\ mpc[c] = "idle" /\ monCalls < MaxMonCalls
    /\ monCalls' = monCalls + 1
    /\ latest' = [latest EXCEPT ![ch] = 0]
    /\ mpc' = [mpc EXCEPT ![c] = "adding"]
    /\ target' = [target EXCEPT ![c] = ch]
    /\ UNCHANGED <<updateRet, nextRet, monitored, monLock, reg, pendingRet,
                   expectRet, monOverlap>>

\* assert!(self.simple_monitor.add_monitor(..).is_ok()): simple_monitor
\* takes its monitors lock and refuses an outpoint it already holds; the
\* assert then panics.
SimpleAdd(c) ==
    /\ mpc[c] = "adding" /\ monLock = None
    /\ IF target[c] \in monitored
       THEN mpc' = [mpc EXCEPT ![c] = "panicked"]
       ELSE mpc' = [mpc EXCEPT ![c] = "returning"]
    /\ monitored' = monitored \cup {target[c]}
    /\ UNCHANGED <<updateRet, nextRet, latest, monLock, reg, monCalls, target,
                   pendingRet, expectRet, monOverlap>>

\* update_monitor up to the call into simple_monitor: the update survives
\* a round trip and latest_monitor_update_id gets update.update_id.
UpdateMonitor(c, ch, id) ==
    /\ mpc[c] = "idle" /\ monCalls < MaxMonCalls
    /\ monCalls' = monCalls + 1
    /\ latest' = [latest EXCEPT ![ch] = id]
    /\ mpc' = [mpc EXCEPT ![c] = "updating"]
    /\ target' = [target EXCEPT ![c] = ch]
    /\ UNCHANGED <<updateRet, nextRet, monitored, monLock, reg, pendingRet,
                   expectRet, monOverlap>>

\* assert!(self.simple_monitor.update_monitor(..).is_ok()): under its
\* monitors lock simple_monitor refuses an outpoint it has no monitor for.
SimpleUpdate(c) ==
    /\ mpc[c] = "updating" /\ monLock = None
    /\ mpc' = [mpc EXCEPT ![c] = IF target[c] \in monitored THEN "applied" ELSE "panicked"]
    /\ UNCHANGED <<updateRet, nextRet, latest, monitored, monLock, reg, monCalls,
                   target, pendingRet, expectRet, monOverlap>>

\* `let monitors = self.simple_monitor.monitors.lock().unwrap();` is held
\* to the end of update_monitor, across the round trip of the updated
\* monitor and the push to added_monitors.
LockMonitors(c) ==
    /\ mpc[c] = "applied" /\ monLock = None
    /\ monLock' = c
    /\ mpc' = [mpc EXCEPT ![c] = "returning"]
    /\ UNCHANGED <<updateRet, nextRet, latest, monitored, reg, monCalls, target,
                   pendingRet, expectRet, monOverlap>>

\* Both entry points end the same way: read update_ret, then return.
StartReturn(c) ==
    /\ mpc[c] = "returning"
    /\ ReadRet(c, updateRet)
    /\ mpc' = [mpc EXCEPT ![c] = "read"]
    /\ monOverlap' = (monOverlap \/ Busy(c))
    /\ UNCHANGED <<latest, monitored, monLock, monCalls, target, pendingRet, expectRet>>

\* `if let Some(next_ret) = self.next_update_ret.lock().unwrap().take()
\*  { *self.update_ret.lock().unwrap() = next_ret; }`
TakeNext(c) ==
    /\ updateRet' = IF nextRet # None THEN nextRet ELSE updateRet
    /\ nextRet' = None

\* The rest of the call, then `ret` is returned and the guards dropped.  The first return after
\* arming makes the armed value the one every later return must give.
FinishReturn(c) ==
    /\ mpc[c] = "read"
    /\ TakeNext(c)
    /\ mpc' = [mpc EXCEPT ![c] = "idle"]
    /\ monLock' = IF monLock = c THEN None ELSE monLock
    /\ pendingRet' = None
    /\ expectRet' = IF pendingRet # None THEN pendingRet ELSE expectRet
    /\ UNCHANGED <<latest, monitored, reg, monCalls, target, monOverlap>>

\* A test writes `*update_ret.lock().unwrap() = r`.
SetUpdateRet(r) ==
    /\ monCalls < MaxMonCalls
    /\ monCalls' = monCalls + 1
    /\ updateRet' = r
    /\ expectRet' = r
    /\ monOverlap' = (monOverlap \/ \E c \in Callers : mpc[c] = "read")
    /\ UNCHANGED <<nextRet, latest, monitored, monLock, mpc, target, reg, pendingRet>>

\* A test writes `*next_update_ret.lock().unwrap() = Some(r)`.
SetNextUpdateRet(r) ==
    /\ monCalls < MaxMonCalls
    /\ monCalls' = monCalls + 1
    /\ nextRet' = r
    /\ pendingRet' = r
    /\ monOverlap' = (monOverlap \/ \E c \in Callers : mpc[c] = "read")
    /\ UNCHANGED <<updateRet, latest, monitored, monLock, mpc, target, reg, expectRet>>

\* The steps a caller takes inside a call.
MonStep(c) ==
    \/ SimpleAdd(c) \/ SimpleUpdate(c) \/ LockMonitors(c)
    \/ StartReturn(c) \/ FinishReturn(c)

Next ==
    \/ \E c \in Callers, ch \in Channels :
          \/ AddMonitor(c, ch)
          \/ \E id \in UpdateIds : UpdateMonitor(c, ch, id)
    \/ \E c \in Callers : MonStep(c)
    \/ \E r \in Rets : SetUpdateRet(r) \/ SetNextUpdateRet(r)

Spec == Init /\ [][Next]_monVars

-----------------------------------------------------------------------------
(* Properties                                                              *)

MonTypeOK ==
    /\ updateRet \in Rets
    /\ nextRet \in Rets \cup {None}
    /\ latest \in [Channels -> UpdateIds \cup {0, None}]
    /\ monitored \subseteq Channels
    /\ monLock \in Callers \cup {None}
    /\ mpc \in [Callers -> MonPcs]
    /\ target \in [Callers -> Channels \cup {None}]
    /\ reg \in [Callers -> Rets \cup {None}]
    /\ monCalls \in 0..MaxMonCalls
    /\ pendingRet \in Rets \cup {None}
    /\ expectRet \in Rets

\* (comment on next_update_ret) add_monitor and update_monitor return the
\* update_ret a test last wrote; once next_update_ret is armed with r, the
\* next return still gives that value and every return after it gives r
\* until a test changes update_ret.  Claimed while no two calls, and no
\* call and a test write, overlap.
NextRetAsDocumented ==
    [][~monOverlap =>
         \A c \in Callers :
            (mpc[c] = "read" /\ mpc'[c] = "idle") => reg[c] = expectRet]_monVars

=============================================================================
