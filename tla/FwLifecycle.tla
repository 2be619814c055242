---------------------------- MODULE FwLifecycle ----------------------------
(***************************************************************************)
(* The firmware's life from power-on: the configuration sector and its     *)
(* console (lando-fw/src/config.rs, console_task and handle_command of     *)
(* lando-fw/src/main.rs), the keys generated at boot, the join, and the    *)
(* supervisor that keeps a control session (main of the same file).        *)
(*                                                                         *)
(* A command runs to completion, so only a reset comes between its steps.  *)
(* Power may be lost at any moment; during a save it leaves the sector     *)
(* erased or with a prefix of what was being written, the rest reading as  *)
(* erased.  Time is left out: a delay is a step that may take any time.    *)
(***************************************************************************)
EXTENDS Integers, FiniteSets, FiniteSetsExt

CONSTANTS
    None, Damaged,
    MAX_BACKOFF,        \* the supervisor's longest delay (60 s)
    MAX_FAILURES,       \* failures in a row before it resets (12)
    MAX_OUTAGES         \* bound: resets that a human or the mains cause

ASSUME LifecycleAssumption ==
    /\ MAX_BACKOFF \in Nat \ {0} /\ MAX_FAILURES \in Nat \ {0} /\ MAX_OUTAGES \in Nat
    /\ None \notin Nat /\ Damaged \notin Nat /\ None # Damaged

VARIABLES
    flash,        \* the sector, as `load` reads it: a configuration or None
    pc,           \* where main is
    cfg,          \* the configuration main runs with, or None
    pending,      \* the console's copy of the configuration
    backoff, consecutive_failures,
    associated,   \* external: the radio holds its association
    ap,           \* external: what the access point does
    server,       \* external: what the control server does
    outages,      \* history: resets from outside
    causes,       \* history: what may have cost the device its configuration
    wanted,       \* history: the settings last saved by a human, or None
    applied,      \* history: wanted, at the last boot
    presented     \* history: the node keys the control server has seen

ramVars == <<cfg, pending, backoff, consecutive_failures, associated>>
worldVars == <<ap, server>>
historyVars == <<outages, causes, wanted, applied, presented>>
vars == <<flash, pc, ramVars, worldVars, historyVars>>

-----------------------------------------------------------------------------
(* The sector.  Its items are written in order: the mandatory fields, the  *)
(* optional ones, the machine key and the node key.                        *)

\* The optional fields: all empty, a control server with its key, one without,
\* one with a key that does not parse, and fields so long that the two keys do
\* not fit in the 512 bytes behind them.
Options == {"Default", "Own", "Unmatched", "BadKey", "Long"}
Settings == [ready : BOOLEAN, opts : Options]
NodeKeys == Nat \cup {None, Damaged}
Configs == [ready : BOOLEAN, opts : Options, machine_key : NodeKeys, node_key : NodeKeys]

ASSUME NoneAssumption == None \notin Configs

DefaultConfig == [ready |-> FALSE, opts |-> "Default", machine_key |-> None, node_key |-> None]
SettingsOf(c) == [ready |-> c.ready, opts |-> c.opts]

\* What a save of c leaves when power is lost in it, as `load` will read it: a
\* field that does not read is empty, and then no key reads; but a key whose tail
\* is missing is a key all the same.
Torn(c) ==
    {None, c}
    \cup {[c EXCEPT !.opts = o, !.machine_key = None, !.node_key = None] :
              o \in {c.opts, "Default"} \cup IF c.opts = "Default" THEN {} ELSE {"Unmatched"}}
    \cup IF c.machine_key = None THEN {}
         ELSE {[c EXCEPT !.machine_key = Damaged, !.node_key = None],
               [c EXCEPT !.node_key = None], [c EXCEPT !.node_key = Damaged]}

fits(c) == c.opts = "Long" => c.machine_key = None /\ c.node_key = None

-----------------------------------------------------------------------------

\* A device out of the box, one given its settings, or one that has its keys too.
Init ==
    /\ flash \in {None} \cup
            [ready : {TRUE}, opts : {"Own"}, machine_key : {None}, node_key : {None}] \cup
            [ready : {TRUE}, opts : {"Own"}, machine_key : {1}, node_key : {1}]
    /\ wanted = (IF flash = None THEN None ELSE SettingsOf(flash))
    /\ pc = "boot" /\ cfg = None /\ pending = DefaultConfig
    /\ backoff = 1 /\ consecutive_failures = 0
    /\ associated = FALSE /\ ap = "Down" /\ server = "Down"
    /\ outages = 0 /\ causes = {} /\ applied = None /\ presented = {}

\* Everything in RAM is lost.
Reset ==
    /\ pc' = "boot" /\ cfg' = None /\ pending' = DefaultConfig
    /\ backoff' = 1 /\ consecutive_failures' = 0 /\ associated' = FALSE

\* A reset that comes from outside the program, with the causes it adds.
Outage(why) ==
    /\ outages < MAX_OUTAGES
    /\ outages' = outages + 1
    /\ causes' = causes \cup why
    /\ Reset

PowerLoss ==
    /\ Outage({})
    /\ UNCHANGED <<flash, worldVars, wanted, applied, presented>>

-----------------------------------------------------------------------------
(* Boot.                                                                   *)

KeyMissing == flash # None /\ (flash.machine_key = None \/ flash.node_key = None)

Fresh == Max({k \in presented \cup {flash.node_key, flash.machine_key} : k \in Nat} \cup {0}) + 1

\* Once the configuration is settled the console starts, and loads its own copy.
StartsWith(c, console) ==
    /\ cfg' = c
    /\ pending' = console
    /\ pc' = IF c = None \/ ~c.ready THEN "unprovisioned" ELSE "join"
    /\ applied' = wanted
    /\ UNCHANGED <<backoff, consecutive_failures, associated>>

BootsAsStored ==
    /\ pc = "boot" /\ ~KeyMissing
    /\ StartsWith(flash, IF flash = None THEN DefaultConfig ELSE flash)
    /\ UNCHANGED <<flash, worldVars, outages, causes, wanted, presented>>

\* Mutant: the console's copy is taken before the keys are saved.
GeneratesKeys_Early ==
    /\ pc = "boot" /\ KeyMissing
    /\ LET c == [flash EXCEPT !.machine_key = Fresh, !.node_key = Fresh]
       IN  /\ fits(c)
           /\ flash' = c
           /\ StartsWith(c, flash)
    /\ UNCHANGED <<worldVars, outages, causes, wanted, presented>>

\* A missing key has both made anew and saved.  If they do not fit the program
\* panics before it erases, and boots again.
GeneratesKeys ==
    /\ pc = "boot" /\ KeyMissing
    /\ LET c == [flash EXCEPT !.machine_key = Fresh, !.node_key = Fresh]
       IN  \/ /\ fits(c)
              /\ flash' = c
              /\ StartsWith(c, c)
              /\ UNCHANGED <<outages, causes>>
           \/ /\ fits(c)
              /\ flash' \in Torn(c)
              /\ Outage({"BootSave"})
              /\ UNCHANGED applied
           \/ /\ ~fits(c)
              /\ Reset
              /\ UNCHANGED <<flash, outages, causes, applied>>
    /\ UNCHANGED <<worldVars, wanted, presented>>

-----------------------------------------------------------------------------
(* The console, at any time after boot.                                    *)

\* What the console may have staged: its copy with any settings and the keys it
\* was loaded with.
Staged == {[pending EXCEPT !.ready = x.ready, !.opts = x.opts] : x \in Settings}

\* Mutant: the sector is erased before the new contents are known to fit.
save_ErasesFirst(c) ==
    /\ pc # "boot"
    /\ IF fits(c)
       THEN /\ flash' = c
            /\ wanted' = SettingsOf(c)
            /\ UNCHANGED <<pc, ramVars, outages, causes>>
       ELSE /\ flash' = None
            /\ Outage({})
            /\ UNCHANGED wanted
    /\ UNCHANGED <<worldVars, applied, presented>>

\* The console's save.  If the configuration does not fit the program panics.
save(c) ==
    /\ pc # "boot"
    /\ \/ /\ fits(c)
          /\ flash' = c
          /\ wanted' = SettingsOf(c)
          /\ UNCHANGED <<pc, ramVars, outages, causes>>
       \/ /\ fits(c)
          /\ flash' \in Torn(c)
          /\ Outage({"ConsoleSave"})
          /\ UNCHANGED wanted
       \/ /\ ~fits(c)
          /\ Outage({})
          /\ UNCHANGED <<flash, wanted>>
    /\ UNCHANGED <<worldVars, applied, presented>>

clear ==
    /\ pc # "boot"
    /\ flash' = None
    /\ causes' = causes \cup {"Clear"}
    /\ wanted' = None
    /\ UNCHANGED <<pc, ramVars, worldVars, outages, applied, presented>>

-----------------------------------------------------------------------------
(* The network.                                                            *)

\* Retried until the access point answers.
Join ==
    /\ pc = "join" /\ ap # "Down"
    /\ pc' = "dhcp" /\ associated' = TRUE
    /\ UNCHANGED <<flash, cfg, pending, backoff, consecutive_failures, worldVars, historyVars>>

\* A control key that does not parse stops the program where it is.
Lease ==
    /\ pc = "dhcp" /\ associated /\ ap = "Serves"
    /\ pc' = IF cfg.opts = "BadKey" THEN "bad_key" ELSE "connect"
    /\ UNCHANGED <<flash, ramVars, worldVars, historyVars>>

NoLease ==
    /\ pc = "dhcp" /\ ~(associated /\ ap = "Serves")
    /\ Reset
    /\ UNCHANGED <<flash, worldVars, historyVars>>

Reachable == associated /\ server # "Down"

\* The TCP connection, the Noise handshake and the HTTP/2 preface.
Connect ==
    /\ pc = "connect"
    /\ pc' = IF Reachable /\ cfg.opts # "Unmatched" THEN "register" ELSE "delay"
    /\ UNCHANGED <<flash, ramVars, worldVars, historyVars>>

\* An answer to the registration counts as success, whatever it says and whether or
\* not the advertisement that follows gets through.
Connected == pc' = "session" /\ backoff' = 1 /\ consecutive_failures' = 0

\* Without an answer the server may still have seen the key.
Register ==
    /\ pc = "register"
    /\ \/ /\ Reachable
          /\ Connected
          /\ presented' = presented \cup {cfg.node_key}
       \/ /\ ~Reachable
          /\ pc' = "delay"
          /\ presented' \in {presented, presented \cup {cfg.node_key}}
          /\ UNCHANGED <<backoff, consecutive_failures>>
    /\ UNCHANGED <<flash, cfg, pending, associated, worldVars, outages, causes, wanted, applied>>

\* The map poll ends, with an error or without, and takes the tasks with it.
SessionEnds ==
    /\ pc = "session"
    /\ pc' = "delay"
    /\ UNCHANGED <<flash, ramVars, worldVars, historyVars>>

\* Mutant: failures are not counted.
Retry_Uncounted ==
    /\ pc = "delay"
    /\ backoff' = Min({2 * backoff, MAX_BACKOFF})
    /\ pc' = "connect"
    /\ UNCHANGED <<flash, cfg, pending, consecutive_failures, associated, worldVars,
                   historyVars>>

\* Nothing but a reset joins the access point again.
Retry ==
    /\ pc = "delay"
    /\ IF consecutive_failures + 1 >= MAX_FAILURES
       THEN Reset
       ELSE /\ backoff' = Min({2 * backoff, MAX_BACKOFF})
            /\ consecutive_failures' = consecutive_failures + 1
            /\ pc' = "connect"
            /\ UNCHANGED <<cfg, pending, associated>>
    /\ UNCHANGED <<flash, worldVars, historyVars>>

-----------------------------------------------------------------------------
(* The access point and the control server, external.                      *)

ApChanges(to) ==
    /\ ap # to
    /\ ap' = to
    /\ associated' = (associated /\ to # "Down")
    /\ UNCHANGED <<flash, pc, cfg, pending, backoff, consecutive_failures, server, historyVars>>

ServerChanges(to) ==
    /\ server # to
    /\ server' = to
    /\ UNCHANGED <<flash, pc, ramVars, ap, historyVars>>

-----------------------------------------------------------------------------

Boot == BootsAsStored \/ GeneratesKeys
Network == Join \/ Lease \/ NoLease \/ Connect \/ Register \/ Retry

Next ==
    \/ Boot \/ Network \/ SessionEnds
    \/ \E c \in Staged : save(c)
    \/ clear \/ PowerLoss
    \/ \E to \in {"Down", "NoLeases", "Serves"} : ApChanges(to)
    \/ \E to \in {"Down", "Refuses", "Serves"} : ServerChanges(to)

\* A session the server cannot or will not serve ends by its timeout.
Fairness ==
    /\ WF_vars(Boot)
    /\ WF_vars(Network)
    /\ WF_vars(SessionEnds /\ (~Reachable \/ server = "Refuses"))

Spec == Init /\ [][Next]_vars /\ Fairness

-----------------------------------------------------------------------------

\* "Keys are generated once and kept": unless the sector was cleared, or power
\* was lost in a save, the control server only ever sees one node key, whatever
\* is staged and saved and however often the device starts.
IdentityKept == causes = {} => Cardinality(presented) <= 1

\* What was saved is what the device starts with, unless the sector was cleared or
\* power was lost in a save: a save that does not fit, and the save of the
\* generated keys, lose nothing.
SettingsKept ==
    (pc # "boot" /\ applied # None /\ causes = {}) =>
        /\ cfg # None
        /\ SettingsOf(cfg) = applied

\* The settings leave the device to a human: nothing but a new save helps.
NeedsHuman(c) == c = None \/ ~c.ready \/ c.opts \in {"BadKey", "Unmatched", "Long"}

\* Once the access point and the server stay up, the device comes to a session
\* again and again, unless what it started with, or what is stored, leaves it to a
\* human: an association the radio lost is won back by the reset after
\* MAX_FAILURES.
Recovers ==
    <>[](ap = "Serves" /\ server = "Serves")
        => []<>\/ pc = "session"
               \/ NeedsHuman(IF pc = "boot" THEN flash ELSE cfg)
=============================================================================
