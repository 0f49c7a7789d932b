----------------------------- MODULE ConfigReload ---------------------------
(***************************************************************************)
(* Configuration files and the controller that follows them: the thread    *)
(* that polls the files, the reload that reads them one by one while they  *)
(* may be edited, the rejection of a bad configuration and its automatic   *)
(* revert, and the datapaths that a new configuration adds, changes and    *)
(* removes while their switches come and go (valves_manager.py,            *)
(* config_parser.py, config_parser_util.py, valve_ryuapp.py, faucet.py).   *)
(*                                                                         *)
(* A check of the files may fail where a reload would only reject them,    *)
(* and then the controller is killed; the service manager starts it again  *)
(* (debian/faucet.service, Restart=always).                                *)
(*                                                                         *)
(* The top file may include a second one.  Text says of the contents of a  *)
(* file: is it UTF-8 (utf8), does it parse (yaml, which takes UTF-8), does *)
(* it include the other file (no, opt, req), and its part of the           *)
(* configuration (conf, see ConfigCheck).                                  *)
(***************************************************************************)
EXTENDS ConfigCheck
LOCAL INSTANCE FiniteSetsExt

CONSTANTS
  TopContents, IncContents, \* what an edit may leave in a file
  Text,       \* the meaning of contents
  Dp,
  StatReload, \* the setting CONFIG_STAT_RELOAD
  Absent,
  MaxEdits    \* bound: edits, failing writes and connections lost

File == {"top", "inc"}
Contents == TopContents \cup IncContents
Reader == {"poll", "main"} \* the polling thread, the dispatch thread

VARIABLES
  file,   \* the files
  auto,   \* the setting CONFIG_AUTO_REVERT
  hashes, \* ConfigWatcher.config_hashes; a hash is the contents
  stats,  \* ConfigWatcher.config_file_stats, or None
  event,  \* an EventReconfigure is queued
  look,   \* Reader -> where its check of the files is
  pc,     \* where the reload is
  got,    \* the files it has read
  todo,   \* the files it has yet to revert
  live,   \* the configuration applied last: last_good_config
  valves, \* the datapaths that have a Valve
  run,    \* those with dyn_running
  chan,   \* the connections: down, new, open, closed
  rules,  \* the configuration a switch was last sent
  edits   \* counts towards MaxEdits

config == <<hashes, look, pc, got, todo, live, valves>>
vars == <<file, auto, hashes, stats, event, look, pc, got, todo, live, valves, run,
          chan, rules, edits>>

Watch == UNION {[F -> Contents \cup {None}] : F \in SUBSET File}

\* A check has seen that the file it is at is there and is to read it; it has
\* the hashes it started with.  "dead" is the polling thread after an error.
Look == [at : File \cup {"no", "dead"}, h : Watch]
NoLook == [at |-> "no", h |-> <<>>]

\* An included file adds to the sections of the top file, and overrides them.
Section(c, s) ==
  IF "inc" \in DOMAIN c THEN Text[c["inc"]].conf[s] @@ Text[c["top"]].conf[s]
  ELSE Text[c["top"]].conf[s]

Conf(c) ==
  [s \in {"dps", "vlans", "acls", "routers"} |-> Section(c, s)]
  @@ [meters |-> UNION {Text[c[f]].conf.meters : f \in DOMAIN c}]

Dps(c) == UNION {DOMAIN Text[c[f]].conf.dps : f \in DOMAIN c}

TypeOK ==
  /\ file \in [File -> Contents \cup {Absent}] /\ auto \in BOOLEAN
  /\ hashes \in Watch /\ event \in BOOLEAN /\ look \in [Reader -> Look]
  /\ pc \in {"start", "idle", "look", "first", "top", "inc", "apply", "revert",
             "killed"}
  /\ DOMAIN got \subseteq File /\ todo \subseteq DOMAIN live
  /\ valves = Dps(live) /\ run \subseteq valves
  /\ chan \in [Dp -> {"down", "new", "open", "closed"}]
  /\ edits \in 0..MaxEdits

-----------------------------------------------------------------------------
(***************************************************************************)
(* Watching.                                                               *)
(***************************************************************************)

Present(f) == file[f] # Absent

\* Mutant: looks only at files that were loaded.
isfile_Loaded(h, f) ==
  IF h[f] = None THEN "unchanged" ELSE IF Present(f) THEN f ELSE "changed"

\* config_changed: a file that was not loaded exists, or one that was is gone;
\* if it is there, it is to be read.
isfile(h, f) ==
  IF (h[f] = None) = Present(f) THEN "changed"
  ELSE IF h[f] = None THEN "unchanged" ELSE f

\* config_file_hash of the file the check is at, by now: an error that nobody
\* handles, if the file is gone or is not text.  Then the next file is looked
\* for; an edit between the two makes no difference to what is found.
config_file_hash(k) ==
  IF ~Present(k.at) \/ ~Text[file[k.at]].utf8 THEN "error"
  ELSE IF file[k.at] # k.h[k.at] THEN "changed"
  ELSE IF k.at = "top" /\ "inc" \in DOMAIN k.h THEN isfile(k.h, "inc") ELSE "unchanged"

Goes(h, found) == IF found \in File THEN [at |-> found, h |-> h] ELSE NoLook

\* files_changed.  The first look only notes the files' attributes; the
\* contents are checked if those have not changed.
files_changed ==
  LET now == [f \in {x \in DOMAIN hashes : Present(x)} |-> file[f]]
      check == stats # None /\ now = stats
      found == IF check THEN isfile(hashes, "top")
               ELSE IF stats = None THEN "unchanged" ELSE "changed"
  IN /\ pc # "killed" /\ look["poll"].at = "no" /\ hashes # <<>>
     /\ stats' = now
     /\ look' = [look EXCEPT !["poll"] = Goes(hashes, found)]
     /\ event' = (event \/ (found = "changed" /\ StatReload))
     /\ UNCHANGED <<file, auto, hashes, pc, got, todo, live, valves, run, chan,
                    rules, edits>>

\* The thread's check goes on, and the event it sends; an error ends the thread.
_config_file_stat ==
  LET k == look["poll"] IN
  /\ pc # "killed" /\ k.at \in File
  /\ \E found \in {config_file_hash(k)} :
       /\ look' = [look EXCEPT !["poll"] =
                     IF found = "error" THEN [NoLook EXCEPT !.at = "dead"] ELSE Goes(k.h, found)]
       /\ event' = (event \/ (found = "changed" /\ StatReload))
  /\ UNCHANGED <<file, auto, stats, hashes, pc, got, todo, live, valves, run, chan,
                 rules, edits>>

\* The threads of the services look for threads that have died.
_check_thread_exception ==
  /\ pc # "killed" /\ look["poll"].at = "dead"
  /\ pc' = "killed"
  /\ UNCHANGED <<file, auto, stats, event, hashes, look, got, todo, live, valves,
                 run, chan, rules, edits>>

\* SIGHUP.
signal_handler ==
  /\ pc \notin {"start", "killed"} /\ event' = TRUE
  /\ UNCHANGED <<file, auto, stats, config, run, chan, rules, edits>>

-----------------------------------------------------------------------------
(***************************************************************************)
(* Reloading.  Between two steps the files may be edited.                  *)
(***************************************************************************)

\* The dispatch thread's check goes on: an error ends the controller
\* (kill_on_exception).
Checks(found) ==
  /\ pc' = CASE found \in File -> "look" [] found = "changed" -> "first"
             [] found = "error" -> "killed" [] found = "unchanged" -> "idle"
  /\ look' = [look EXCEPT !["main"] = Goes(hashes, found)]

\* request_reload_configs; the first one, at start, finds no configuration.
request_reload_configs ==
  /\ pc = "start" \/ (pc = "idle" /\ event)
  /\ event' = FALSE /\ got' = <<>>
  /\ Checks(IF pc = "start" THEN "changed" ELSE isfile(hashes, "top"))
  /\ UNCHANGED <<file, auto, hashes, stats, todo, live, valves, run, chan,
                 rules, edits>>

content_changed ==
  /\ pc = "look"
  /\ Checks(config_file_hash(look["main"]))
  /\ UNCHANGED <<file, auto, hashes, stats, event, got, todo, live, valves, run, chan,
                 rules, edits>>

\* Mutant: only the top file is written back.
Reject_Top ==
  /\ hashes' = ("top" :> None)
  /\ todo' = IF auto THEN DOMAIN live \cap {"top"} ELSE {}
  /\ pc' = IF todo' = {} THEN "idle" ELSE "revert"
  /\ UNCHANGED <<look, got, live, valves>>

\* parse_configs rejects: the files of the last good configuration are to be
\* written back, and the watcher is left with a file it has not loaded.
Reject ==
  /\ hashes' = ("top" :> None)
  /\ todo' = IF auto THEN DOMAIN live ELSE {}
  /\ pc' = IF todo' = {} THEN "idle" ELSE "revert"
  /\ UNCHANGED <<look, got, live, valves>>

Continue(next, files) ==
  /\ pc' = next /\ got' = files
  /\ UNCHANGED <<hashes, look, todo, live, valves>>

\* dp_parser reads the top file for its version.
ReadVersion ==
  /\ pc = "first"
  /\ IF Present("top") /\ Text[file["top"]].yaml THEN Continue("top", got) ELSE Reject
  /\ UNCHANGED <<file, auto, stats, event, run, chan, rules, edits>>

\* dp_include reads the top file again, its hash and contents together.
dp_include ==
  /\ pc = "top"
  /\ IF Present("top") /\ Text[file["top"]].yaml
     THEN Continue(IF Text[file["top"]].inc = "no" THEN "apply" ELSE "inc",
                   ("top" :> file["top"]))
     ELSE Reject
  /\ UNCHANGED <<file, auto, stats, event, run, chan, rules, edits>>

\* The included file; an optional one that cannot be read is skipped.
ReadInclude ==
  /\ pc = "inc"
  /\ IF Present("inc") /\ Text[file["inc"]].yaml THEN Continue("apply", got @@ ("inc" :> file["inc"]))
     ELSE IF Text[got["top"]].inc = "req" THEN Reject
     ELSE Continue("apply", got @@ ("inc" :> None))
  /\ UNCHANGED <<file, auto, stats, event, run, chan, rules, edits>>

Loaded(c) == [f \in {x \in DOMAIN c : c[x] # None} |-> c[f]]

Loads == [{"top"} -> TopContents]
         \cup {("top" :> t) @@ ("inc" :> i) : t \in TopContents, i \in IncContents}
\* The loads for which P holds, as a set that TLC evaluates once.
LoadsWith(P(_)) == FoldSet(LAMBDA c, S : IF P(c) THEN S \cup {c} ELSE S, {}, Loads)

Acceptable ==
  LoadsWith(LAMBDA c : (\A f \in DOMAIN c : Text[c[f]].yaml) /\ dp_preparsed_parser(Conf(c)))

\* Mutant: Valves that stay are not reloaded.
_apply_configs_New(c, cold) ==
  /\ valves' = Dps(c)
  /\ run' = run \cap (Dps(c) \ cold)
  /\ chan' = [d \in Dp |-> IF \/ d \in cold
                              \/ d \in valves \ Dps(c) /\ chan[d] \in {"new", "open"}
                           THEN "closed" ELSE chan[d]]
  /\ UNCHANGED rules

\* _apply_configs: the Valves that stay are reloaded, those that cannot be
\* warm started and those that are removed let their switch go.
_apply_configs(c, cold) ==
  /\ valves' = Dps(c)
  /\ run' = run \cap (Dps(c) \ cold)
  /\ chan' = [d \in Dp |-> IF \/ d \in cold
                              \/ d \in valves \ Dps(c) /\ chan[d] \in {"new", "open"}
                           THEN "closed" ELSE chan[d]]
  /\ rules' = [d \in Dp |-> IF d \in run' THEN c ELSE rules[d]]

\* The configuration is checked as a whole (dp_preparsed_parser), then applied.
\* Which datapaths start cold depends on what changed.
load_configs ==
  /\ pc = "apply"
  /\ LET c == Loaded(got) IN
     IF c \in Acceptable
     THEN /\ hashes' = got /\ live' = c
          /\ pc' = "idle" /\ todo' = {} /\ UNCHANGED <<look, got>>
          /\ \E cold \in SUBSET (IF c = live THEN {} ELSE run \cap Dps(c)) :
               _apply_configs(c, cold)
     ELSE Reject /\ UNCHANGED <<run, chan, rules>>
  /\ UNCHANGED <<file, auto, stats, event, edits>>

\* revert_config writes one file; if it cannot, it leaves the others.
revert_config ==
  /\ pc = "revert"
  /\ \E f \in todo :
       \/ /\ file' = [file EXCEPT ![f] = live[f]]
          /\ todo' = todo \ {f} /\ UNCHANGED edits
       \/ /\ edits < MaxEdits /\ edits' = edits + 1
          /\ todo' = {} /\ UNCHANGED file
  /\ pc' = IF todo' = {} THEN "idle" ELSE "revert"
  /\ UNCHANGED <<auto, hashes, stats, event, look, got, live, valves, run, chan, rules>>

\* The service manager starts the controller again, which knows nothing of what
\* it had loaded; the switches have lost their connections and keep their rules.
Restart ==
  /\ pc = "killed" /\ pc' = "start"
  /\ hashes' = <<>> /\ stats' = None /\ event' = FALSE
  /\ look' = [r \in Reader |-> NoLook]
  /\ got' = <<>> /\ todo' = {} /\ live' = <<>> /\ valves' = {} /\ run' = {}
  /\ chan' = [d \in Dp |-> "down"]
  /\ UNCHANGED <<file, auto, rules, edits>>

Reload ==
  \/ request_reload_configs \/ content_changed \/ ReadVersion \/ dp_include \/ ReadInclude
  \/ load_configs \/ revert_config

-----------------------------------------------------------------------------
(***************************************************************************)
(* Datapaths.  Their events are handled between reloads.                   *)
(***************************************************************************)

\* _datapath_connect; a datapath without a Valve is let go.
_datapath_connect(d) ==
  /\ pc = "idle" /\ chan[d] = "new"
  /\ IF d \in valves
     THEN /\ run' = run \cup {d} /\ rules' = [rules EXCEPT ![d] = live]
          /\ chan' = [chan EXCEPT ![d] = "open"]
     ELSE chan' = [chan EXCEPT ![d] = "closed"] /\ UNCHANGED <<run, rules>>
  /\ UNCHANGED <<file, auto, stats, event, config, edits>>

_datapath_disconnect(d) ==
  /\ pc = "idle" /\ chan[d] = "closed"
  /\ chan' = [chan EXCEPT ![d] = "down"]
  /\ run' = run \ {d}
  /\ UNCHANGED <<file, auto, stats, event, config, rules, edits>>

SwitchConnects(d) ==
  /\ pc # "killed" /\ chan[d] = "down"
  /\ chan' = [chan EXCEPT ![d] = "new"]
  /\ UNCHANGED <<file, auto, stats, event, config, run, rules, edits>>

SwitchLost(d) ==
  /\ pc # "killed" /\ chan[d] = "open" /\ edits < MaxEdits
  /\ chan' = [chan EXCEPT ![d] = "closed"]
  /\ edits' = edits + 1
  /\ UNCHANGED <<file, auto, stats, event, config, run, rules>>

Edit(f, c) ==
  /\ edits < MaxEdits /\ file[f] # c
  /\ file' = [file EXCEPT ![f] = c]
  /\ edits' = edits + 1
  /\ UNCHANGED <<auto, stats, event, config, run, chan, rules>>

Init ==
  /\ file \in [File -> Contents \cup {Absent}]
  /\ file["top"] \in TopContents /\ file["inc"] \in IncContents \cup {Absent}
  /\ auto \in BOOLEAN
  /\ hashes = <<>> /\ stats = None /\ event = FALSE
  /\ look = [r \in Reader |-> NoLook]
  /\ pc = "start" /\ got = <<>> /\ todo = {} /\ live = <<>>
  /\ valves = {} /\ run = {}
  /\ chan = [d \in Dp |-> "down"] /\ rules = [d \in Dp |-> <<>>]
  /\ edits = 0

Next ==
  \/ files_changed \/ _config_file_stat \/ _check_thread_exception \/ Restart
  \/ signal_handler \/ Reload
  \/ \E d \in Dp : \/ _datapath_connect(d) \/ _datapath_disconnect(d)
                   \/ SwitchConnects(d) \/ SwitchLost(d)
  \/ \E c \in TopContents : Edit("top", c)
  \/ \E c \in IncContents \cup {Absent} : Edit("inc", c)

Spec == Init /\ [][Next]_vars

\* The polling thread runs every few seconds, the other threads see when it has
\* died, the service manager restarts the controller, a reload ends, switches
\* try again.  The events of datapaths wait in one queue with those that ask for a
\* reload, so that none is put off for ever by others.
FairSpec ==
  /\ Spec
  /\ WF_vars(files_changed) /\ WF_vars(_config_file_stat) /\ WF_vars(Reload)
  /\ WF_vars(_check_thread_exception) /\ WF_vars(Restart)
  /\ \A d \in Dp : /\ SF_vars(_datapath_connect(d)) /\ SF_vars(_datapath_disconnect(d))
                   /\ WF_vars(SwitchConnects(d))
-----------------------------------------------------------------------------
(***************************************************************************)
(* Properties.                                                             *)
(***************************************************************************)

\* What the files say now, if that can be loaded.
Current ==
  LET inc == Text[file["top"]].inc IN
  IF inc # "no" /\ Present("inc") /\ Text[file["inc"]].yaml THEN file
  ELSE ("top" :> file["top"])
Loadable ==
  /\ Text[file["top"]].yaml
  /\ Text[file["top"]].inc = "req" => Present("inc") /\ Text[file["inc"]].yaml
  /\ Current \in Acceptable

\* Between reloads a switch that is served has been sent the configuration
\* that was loaded last, whole, and never a configuration that was rejected
\* (_apply_configs, datapath_connect).
ServedAsLoaded ==
  pc = "idle" => \A d \in run : rules[d] = live /\ live \in Acceptable

\* The datapaths of a stack number a tunnel's VLAN alike, though each one
\* numbers them for itself as it resolves its ACLs, in an order of its own
\* (get_tunnel_vlan): no tunnel breaks on the way.
Agreeing ==
  LoadsWith(LAMBDA c : c \in Acceptable => \A m, n \in DOMAIN Conf(c).dps :
                         TunnelVids(Conf(c), m) = TunnelVids(Conf(c), n))
TunnelsAgree == run # {} => live \in Agreeing

\* The rules of a served datapath's ACLs fit the tables laid out for all of
\* them, on VLANs, ports, the datapath or for tunnels, masked or not, so that
\* the assertion of _verify_flowmod does not fail while a switch is provisioned:
\* but for the tables that are exact matches, and for VLANs with an ACL that the
\* datapath uses elsewhere too, of which build keeps only the fields of its last
\* use.
UsedElsewhere(all, u) == \E i \in DOMAIN all : all[i].acl = u.acl /\ all[i].vid = 0
Fitting ==
  LoadsWith(LAMBDA c : c \in Acceptable => \A n \in DOMAIN Conf(c).dps :
    LET all == Uses(Conf(c), n) IN
    \A i \in DOMAIN all :
      LET u == all[i]
          t == _generate_acl_tables(Conf(c), n, u.table)
          its == Conf(c).acls[u.acl].rules
      IN t.exact \/ (u.vid # 0 /\ UsedElsewhere(all, u))
         \/ \A j \in DOMAIN its : _verify_flowmod(t, RuleMatch(its[j], u)))
RulesFit == run # {} => live \in Fitting

\* However the files are edited while they are checked and read, and though a
\* check may end the thread or the controller, the last edit wins: the
\* configuration that is in the files in the end, if it can be loaded, is the
\* one that runs; its datapaths are served with it, and no other is
\* (config_changed, dp_include, _delete_deconfigured_dp).  That a controller
\* that was killed is started again is up to the service manager.
LastEditWins ==
  <>[](Loadable =>
         /\ live = Current
         /\ \A d \in Dp : IF d \in Dps(live) THEN chan[d] = "open" /\ rules[d] = live
                          ELSE chan[d] # "open")

\* With auto revert, files that cannot be loaded do not last once there has
\* been a good configuration since the controller was started, though a write
\* may fail half way, unless a file is in the way that the good configuration
\* did not have (revert_config).  A file that is not UTF-8 is not reverted but
\* kills the controller (config_file_hash), which has no good configuration then.
BadConfigReverted ==
  <>[](auto /\ live # <<>> =>
         \/ Loadable
         \/ \E f \in File \ DOMAIN live : Present(f))
=============================================================================
