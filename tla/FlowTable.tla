------------------------------ MODULE FlowTable -----------------------------
(***************************************************************************)
(* OpenFlow messages, the order in which a batch of them is sent           *)
(* (valve_of.py, valve_table.py), and what a switch does with messages and *)
(* packets (clib/fakeoftable.py, the switch of the unit tests).            *)
(*                                                                         *)
(* A match is a set of <<field, value>> pairs.  A table is [flows, groups, *)
(* meters]: the table the rules are in, its groups and the meters' ids.    *)
(***************************************************************************)
EXTENDS Integers, Sequences, FiniteSets, SequencesExt, TLC

\* The cookie of a rule that does not set its own.
Cookie == 0

-----------------------------------------------------------------------------
(***************************************************************************)
(* Instructions [meter, acts, goto]; actions are tuples, goto a table.     *)
(***************************************************************************)
Stop == "none"
NoMeter == 0
Inst(meter, acts, goto) == [meter |-> meter, acts |-> acts, goto |-> goto]
Goto(table) == Inst(NoMeter, <<>>, table)

IsOutput(a) == a[1] \in {"out", "group"}

\* ValveTable._trim_inst: if no table follows, nothing after the last output
\* has an effect.
TrimInst(inst) ==
  LET outs == {i \in DOMAIN inst.acts : IsOutput(inst.acts[i])}
      last == CHOOSE i \in outs \cup {0} : \A j \in outs : j =< i
  IN IF inst.goto # Stop THEN inst
     ELSE [inst EXCEPT !.acts = SubSeq(@, 1, last)]

-----------------------------------------------------------------------------
(***************************************************************************)
(* Messages.                                                               *)
(***************************************************************************)
flowmod(match, prio, inst, cookie) ==
  [type |-> "flow", cmd |-> "add", match |-> match, prio |-> prio,
   cookie |-> cookie, inst |-> TrimInst(inst)]
flowdel(match, prio, strict) ==
  [type |-> "flow", cmd |-> IF strict THEN "delstrict" ELSE "del",
   match |-> match, prio |-> prio, cookie |-> Cookie, inst |-> Goto(Stop)]

groupdel(id) == [type |-> "group", cmd |-> "del", id |-> id]

groupadd(id, buckets) ==
  <<groupdel(id), [type |-> "group", cmd |-> "add", id |-> id, buckets |-> buckets]>>

meterdel(id) == [type |-> "meter", cmd |-> "del", id |-> id]
meteradd(id) == [type |-> "meter", cmd |-> "add", id |-> id]

\* Delete all the flows, the groups or the meters.
deleteglobal(type) == [type |-> type, cmd |-> "all"]

\* _msg_kind: the kind that decides a message's place in the batch.
Kind(m) ==
  CASE m.cmd = "all" -> "deleteglobal"
    [] m.cmd \in {"del", "delstrict"} -> "delete"
    [] m.cmd = "add" /\ m.type = "group" -> "groupadd"
    [] m.cmd = "add" /\ m.type = "meter" -> "meteradd"
    [] m.cmd = "add" /\ m.type = "flow" -> "flowaddmod"

OfKind(msgs, kind) == SelectSeq(msgs, LAMBDA m : Kind(m) = kind)

\* _flowmodkey: what makes two flow messages the same.
Key(m) == <<m.match, m.cookie, m.prio>>

\* dedupe_ofmsgs: of the messages with one key, the last takes the place of the
\* first (a Python dict); others than flow rules are the same if equal.
dedupe_ofmsgs(msgs) ==
  LET key(m) == IF Kind(m) = "flowaddmod" THEN Key(m) ELSE m
      same(i) == {j \in DOMAIN msgs : key(msgs[j]) = key(msgs[i])}
      firsts == {i \in DOMAIN msgs : \A j \in same(i) : i =< j}
      last(i) == CHOOSE j \in same(i) : \A k \in same(i) : k =< j
      order == SelectSeq([i \in DOMAIN msgs |-> i], LAMBDA i : i \in firsts)
  IN [n \in DOMAIN order |-> msgs[last(order[n])]]

\* Mutant: without reverse=True.
sort_flows_Ascending(msgs) ==
  LET before(i, j) == \/ msgs[i].prio < msgs[j].prio
                      \/ msgs[i].prio = msgs[j].prio /\ i < j
      order == SortSeq([i \in DOMAIN msgs |-> i], before)
  IN [n \in DOMAIN order |-> msgs[order[n]]]

\* sort_flows: rules of a higher priority come first.
sort_flows(msgs) ==
  LET before(i, j) == \/ msgs[i].prio > msgs[j].prio
                      \/ msgs[i].prio = msgs[j].prio /\ i < j
      order == SortSeq([i \in DOMAIN msgs |-> i], before)
  IN [n \in DOMAIN order |-> msgs[order[n]]]

\* remove_overlap_ofmsgs: a delete with the key of an added rule is dropped.
remove_overlap_ofmsgs(deletes, adds) ==
  LET keys == {Key(m) : m \in ToSet(adds)}
  IN SelectSeq(deletes, LAMBDA m : m.type # "flow" \/ Key(m) \notin keys)

\* valve_flowreorder: the batch as it is sent.  A global delete makes the other
\* deletes of its type superfluous.  dedupe_overlaps_ofmsgs also drops the
\* deletes of a table that one of all tables includes; there is one table here,
\* and the order of deletes makes no difference.
valve_flowreorder(msgs) ==
  LET global == dedupe_ofmsgs(OfKind(msgs, "deleteglobal"))
      types == {m.type : m \in ToSet(global)}
      deletes == dedupe_ofmsgs(SelectSeq(OfKind(msgs, "delete"),
                                         LAMBDA m : m.type \notin types))
      adds == sort_flows(dedupe_ofmsgs(OfKind(msgs, "flowaddmod")))
  IN global \o remove_overlap_ofmsgs(deletes, adds)
       \o dedupe_ofmsgs(OfKind(msgs, "groupadd"))
       \o dedupe_ofmsgs(OfKind(msgs, "meteradd")) \o adds

-----------------------------------------------------------------------------
(***************************************************************************)
(* The switch.                                                             *)
(***************************************************************************)
\* fte_matches: is flow f meant by message m?
fte_matches(m, f, strict) ==
  IF strict THEN m.match = f.match /\ m.prio = f.prio ELSE m.match \subseteq f.match

GroupsOf(f) == {a[2] : a \in {x \in ToSet(f.inst.acts) : x[1] = "group"}}

\* The flows that refer to a deleted group or meter are deleted with it; a
\* flow that refers to one that is not there is refused (OpenFlow 1.3.5 6.4,
\* 6.5, which the unit tests' switch reports as an error).
_apply_groupmod(t, m) ==
  CASE m.cmd = "all" -> [t EXCEPT !.groups = {},
                                  !.flows = {f \in @ : GroupsOf(f) = {}}]
    [] m.cmd = "del" -> [t EXCEPT !.groups = {g \in @ : g.id # m.id},
                                  !.flows = {f \in @ : m.id \notin GroupsOf(f)}]
    [] m.cmd = "add" ->
         [t EXCEPT !.groups = @ \cup {[id |-> m.id, buckets |-> m.buckets]}]

_apply_metermod(t, m) ==
  CASE m.cmd = "all" -> [t EXCEPT !.meters = {},
                                  !.flows = {f \in @ : f.inst.meter = NoMeter}]
    [] m.cmd = "del" -> [t EXCEPT !.meters = @ \ {m.id},
                                  !.flows = {f \in @ : f.inst.meter # m.id}]
    [] m.cmd = "add" -> [t EXCEPT !.meters = @ \cup {m.id}]

_apply_flowmod(t, m) ==
  CASE m.cmd = "all" -> [t EXCEPT !.flows = {}]
    [] m.cmd \in {"del", "delstrict"} ->
         [t EXCEPT !.flows = {f \in @ : ~fte_matches(m, f, m.cmd = "delstrict")}]
    [] m.cmd = "add" ->
         IF /\ GroupsOf(m) \subseteq {g.id : g \in t.groups}
            /\ m.inst.meter \in t.meters \cup {NoMeter}
         THEN [t EXCEPT !.flows = {f \in @ : ~fte_matches(m, f, TRUE)}
                          \cup {[match |-> m.match, prio |-> m.prio,
                                 inst |-> m.inst]}]
         ELSE t

apply_ofmsg(t, m) ==
  CASE m.type = "flow"  -> _apply_flowmod(t, m)
    [] m.type = "group" -> _apply_groupmod(t, m)
    [] m.type = "meter" -> _apply_metermod(t, m)

\* The table of a switch that has executed a batch that deletes everything.
Installed(batch) ==
  [flows |-> {[match |-> m.match, prio |-> m.prio, inst |-> m.inst] :
                m \in ToSet(OfKind(batch, "flowaddmod"))},
   groups |-> {[id |-> m.id, buckets |-> m.buckets] :
                m \in ToSet(OfKind(batch, "groupadd"))},
   meters |-> {m.id : m \in ToSet(OfKind(batch, "meteradd"))}]

(***************************************************************************)
(* Packets are [hdr, tags]: header fields and VLAN tags, <<vid, pcp>>, the *)
(* outermost first.                                                        *)
(***************************************************************************)
Fields(pkt, port) ==
  pkt.hdr \cup {<<"in_port", port>>}
    \cup IF pkt.tags = <<>> THEN {}
         ELSE {<<"vlan_vid", pkt.tags[1][1]>>, <<"vlan_pcp", pkt.tags[1][2]>>}

\* single_table_lookup: the flows that may be taken, the matching ones of the
\* highest priority.
Lookup(t, pkt, port) ==
  LET hits == {f \in t.flows : f.match \subseteq Fields(pkt, port)}
  IN {f \in hits : \A g \in hits : g.prio =< f.prio}

\* _process_instruction: r is the packet so far and what was output.  As in the
\* unit tests' switch, all the buckets of a group are taken.
Process(t, r, a) ==
  CASE a[1] = "out"   -> [r EXCEPT !.outs = @ \cup {<<a[2], r.pkt>>}]
    [] a[1] = "group" ->
         [r EXCEPT !.outs = @ \cup {<<p, r.pkt>> : p \in
            UNION {g.buckets : g \in {x \in t.groups : x.id = a[2]}}}]
    [] a[1] = "push"  -> [r EXCEPT !.pkt.tags = <<<<a[2], 0>>>> \o @]
    [] a[1] = "pcp"   -> [r EXCEPT !.pkt.tags[1][2] = a[2]]
    [] a[1] = "pop"   -> [r EXCEPT !.pkt.tags = Tail(@)]
    [] a[1] = "set"   ->
         [r EXCEPT !.pkt.hdr = {x \in @ : x[1] # a[2][1]} \cup {a[2]}]

\* get_table_output: where a packet goes by flow f, a table it is sent to with
\* the packet as it is then included.
TableOutput(t, f, pkt) ==
  LET acts == f.inst.acts
      after[i \in 0..Len(acts)] ==
        IF i = 0 THEN [pkt |-> pkt, outs |-> {}]
        ELSE Process(t, after[i - 1], acts[i])
      r == after[Len(acts)]
  IN r.outs \cup (IF f.inst.goto = Stop THEN {} ELSE {<<f.inst.goto, r.pkt>>})

\* All that may become of a packet.
Outputs(t, pkt, port) ==
  LET fs == Lookup(t, pkt, port)
  IN IF fs = {} THEN {{}} ELSE {TableOutput(t, f, pkt) : f \in fs}
=============================================================================
