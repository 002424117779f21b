------------------------------- MODULE Views -------------------------------
(***************************************************************************)
(* What an observer is shown of a Runtime, and in which version.           *)
(*                                                                         *)
(* EntityVisibilityPolicy filters snapshots, mutations and presentation    *)
(* events, each by code of its own.  Here an observer subscribes (it is    *)
(* sent a filtered snapshot), follows (it is sent the mutations up to a    *)
(* later state, filtered one by one) and is shown cues.  A policy is a     *)
(* table of the evaluators' answers; an evaluator may fail.                *)
(* SchemaRegistry is a graph of payload migrations that grows until it is  *)
(* sealed.                                                                 *)
(***************************************************************************)
EXTENDS Mutations

CONSTANTS Focus,        \* the parts of the state the questions are about
          Question(_),  \* the policies and pairs of states asked of each part
          Version,      \* versions of a schema
          Faulty        \* the migrations <<from, to>> that fail

VARIABLES job,       \* one observer, or nobody
          registry   \* the migrations registered so far

Nobody == 0
NoHandle == 0

(* An answer of a filter: a value, nothing, or an error. *)
Shown(v) == [ok |-> TRUE, vals |-> {v}]
Dropped == [ok |-> TRUE, vals |-> {}]
Failed == [ok |-> FALSE, vals |-> {}]
The(r) == CHOOSE v \in r.vals : TRUE

(* Questions are asked in order; the first that is not answered "yes" decides. *)
Decide(answers, v) ==
    LET others == SelectSeq(answers, LAMBDA a : a # "yes")
    IN  IF others = <<>> THEN Shown(v) ELSE IF Head(others) = "no" THEN Dropped ELSE Failed

(* A question whose "no" takes away a part of the value, not all of it. *)
Asked(answer) == IF answer = "no" THEN "yes" ELSE answer

-----------------------------------------------------------------------------
(* The evaluators *)

Visible(p, e) == IF e = Nobody THEN "yes" ELSE p.entity[e]

FieldVisible(p, field, handle) ==
    IF p.field[field] = "yes" /\ handle \in p.secret THEN "no" ELSE p.field[field]

Named(p, e) == IF Visible(p, e) = "yes" THEN e ELSE Nobody

MissingValue(v) == [base |-> v.base, here |-> FALSE, ent |-> Nobody, list |-> <<>>, fields |-> <<>>]

Withheld(p, base) == \/ p.spatial /\ base \in {"hit", "position", "direction", "path"}
                     \/ p.opaque /\ base \in {"snapshot_token", "process"}

RECURSIVE RedactRuntimeValue(_, _)
RedactRuntimeValue(p, v) ==
    LET parts == [i \in DOMAIN v.fields |-> RedactRuntimeValue(p, v.fields[i])]
        answer == Visible(p, v.ent)
    IN  CASE ~v.here -> Shown(v)
          [] v.here /\ v.base = "entity_list" ->
               IF \E i \in DOMAIN v.list : Visible(p, v.list[i]) = "error" THEN Failed
               ELSE Shown([v EXCEPT !.list = SelectSeq(@, LAMBDA e : Visible(p, e) = "yes")])
          [] v.here /\ v.base = "effect_result" ->
               IF \E i \in DOMAIN parts : ~parts[i].ok THEN Failed
               ELSE Shown([v EXCEPT !.fields = [i \in DOMAIN parts |-> The(parts[i])]])
          [] OTHER -> IF answer = "error" THEN Failed
                      ELSE Shown(IF answer = "no" \/ Withheld(p, v.base) THEN MissingValue(v) ELSE v)

(* A persistent state that passes, with its value redacted. *)
Revalued(p, v, passed) ==
    LET value == RedactRuntimeValue(p, v.value)
    IN  IF passed.vals = {} THEN passed ELSE IF ~value.ok THEN Failed ELSE Shown([v EXCEPT !.value = The(value)])

(* Where a process is, unless spatial fields are withheld. *)
Placed(p, v) == IF p.spatial \/ FieldVisible(p, "process_spatial", NoHandle) # "yes" THEN 0 ELSE v.place

-----------------------------------------------------------------------------
(* Snapshots.  Keys: <<cast>>, <<caster, program>> of cooldowns, resources  *)
(* and policies, <<owner, handle>> of abilities, <<process>>, and           *)
(* <<handle, owner, subject>> of persistent states.                         *)

FieldOf == [ability |-> "abilities", cast |-> "casts", clock |-> "clock", cooldown |-> "cooldowns",
            persistent |-> "persistent_state", policy |-> "policies", process |-> "processes", resource |-> "resources"]

(* One entry of a snapshot. *)
FilterEntry(p, d, k, v) ==
    LET field == FieldVisible(p, FieldOf[d], NoHandle)
        owner == Visible(p, k[2])
        subject == Visible(p, k[3])
    IN  CASE d = "cast" ->
               Decide(<<field, Visible(p, v.caster), Asked(Visible(p, v.target))>>, [v EXCEPT !.target = Named(p, @)])
          [] d \in {"cooldown", "resource", "ability", "policy"} -> Decide(<<field, Visible(p, k[1])>>, v)
          [] d = "process" ->
               Decide(<<field, Visible(p, v.owner), Asked(Visible(p, v.entity)), Asked(Visible(p, v.carry))>>,
                      [v EXCEPT !.entity = Named(p, @), !.carry = Named(p, @), !.place = Placed(p, v)])
          [] d = "persistent" ->
               Revalued(p, v, Decide(<<FieldVisible(p, "persistent_state", k[1]), Asked(owner), Asked(subject),
                                       owner, subject, FieldVisible(p, "persistent_value", k[1])>>, v))

AskedFirst == {"clock", "casts", "cooldowns", "resources", "abilities", "processes", "process_spatial", "policies"}

FilterStateSnapshot(p, s) ==
    LET shown == [d \in DOMAIN s \ {"tick", "rev"} |-> [k \in DOMAIN s[d] |-> FilterEntry(p, d, k, s[d][k])]]
        clock == p.field["clock"] = "yes"
        kept(d) == {k \in DOMAIN shown[d] : shown[d][k].vals # {}}
    IN  IF \/ \E f \in AskedFirst : p.field[f] = "error"
           \/ \E d \in DOMAIN shown : \E k \in DOMAIN shown[d] : ~shown[d][k].ok
        THEN Failed
        ELSE Shown([d \in DOMAIN shown |-> [k \in kept(d) |-> The(shown[d][k])]]
                   @@ [tick |-> IF clock THEN s.tick ELSE 0, rev |-> IF clock THEN s.rev ELSE 0])

-----------------------------------------------------------------------------
(* Mutations.  A removal names no entity of a cast, a process or a          *)
(* persistent state: everybody is told.                                     *)

MutationHandle(m) == CASE m.kind = "ability" -> m.key[2]
                       [] m.kind = "persistent" -> m.key[1]
                       [] OTHER -> NoHandle

(* Seeded bug of MutationEntity: a cast is of its target. *)
MutationTarget(m) == CASE m.op = "remove" /\ m.kind \in {"cast", "process", "persistent"} -> Nobody
                       [] m.op = "upsert" /\ m.kind = "cast" -> m.val.target
                       [] m.op = "upsert" /\ m.kind = "process" -> m.val.owner
                       [] m.op = "upsert" /\ m.kind = "persistent" -> m.key[2]
                       [] m.kind = "clock" -> Nobody
                       [] OTHER -> m.key[1]

MutationEntity(m) ==
    CASE m.kind \in {"cooldown", "resource", "policy", "ability"} -> m.key[1]
      [] m.kind = "cast" /\ m.op = "upsert" -> m.val.caster
      [] m.kind = "process" /\ m.op = "upsert" -> m.val.owner
      [] m.kind = "persistent" /\ m.op = "upsert" -> m.key[2]
      [] OTHER -> Nobody

FilterStateMutation(p, m) ==
    LET first == <<FieldVisible(p, FieldOf[m.kind], MutationHandle(m)), Visible(p, MutationEntity(m))>>
        v == m.val
        state == Revalued(p, v, Decide(first \o <<Visible(p, m.key[3]), FieldVisible(p, "persistent_value", m.key[1])>>, v))
    IN  CASE m.op = "remove" \/ m.kind \notin {"cast", "process", "persistent"} -> Decide(first, m)
          [] m.op = "upsert" /\ m.kind = "cast" ->
               Decide(first \o <<Asked(Visible(p, v.target))>>, [m EXCEPT !.val.target = Named(p, @)])
          [] m.op = "upsert" /\ m.kind = "process" ->
               Decide(first \o <<Asked(Visible(p, v.entity)), Asked(Visible(p, v.carry)),
                                 Asked(FieldVisible(p, "process_spatial", NoHandle))>>,
                      [m EXCEPT !.val = [@ EXCEPT !.entity = Named(p, @), !.carry = Named(p, @), !.place = Placed(p, v)]])
          [] m.op = "upsert" /\ m.kind = "persistent" ->
               IF state.vals = {} THEN state ELSE Shown([m EXCEPT !.val = The(state)])

-----------------------------------------------------------------------------
(* Presentation events: of a cast, of one of its effects, of a process.     *)

Event(cast, anchor) ==
    [source |-> cast.caster, primary |-> cast.target, process |-> anchor.process, placed |-> anchor.placed,
     from |-> IF anchor.source = Nobody THEN cast.caster ELSE anchor.source,
     to |-> IF anchor.target = Nobody THEN cast.target ELSE anchor.target]

Anchor(source, target, placed) == [source |-> source, target |-> target, placed |-> placed, process |-> <<>>]

(* A process whose cast is gone has its owner for a caster; a signal may    *)
(* have a target of its own.                                                *)
DetachedCast(v) == [caster |-> v.owner, target |-> v.entity]
ProcessEvent(cast, k, v, signal) ==
    Event(cast, [Anchor(v.owner, IF signal = Nobody THEN v.entity ELSE signal, TRUE) EXCEPT !.process = k])

CastEvents(c) ==
    {Event(c, Anchor(c.caster, c.target, FALSE))}
    \cup {Event(c, Anchor(s, t, TRUE)) : s \in {Nobody, c.caster, c.target}, t \in {Nobody, c.caster, c.target}}
Events(w) ==
    LET casts == {w.cast[k] : k \in DOMAIN w.cast}
        of(k) == LET v == w.process[k]
                 IN  {ProcessEvent(c, k, v, t) : c \in casts \cup {DetachedCast(v)}, t \in {Nobody, v.carry}}
    IN  UNION {CastEvents(c) : c \in casts} \cup UNION {of(k) : k \in DOMAIN w.process}

FilterPresentation(p, e) ==
    LET spatial == FieldVisible(p, "presentation_spatial", NoHandle)
    IN  Decide(<<FieldVisible(p, "presentation", NoHandle), Visible(p, e.source), Visible(p, e.from),
                 Asked(Visible(p, e.to)), Asked(Visible(p, e.primary)), Asked(spatial)>>,
               [e EXCEPT !.to = Named(p, @), !.primary = Named(p, @), !.placed = @ /\ ~p.spatial /\ spatial = "yes"])

-----------------------------------------------------------------------------
(* An observer                                                              *)

StateSnapshot(w) ==
    LET left(k) == IF k \in DOMAIN w.cooldown THEN AtLeast0(w.cooldown[k] - w.tick) ELSE 0
    IN  [tick |-> w.tick, rev |-> w.rev,
         cast |-> [k \in DOMAIN w.cast |-> [elapsed |-> w.tick - w.cast[k].start] @@ w.cast[k]],
         cooldown |-> [k \in DOMAIN w.cooldown |-> [due |-> w.cooldown[k], left |-> left(k)]],
         ability |-> [k \in DOMAIN w.ability |-> [left |-> left(w.ability[k].prog)] @@ w.ability[k]],
         process |-> w.process, resource |-> w.resource, policy |-> w.policy, persistent |-> w.persistent]

NoJob == [stage |-> "none"]

Subscribe ==
    /\ job.stage = "none"
    /\ \E f \in Focus : \E q \in Question(f) :
         LET r == FilterStateSnapshot(q.policy, StateSnapshot(q.was))
         IN  job' = IF r.ok THEN [stage |-> "subscribed", q |-> q, client |-> The(r)] ELSE [stage |-> "refused"]

Follow ==
    /\ job.stage = "subscribed"
    /\ LET was == StateSnapshot(job.q.was)
           now == StateSnapshot(job.q.now)
           muts == InOrder(DiffRuntimeState(was, now))
           told == [i \in DOMAIN muts |->
                      FilterStateMutation(job.q.policy, muts[i] @@ [tick |-> now.tick, rev |-> now.rev])]
           kept == SelectSeq(told, LAMBDA r : r.vals # {})
       IN  job' = IF \E i \in DOMAIN told : ~told[i].ok THEN [stage |-> "refused"]
                  ELSE [job EXCEPT !.stage = "current",
                                   !.client = Fold(@, [i \in DOMAIN kept |-> The(kept[i])])]

Present ==
    /\ job.stage = "current" /\ job.q.cues
    /\ \E e \in Events(job.q.now) :
         LET r == FilterPresentation(job.q.policy, e)
         IN  /\ r.vals # {}
             /\ job' = [job EXCEPT !.stage = "cued"] @@ [cue |-> The(r)]

Leave == job # NoJob /\ job' = NoJob

JobNext == Subscribe \/ Follow \/ Present \/ Leave

-----------------------------------------------------------------------------
(* Schemas *)

InRange(range, version) == range.min # 0 /\ version \in range.min..range.max

NegotiateSchema(server, client) ==
    LET least == Max({server.min, client.min})
        most == Min({server.max, client.max})
    IN  IF least = 0 \/ least > most THEN Failed ELSE Shown(most)

Unregistered == [edges |-> {}, sealed |-> FALSE]

Register(from, to) ==
    /\ ~registry.sealed /\ from # to /\ <<from, to>> \notin registry.edges
    /\ registry' = [registry EXCEPT !.edges = @ \cup {<<from, to>>}]

Seal == ~registry.sealed /\ registry' = [registry EXCEPT !.sealed = TRUE]

RegistryNext == Seal \/ \E from, to \in Version : Register(from, to)

(* Seeded bug of Search: the highest versions first. *)
RECURSIVE SearchFromNewest(_, _, _, _)
SearchFromNewest(edges, to, queue, visited) ==
    IF queue = <<>> THEN Failed
    ELSE LET path == Head(queue)
             next == SetToSortSeq({v \in Version : <<Last(path), v>> \in edges /\ v \notin visited}, >)
         IN  IF to \in ToSet(next) THEN Shown(Append(path, to))
             ELSE SearchFromNewest(edges, to, Tail(queue) \o [i \in DOMAIN next |-> Append(path, next[i])],
                             visited \cup ToSet(next))

(* Breadth first, the versions next to one in ascending order. *)
RECURSIVE Search(_, _, _, _)
Search(edges, to, queue, visited) ==
    IF queue = <<>> THEN Failed
    ELSE LET path == Head(queue)
             next == SetToSortSeq({v \in Version : <<Last(path), v>> \in edges /\ v \notin visited}, <)
         IN  IF to \in ToSet(next) THEN Shown(Append(path, to))
             ELSE Search(edges, to, Tail(queue) \o [i \in DOMAIN next |-> Append(path, next[i])],
                         visited \cup ToSet(next))

MigrationPath(edges, from, to) ==
    IF from = to THEN Shown(<<from>>) ELSE Search(edges, to, <<<<from>>>>, {from})

(* The payload that comes out: the versions it was rewritten to. *)
Migrate(edges, from, to) ==
    LET path == MigrationPath(edges, from, to)
        step(r, i) == IF ~r.ok \/ <<The(path)[i - 1], The(path)[i]>> \in Faulty THEN Failed
                      ELSE Shown(Append(The(r), The(path)[i]))
    IN  IF ~path.ok THEN Failed ELSE FoldLeft(step, Shown(<<>>), [i \in 1..(Len(The(path)) - 1) |-> i + 1])

-----------------------------------------------------------------------------
(* Properties *)

(* An evaluator whose deltas can be folded: it shows the clock, which every *)
(* mutation carries; the cooldowns of the abilities it shows, from which    *)
(* the fold derives; and all abilities of an owner, since a snapshot does   *)
(* not ask for one handle (visibility.go:117, 346).                         *)
Coherent(p) ==
    /\ p.field["clock"] = "yes"
    /\ p.field["abilities"] = "yes" => p.field["cooldowns"] = "yes"

(* What an observer has folded is what it would be sent now: no filtered    *)
(* delta is missing, and none shows or hides what a filtered snapshot does  *)
(* not (visibility.go:57, 216).                                             *)
ClientSeesSnapshot ==
    job.stage = "current" /\ Coherent(job.q.policy) =>
        LET now == StateSnapshot(job.q.now)
            r == FilterStateSnapshot(job.q.policy, now)
            asked == \A k \in DOMAIN job.q.was.ability \cup DOMAIN now.ability : k[2] \notin job.q.policy.secret
        IN  r.ok /\ asked => job.client = The(r)

RECURSIVE EntitiesOf(_)
EntitiesOf(v) == IF ~v.here THEN {} ELSE {v.ent} \cup ToSet(v.list) \cup UNION {EntitiesOf(v.fields[i]) : i \in DOMAIN v.fields}

NamedIn(s) ==
    UNION {{s.cast[k].caster, s.cast[k].target} : k \in DOMAIN s.cast}
    \cup UNION {{s.process[k].owner, s.process[k].entity, s.process[k].carry} : k \in DOMAIN s.process}
    \cup UNION {{k[2], k[3]} \cup EntitiesOf(s.persistent[k].value) : k \in DOMAIN s.persistent}
    \cup {k[1] : k \in DOMAIN s.cooldown \cup DOMAIN s.resource \cup DOMAIN s.policy \cup DOMAIN s.ability}

(* Nothing an observer is sent names an entity its policy did not show.     *)
OnlyVisibleIsNamed ==
    /\ job.stage \in {"subscribed", "current", "cued"} =>
         \A e \in NamedIn(job.client) : Visible(job.q.policy, e) = "yes"
    /\ job.stage = "cued" =>
         \A e \in {job.cue.source, job.cue.primary, job.cue.from, job.cue.to} : Visible(job.q.policy, e) = "yes"

(* A cue about a process is shown to who has been shown the process.        *)
CuesHaveSubjects ==
    job.stage = "cued" /\ job.cue.process # <<>> /\ job.q.policy.field["processes"] = "yes" =>
        job.cue.process \in DOMAIN job.client.process

ViewsAgree == ClientSeesSnapshot /\ OnlyVisibleIsNamed /\ CuesHaveSubjects

(* Two sides that have a version in common agree on the greatest of them.   *)
NegotiationIsCommon ==
    LET ranges == [min : Version, max : Version]
    IN  \A server, client \in ranges :
            LET common == {v \in Version : InRange(server, v) /\ InRange(client, v)}
                agreed == NegotiateSchema(server, client)
            IN  agreed = IF common = {} THEN Failed ELSE Shown(Max(common))

(* All paths that visit no version twice, and which of two is taken first.  *)
Paths == [from, to \in Version |->
            {s \in SeqOf(Version, Cardinality(Version)) : s # <<>> /\ IsInjective(s) /\ s[1] = from /\ Last(s) = to}]
Earlier(s, t) == \/ Len(s) < Len(t)
                 \/ Len(s) = Len(t) /\ \E i \in DOMAIN s : s[i] < t[i] /\ \A j \in 1..(i - 1) : s[j] = t[j]

(* A payload takes the shortest path there is, of several the one of the    *)
(* lowest versions, in whatever order its migrations were registered, and   *)
(* every step of it or none (schema.go:59).                                 *)
MigrationsAreShortest ==
    registry.sealed =>
        \A from, to \in Version :
            LET steps(s) == {<<s[i - 1], s[i]>> : i \in 2..Len(s)}
                open == {s \in Paths[from, to] : steps(s) \subseteq registry.edges}
                path == MigrationPath(registry.edges, from, to)
                payload == Migrate(registry.edges, from, to)
            IN  /\ path.ok <=> open # {}
                /\ path.ok => The(path) \in open /\ \A s \in open : ~Earlier(s, The(path))
                /\ payload = IF path.ok /\ steps(The(path)) \cap Faulty = {} THEN Shown(Tail(The(path))) ELSE Failed

SchemasAgree == NegotiationIsCommon /\ MigrationsAreShortest
=============================================================================
