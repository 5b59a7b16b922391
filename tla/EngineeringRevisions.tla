-------------------------- MODULE EngineeringRevisions --------------------------
(***************************************************************************)
(* Vehicle configurations, aero decks and motors: routers/                 *)
(* engineering_configs.py, engineering_aero.py, engineering_motors.py,     *)
(* engineering_frame.py and services/engineering. An item is an identity   *)
(* with immutable revisions, one of them active; a revision of a           *)
(* configuration is exported as a bundle of files named by its content.    *)
(*                                                                         *)
(* A handler reads, awaits HAROLD, and goes on without a pause until it    *)
(* commits: each of these is a step. Numbers are PartNumbers' matter; the  *)
(* letters of the revisions are here. Requests on several workers meet     *)
(* between any two steps, so a check and its commit are steps of their own *)
(* where the code does not leave that to the database.                     *)
(***************************************************************************)
EXTENDS Naturals, Sequences, FiniteSets, FiniteSetsExt

CONSTANTS
  Requests,    \* requests, each made once
  Names,       \* canonical names HAROLD reads from the names of files
  Masses,
  Bodies,      \* configurations that are submitted: [comps, oml, aero, stages]
  Omls,        \* parts that a deck is made for
  Seeds,       \* what earlier requests have left: [items, parts, frame]
  MaxFrame,    \* bound: revisions of the frame
  MaxFailures, \* bound: outages, failed commits, lost files
  None

VARIABLES
  item,      \* VehicleConfig, AeroDeck, Motor rows: [kind, name, revs, active, oml, part]
  part,      \* CatalogPart rows: [mass, live, measured], measured: CG and source document are there
  frame,     \* number of revisions of the frame document
  letters,   \* HAROLD's ledger: <<item, letter>>
  exports,   \* ConfigBundleExport rows: [hash, manifest]
  disk,      \* zips under the exports directory: [hash, manifest, filling], filling:
             \* the request that opened it and has not closed it
  request, failures,
  raced      \* bundles two new exports wrote at once, motors whose part was found,
             \* edited or written over since they were selected (properties only)

engVars == <<item, part, frame, letters, exports, disk, request, failures, raced>>
store == <<item, part, frame, letters>>
bundles == <<exports, disk>>

IsSeq(s) == s \in Seq({s[x] : x \in DOMAIN s})

\* Tables as earlier requests leave them: an item has an active revision, and a
\* motor a part, which weighs what that revision says.
Consistent(items, parts) ==
  /\ IsSeq(items) /\ IsSeq(parts)
  /\ \A p \in DOMAIN parts : "mass" \in DOMAIN parts[p]
  /\ \A k \in DOMAIN items :
       /\ {"kind", "revs", "active", "part"} \subseteq DOMAIN items[k]
       /\ IsSeq(items[k].revs) /\ items[k].active \in DOMAIN items[k].revs
       /\ items[k].kind = "motor" => items[k].part \in DOMAIN parts \cup {None}
EngineeringAssumption ==
  /\ None \notin Requests
  /\ \A seed \in Seeds :
       /\ Consistent(seed.items, seed.parts)
       /\ \A k \in DOMAIN seed.items : LET row == seed.items[k] IN
            row.kind = "motor" /\ row.part # None =>
              seed.parts[row.part].mass = row.revs[row.active].body.mass

EngineeringInit ==
  /\ \E seed \in Seeds : item = seed.items /\ part = seed.parts /\ frame = seed.frame
  /\ letters = UNION {{<<k, item[k].revs[r].letter>> : r \in DOMAIN item[k].revs} : k \in DOMAIN item}
  /\ exports = {} /\ disk = {}
  /\ request = [q \in Requests |-> [op |-> "idle"]]
  /\ failures = 0 /\ raced = {}

Then(q, next) == request' = [request EXCEPT ![q] = next]
Ends(q) == Then(q, [op |-> "done"])
Idle(q) == request[q].op = "idle"
Of(kind) == {k \in DOMAIN item : item[k].kind = kind}
Latest(k) == item[k].revs[Len(item[k].revs)]
Fault == failures < MaxFailures /\ failures' = failures + 1

Revision(letter, body) == [letter |-> letter, body |-> body]
---------------------------------------------------------------------------
(* What a configuration may hold *)

InCatalog(p) == p \in DOMAIN part /\ part[p].live
\* By identity and letter; the letter is looked up among the item's revisions.
Resolves(use, kind) ==
  use[1] \in Of(kind) /\ \E r \in DOMAIN item[use[1]].revs : item[use[1]].revs[r].letter = use[2]

\* An OML that the deck's revision or else the deck names has to be the configuration's.
DeckOml(use) ==
  LET revs == item[use[1]].revs  r == CHOOSE x \in DOMAIN revs : revs[x].letter = use[2] IN
  IF revs[r].body.oml # None THEN revs[r].body.oml ELSE item[use[1]].oml

ValidBody(b) ==
  /\ \A p \in b.comps : InCatalog(p) /\ part[p].measured
  /\ Cardinality(b.oml) <= 1
  /\ b.aero # None =>
       /\ b.oml # {} /\ Resolves(b.aero, "aero")
       /\ DeckOml(b.aero) # None => b.oml = {DeckOml(b.aero)}
  /\ \A s \in b.stages : Resolves(s, "motor")

Rollup(comps) == MapThenSumSet(LAMBDA p : part[p].mass, comps)

\* validate_and_build_revision_content
Build(b, icdRev) ==
  [comps |-> b.comps, aero |-> b.aero, stages |-> b.stages,
   frame |-> icdRev, total |-> Rollup(b.comps)]

EnsureFrame == IF frame = 0 THEN 1 ELSE frame
RegisterFrame(q, changed) ==
  /\ Idle(q) /\ frame < MaxFrame
  /\ frame' = IF frame # 0 /\ changed THEN frame + 1 ELSE EnsureFrame
  /\ Ends(q)
  /\ UNCHANGED <<item, part, letters, bundles, failures, raced>>
---------------------------------------------------------------------------
(* New identities and revisions: content first, then HAROLD, then the rows *)

NewItem(kind, name, body) == [op |-> "new", kind |-> kind, name |-> name, body |-> body]
NewRevision(k, body, oml) == [op |-> "ask", item |-> k, body |-> body, oml |-> oml]

\* The frame is committed even if the configuration is refused.
SubmitConfig(q, b, next) ==
  /\ Idle(q)
  /\ frame' = EnsureFrame
  /\ IF ValidBody(b) THEN Then(q, next) ELSE Ends(q)
  /\ UNCHANGED <<item, part, letters, bundles, failures, raced>>
CreateConfig(q, b) == SubmitConfig(q, b, NewItem("config", None, Build(b, EnsureFrame)))
ReviseConfig(q, k, b) ==
  item[k].kind = "config" /\ SubmitConfig(q, b, NewRevision(k, Build(b, EnsureFrame), None))

\* The latest content as it was validated, though its parts may be gone.
CloneConfig(q, k) ==
  /\ Idle(q) /\ item[k].kind = "config"
  /\ Then(q, NewItem("config", None, Latest(k).body))
  /\ UNCHANGED <<store, bundles, failures, raced>>

\* After the precheck: the name decides between a revision and an identity.
Named(kind, name) == {k \in Of(kind) : item[k].name = name}

DeckBody(k, oml) == [oml |-> IF oml # None THEN oml ELSE item[k].oml]
IngestDeck(q, name, oml) ==
  /\ Idle(q)
  /\ \/ \E k \in Named("aero", name) : Then(q, NewRevision(k, DeckBody(k, oml), oml))
     \/ Named("aero", name) = {} /\ Then(q, NewItem("aero", name, [oml |-> oml]))
  /\ UNCHANGED <<store, bundles, failures, raced>>

IngestMotor(q, name, mass) ==
  /\ Idle(q)
  /\ \/ \E k \in Named("motor", name) : Then(q, NewRevision(k, [mass |-> mass], None))
     \/ Named("motor", name) = {} /\ Then(q, NewItem("motor", name, [mass |-> mass]))
  /\ UNCHANGED <<store, bundles, failures, raced>>

\* The endpoints that name their deck or motor.
ReviseItem(q, k, oml, mass) ==
  /\ Idle(q)
  /\ \/ item[k].kind = "aero" /\ Then(q, NewRevision(k, DeckBody(k, oml), oml))
     \/ item[k].kind = "motor" /\ Then(q, NewRevision(k, [mass |-> mass], None))
  /\ UNCHANGED <<store, bundles, failures, raced>>

DesignMotor(q, name, mass) ==
  /\ Idle(q)
  /\ Then(q, NewItem("motor", name, [mass |-> mass]))
  /\ UNCHANGED <<store, bundles, failures, raced>>

\* allocate_and_persist; a motor gets a row in the catalog, with a mass only,
\* or a row that somebody gave this number already, as it is.
MotorPart(mass) == [mass |-> mass, live |-> TRUE, measured |-> FALSE]
NewRow(c, own) ==
  [kind |-> c.kind, name |-> c.name, revs |-> <<Revision(1, c.body)>>, active |-> 1,
   oml |-> IF c.kind = "aero" THEN c.body.oml ELSE None, part |-> own]
EnsureCatalogEntry(k, own, mass) ==
  \/ /\ own = Len(part) + 1
     /\ part' = Append(part, MotorPart(mass))
     /\ UNCHANGED raced
  \/ /\ own \in DOMAIN part /\ part[own].live
     /\ raced' = raced \cup {<<"motor", k>>}
     /\ UNCHANGED part
PersistItem(q) ==
  LET c == request[q]  k == Len(item) + 1 IN
  /\ c.op = "new"
  /\ \/ /\ c.kind = "motor"
        /\ \E own \in 1 .. Len(part) + 1 :
             item' = Append(item, NewRow(c, own)) /\ EnsureCatalogEntry(k, own, c.body.mass)
     \/ /\ c.kind # "motor"
        /\ item' = Append(item, NewRow(c, None))
        /\ UNCHANGED <<part, raced>>
  /\ letters' = letters \cup {<<k, 1>>}
  /\ Ends(q)
  /\ UNCHANGED <<frame, bundles, failures>>

\* issue_revision: the letter after the last that HAROLD gave out.
NextLetter(k) == Max({l[2] : l \in {x \in letters : x[1] = k}}) + 1
IssueLetter(q) ==
  LET k == request[q].item IN
  /\ request[q].op = "ask"
  /\ letters' = letters \cup {<<k, NextLetter(k)>>}
  /\ Then(q, [op |-> "revise", item |-> k, body |-> request[q].body, oml |-> request[q].oml,
              letter |-> NextLetter(k)])
  /\ UNCHANGED <<item, part, frame, bundles, failures, raced>>

\* A motor's revisions are made active by set_active_revision only.
Activates_Always(kind) == TRUE
Activates(kind) == kind # "motor"

PersistRevision(q) ==
  LET c == request[q]  k == c.item IN
  /\ c.op = "revise"
  /\ item' = [item EXCEPT
       ![k].revs = Append(@, Revision(c.letter, c.body)),
       ![k].active = IF Activates(item[k].kind) THEN Len(item[k].revs) + 1 ELSE @,
       ![k].oml = IF c.oml # None THEN c.oml ELSE @]
  /\ Ends(q)
  /\ UNCHANGED <<part, frame, letters, bundles, failures, raced>>

\* HAROLD cannot be reached.
Refuse(q) ==
  /\ request[q].op \in {"new", "ask"}
  /\ Fault /\ Ends(q)
  /\ UNCHANGED <<store, bundles, raced>>

\* Persistence fails: the letter is released, or stays as an orphan.
FailRevision(q) ==
  /\ request[q].op = "revise"
  /\ \/ letters' = letters \ {<<request[q].item, request[q].letter>>}
     \/ UNCHANGED letters
  /\ Fault /\ Ends(q)
  /\ UNCHANGED <<item, part, frame, bundles, raced>>
---------------------------------------------------------------------------
(* The active revision *)

\* The row and its part, if it has one, as the session loaded them.
MassOf(p) == IF p = None THEN None ELSE part[p].mass
Select(q, k, r) ==
  /\ Idle(q)
  /\ Then(q, [op |-> "select", item |-> k, rev |-> r, part |-> item[k].part,
              sawActive |-> item[k].active, sawMass |-> MassOf(item[k].part)])
  /\ UNCHANGED <<store, bundles, failures, raced>>

\* The session writes the columns that differ from what it loaded: over values
\* that somebody changed since, it may write one and leave the other.
Sharing(p) == {k \in Of("motor") : item[k].part = p}
Loaded(c) ==
  c.part = item[c.item].part /\ c.sawActive = item[c.item].active /\ c.sawMass = MassOf(c.part)
Reweighs(c) == c.part # None /\ item[c.item].revs[c.rev].body.mass # c.sawMass
CommitSelection(q) ==
  LET c == request[q]  k == c.item  mass == item[k].revs[c.rev].body.mass IN
  /\ c.op = "select"
  /\ Reweighs(c) => c.part = item[k].part
  /\ item' = IF c.rev = c.sawActive THEN item ELSE [item EXCEPT ![k].active = c.rev]
  /\ part' = IF Reweighs(c) THEN [part EXCEPT ![c.part].mass = mass] ELSE part
  /\ raced' = LET others == IF Reweighs(c) THEN {<<"motor", m>> : m \in Sharing(c.part)} ELSE {} IN
              IF Loaded(c) THEN (raced \cup others) \ {<<"motor", k>>}
              ELSE raced \cup others \cup {<<"motor", k>>}
  /\ Ends(q)
  /\ UNCHANGED <<frame, letters, bundles, failures>>

\* The part was destroyed meanwhile: the update finds no row.
FailSelection(q) ==
  LET c == request[q] IN
  /\ c.op = "select" /\ Reweighs(c) /\ c.part # item[c.item].part
  /\ Ends(q)
  /\ UNCHANGED <<store, bundles, failures, raced>>
---------------------------------------------------------------------------
(* Bundles *)

\* The hash covers the revision and what its components weigh today; who made
\* the manifest, and when, is not in it.
BundleHash(k, r) ==
  [item |-> k, rev |-> r, masses |-> [p \in item[k].revs[r].body.comps |-> part[p].mass]]

BeginExport(q, k, r) ==
  /\ Idle(q) /\ item[k].kind = "config"
  /\ \A p \in item[k].revs[r].body.comps : InCatalog(p) /\ part[p].measured
  /\ Then(q, [op |-> "export", hash |-> BundleHash(k, r)])
  /\ UNCHANGED <<store, bundles, failures, raced>>

Recorded(h) == {e \in exports : e.hash = h}
OnDisk(h) == {d \in disk : d.hash = h}
Zip(h, manifest, q) == [hash |-> h, manifest |-> manifest, filling |-> q]
Writing(h) == {o \in Requests : request[o].op \in {"write", "fill", "record"} /\ request[o].hash = h}

\* What the bundle is rendered from when the recorded one went missing.
RenderedFrom_New(e, q) == q
RenderedFrom(e, q) == e.manifest

\* HAROLD's view of the number is awaited before the records are looked up. That
\* there is a zip is all that reuse asks for.
ReuseExport(q) ==
  LET h == request[q].hash IN
  /\ request[q].op = "export"
  /\ \E e \in Recorded(h) :
       IF OnDisk(h) = {}
       THEN Then(q, [op |-> "render", hash |-> h, manifest |-> RenderedFrom(e, q)]) ELSE Ends(q)
  /\ UNCHANGED <<store, bundles, failures, raced>>

StartBundle(q) ==
  LET h == request[q].hash IN
  /\ request[q].op = "export" /\ Recorded(h) = {}
  /\ Then(q, [op |-> "write", hash |-> h])
  /\ raced' = IF Writing(h) # {} THEN raced \cup {<<"bundle", h>>} ELSE raced
  /\ UNCHANGED <<store, bundles, failures>>

\* The zip is opened, whatever it held is gone, and filled in place.
OpenZip(q) ==
  LET h == request[q].hash
      Opens(manifest, next) ==
        /\ disk' = (disk \ OnDisk(h)) \cup {Zip(h, manifest, q)}
        /\ Then(q, [op |-> next, hash |-> h]) IN
  /\ \/ request[q].op = "write" /\ Opens(q, "fill")
     \/ request[q].op = "render" /\ Opens(request[q].manifest, "refill")
  /\ UNCHANGED <<store, exports, failures, raced>>

CloseZip(q) ==
  /\ request[q].op \in {"fill", "refill"}
  /\ disk' = {IF d.filling = q THEN Zip(d.hash, d.manifest, None) ELSE d : d \in disk}
  /\ IF request[q].op = "fill" THEN Then(q, [op |-> "record", hash |-> request[q].hash]) ELSE Ends(q)
  /\ UNCHANGED <<store, exports, failures, raced>>

\* The hash is unique in the table: a second row is refused, its files stay.
RecordExport(q) ==
  LET h == request[q].hash IN
  /\ request[q].op = "record"
  /\ exports' = IF Recorded(h) = {} THEN exports \cup {[hash |-> h, manifest |-> q]} ELSE exports
  /\ Ends(q)
  /\ UNCHANGED <<store, disk, failures, raced>>

\* The worker dies before the zip is whole, or between the files and the row.
FailExport(q) ==
  /\ request[q].op \in {"write", "fill", "record", "render", "refill"}
  /\ Fault
  /\ IF request[q].op = "refill" THEN Then(q, [op |-> "torn"]) ELSE Ends(q)
  /\ UNCHANGED <<store, bundles, raced>>
---------------------------------------------------------------------------
(* The catalog and the disk *)

\* update_catalog_part and delete_catalog_part; the part may be a motor's.
PatchMass(q, p, mass) ==
  /\ Idle(q) /\ part[p].live
  /\ part' = [part EXCEPT ![p].mass = mass]
  /\ raced' = raced \cup {<<"motor", k>> : k \in {m \in Of("motor") : item[m].part = p}}
  /\ Ends(q)
  /\ UNCHANGED <<item, frame, letters, bundles, failures>>

DeletePart(q, p) ==
  /\ Idle(q) /\ part[p].live
  /\ part' = [part EXCEPT ![p].live = FALSE]
  /\ Ends(q)
  /\ UNCHANGED <<item, frame, letters, bundles, failures, raced>>

\* admin_force: the row goes, and a motor that had it has none.
DestroyPart(q, p) ==
  /\ Idle(q)
  /\ part' = [part EXCEPT ![p].live = FALSE]
  /\ item' = [k \in DOMAIN item |-> IF item[k].part = p THEN [item[k] EXCEPT !.part = None] ELSE item[k]]
  /\ Ends(q)
  /\ UNCHANGED <<frame, letters, bundles, failures, raced>>

\* The exports directory is temporary.
LoseFiles(h) ==
  /\ Fault
  /\ disk' = disk \ OnDisk(h)
  /\ UNCHANGED <<store, exports, request, raced>>
---------------------------------------------------------------------------
EngineeringNext ==
  \/ \E q \in Requests :
       \/ \E changed \in BOOLEAN : RegisterFrame(q, changed)
       \/ \E b \in Bodies : CreateConfig(q, b) \/ \E k \in DOMAIN item : ReviseConfig(q, k, b)
       \/ \E k \in DOMAIN item : CloneConfig(q, k)
       \/ \E name \in Names, oml \in Omls \cup {None} : IngestDeck(q, name, oml)
       \/ \E name \in Names, mass \in Masses : IngestMotor(q, name, mass) \/ DesignMotor(q, name, mass)
       \/ \E k \in DOMAIN item, oml \in Omls \cup {None}, mass \in Masses :
            ReviseItem(q, k, oml, mass)
       \/ PersistItem(q) \/ IssueLetter(q) \/ PersistRevision(q) \/ Refuse(q) \/ FailRevision(q)
       \/ \E k \in DOMAIN item : \E r \in DOMAIN item[k].revs : Select(q, k, r) \/ BeginExport(q, k, r)
       \/ CommitSelection(q) \/ FailSelection(q)
       \/ ReuseExport(q) \/ StartBundle(q) \/ OpenZip(q) \/ CloseZip(q) \/ RecordExport(q)
       \/ FailExport(q)
       \/ \E p \in DOMAIN part, mass \in Masses : PatchMass(q, p, mass)
       \/ \E p \in DOMAIN part : DeletePart(q, p) \/ DestroyPart(q, p)
  \/ \E d \in disk : LoseFiles(d.hash)

EngineeringSpec == EngineeringInit /\ [][EngineeringNext]_engVars
---------------------------------------------------------------------------
(* "The on-disk bundle stays byte-identical to the STORED manifest"         *)
(* (bundle_export.py:484): a row is recorded only when its zip is whole, so *)
(* that what is on disk for a recorded export is made from the manifest its *)
(* row holds, and is whole unless files that were lost are being rendered   *)
(* again or a worker died over that; whatever else was lost, repeated or    *)
(* left by a worker that died. Two new exports that write one bundle at     *)
(* once are left out: the slower one's files replace those of the row.      *)
BundleOnDisk ==
  \A e \in exports, d \in disk :
    e.hash = d.hash /\ <<"bundle", e.hash>> \notin raced =>
      /\ d.manifest = e.manifest
      /\ d.filling # None => request[d.filling].op \in {"refill", "torn"}

(* A motor's part weighs what its active revision says                      *)
(* (engineering_motors.py:997), whatever is ingested, revised, selected or  *)
(* deleted, from the last selection that committed over what it had loaded  *)
(* until the part is edited by hand, serves another motor's selection or is *)
(* written over stale values, and from the start if the part was made for   *)
(* the motor and not found in the catalog.                                  *)
CatalogMassIsActive ==
  \A k \in Of("motor") :
    \/ item[k].part = None
    \/ part[item[k].part].mass = item[k].revs[item[k].active].body.mass
    \/ <<"motor", k>> \in raced
=============================================================================
