----------------------------- MODULE ReqSyncProofs -----------------------------
(***************************************************************************)
(* Theorems about the two ways a requirement follows the model it came     *)
(* from.  ReqSync: for any number of requests, requirements, wires and     *)
(* joints, and for whatever FlushEffects a flush has.  AutoRequirements:   *)
(* for any number of requests on any entities, from every database that    *)
(* AutoAssumption admits.                                                  *)
(***************************************************************************)
EXTENDS ReqSync, AutoRequirements, FiniteSetTheorems, SequenceTheorems, TLAPS

-----------------------------------------------------------------------------
(* The inductive invariant                                                   *)

Database == [source |-> source, requirement |-> requirement, proposals |-> proposals]

\* The locals that a request has at each point.
LocalsOK(l) ==
  /\ "pc" \in DOMAIN l
  /\ l.pc \in Active => "overtaken" \in DOMAIN l
  /\ l.pc \in Active \ {"bulk"} => "on" \in DOMAIN l
  /\ l.pc = "editing" => {"seen", "change"} \subseteq DOMAIN l
  /\ l.pc = "flushed" => {"after", "raised", "prior", "skipped"} \subseteq DOMAIN l
  /\ l.pc \in {"accepting", "rejecting", "bulk", "applying"} => "forced" \in DOMAIN l

Unapproved(row) == row.status \in {"none", "draft"}

EditOK(l) ==
  l.pc = "editing" =>
    /\ l.on \in Sources
    /\ \/ l.change = Gone
       \/ "status" \in DOMAIN l.change => l.change.status \in {l.seen.status, "superseded"}

\* A flush holds the row of its source: whatever the fan-out found then is
\* what the commit finds, but for the edits of users.  A deletion applies no text.
FlushOK(l) ==
  l.pc = "flushed" =>
    /\ l.on \in Sources /\ "status" \in DOMAIN l.after
    /\ Unapproved(l.after) => Unapproved(source[l.on])
    /\ DOMAIN l.raised \subseteq DOMAIN requirement
    /\ \A r \in DOMAIN l.raised :
         /\ {"req", "type", "status"} \subseteq DOMAIN l.raised[r]
         /\ l.raised[r].req = r
         /\ l.raised[r].status = "auto_applied" => l.after.status # "gone"
    /\ l.after.status = "gone" =>
         \A r \in Linked(l.on) :
           \/ r \in DOMAIN l.raised /\ l.raised[r].type = "obsolete"
           \/ r \in l.skipped

\* What a request that nobody has overtaken checked still holds.
ReviewOK(l) ==
  l.pc \in {"accepting", "rejecting", "applying"} =>
    /\ l.on \in DOMAIN proposals
    /\ ~l.overtaken =>
         /\ proposals[l.on].status = "pending"
         /\ l.pc # "rejecting" => ~requirement[proposals[l.on].req].locked \/ l.forced
ApproveOK(l) ==
  l.pc = "approving" => l.on \in Joints /\ (~l.overtaken => source[l.on].status = "draft")

OK(l) == LocalsOK(l) /\ EditOK(l) /\ FlushOK(l) /\ ReviewOK(l) /\ ApproveOK(l)

Exclusive ==
  \A c, d \in Calls :
    call[c].pc = "flushed" /\ call[d].pc = "flushed" /\ call[c].on = call[d].on => c = d

\* A decision leaves a mark on the row it is about.
ActsOK ==
  \A a \in acts :
    /\ a.what = "decide" =>
         a.on \in DOMAIN proposals /\ proposals[a.on].status # "pending"
    /\ a.what = "approve" => a.on \in Sources /\ ~Unapproved(source[a.on])

CallsOK == DOMAIN call = Calls /\ (\A c \in Calls : OK(call[c])) /\ Exclusive

SyncInvariant ==
  Tables(Database) /\ CallsOK /\ ActsOK /\ DecidedOnce /\ OrphansAreRaised

-----------------------------------------------------------------------------
(* Lemmas about the operators                                                *)

\* Everything in a finite set has a place in its sequence.
LEMMA SetToSeqCovers ==
  ASSUME NEW S, IsFiniteSet(S)
  PROVE  /\ Cardinality(S) \in Nat
         /\ SetToSeq(S) \in [1 .. Cardinality(S) -> S]
         /\ \A x \in S : \E k \in 1 .. Cardinality(S) : SetToSeq(S)[k] = x
<1> DEFINE n == Cardinality(S)
<1>1. n \in Nat /\ ExistsBijection(1 .. n, S)
  BY FS_CardinalityType
<1>2. PICK f \in Bijection(1 .. n, S) : TRUE
  BY <1>1 DEF ExistsBijection
<1>3. f \in [1 .. n -> S] /\ IsInjective(f)
  BY <1>2 DEF Bijection, Injection, IsInjective
<1>4. SetToSeq(S) \in [1 .. n -> S] /\ IsInjective(SetToSeq(S))
  BY <1>3 DEF SetToSeq
<1>5. SetToSeq(S) \in Injection(1 .. n, S)
  BY <1>4 DEF Injection, IsInjective
<1>6. IsFiniteSet(1 .. n) /\ Cardinality(1 .. n) = n
  BY <1>1, FS_Interval
<1>7. SetToSeq(S) \in Surjection(1 .. n, S)
  BY <1>5, <1>6, FS_Injection
<1> QED BY <1>1, <1>4, <1>7 DEF Surjection

\* Length of a sequence given by its elements.
LEMMA LengthIs ==
  ASSUME NEW n \in Nat, NEW s, s = [i \in 1 .. n |-> s[i]]
  PROVE  Len(s) = n /\ DOMAIN s = 1 .. n
<1> DEFINE S == {s[i] : i \in 1 .. n}
<1>1. s \in [1 .. n -> S]
  OBVIOUS
<1>2. s \in Seq(S)
  BY <1>1, SeqDef
<1> QED BY <1>1, <1>2, LenProperties

LEMMA UpdatedFields ==
  ASSUME NEW row, NEW seen, NEW set
  PROVE  /\ DOMAIN Updated(row, seen, set) = DOMAIN row
         /\ \A f \in DOMAIN row : f \notin DOMAIN set => Updated(row, seen, set)[f] = row[f]
BY DEF Updated

RaisedOK(raised) ==
  \A r \in DOMAIN raised :
    {"req", "type", "status"} \subseteq DOMAIN raised[r] /\ raised[r].req = r

\* The proposals grow by some for rows; of the older at most a pending one changes.
Grown(rows) ==
  /\ Len(proposals') \in Nat /\ DOMAIN proposals' = 1 .. Len(proposals')
  /\ \A i \in DOMAIN proposals :
       /\ i \in DOMAIN proposals'
       /\ proposals'[i].req = proposals[i].req /\ proposals'[i].type = proposals[i].type
       /\ proposals[i].status # "pending" => proposals'[i].status # "pending"
  /\ \A i \in DOMAIN proposals' :
       /\ {"req", "type", "status"} \subseteq DOMAIN proposals'[i]
       /\ proposals'[i].req \in rows

LEMMA Raising ==
  ASSUME Tables(Database), NEW raised, NEW prior, NEW effect,
         IsFiniteSet(DOMAIN raised), RaisedOK(raised),
         proposals' = WithRaised(raised, prior, effect)
  PROVE  /\ Grown(DOMAIN requirement \cup DOMAIN raised)
         /\ \A r \in DOMAIN raised : \E i \in DOMAIN proposals' : proposals'[i] = raised[r]
<1> DEFINE D == DOMAIN raised
           n == Len(proposals)
           m == Cardinality(D)
           place == SetToSeq(D)
<1>1. m \in Nat /\ place \in [1 .. m -> D] /\ \A r \in D : \E k \in 1 .. m : place[k] = r
  BY SetToSeqCovers
<1>2. /\ n \in Nat /\ DOMAIN proposals = 1 .. n
      /\ \A i \in 1 .. n : /\ {"req", "type", "status"} \subseteq DOMAIN proposals[i]
                           /\ proposals[i].req \in DOMAIN requirement
  BY DEF Tables, Database
<1>3. proposals' = [i \in 1 .. n + m |->
        IF i > n THEN raised[place[i - n]]
        ELSE IF effect = "all" /\ i \in prior
             THEN [proposals[i] EXCEPT !.status = "superseded"] ELSE proposals[i]]
  BY DEF WithRaised
<1>4. \A k \in 1 .. m : n + k \in 1 .. n + m /\ n + k > n /\ (n + k) - n = k
  BY <1>1, <1>2
<1>5. \A i \in 1 .. n + m : \/ i \in 1 .. n /\ ~(i > n)
                            \/ i - n \in 1 .. m /\ i > n
  BY <1>1, <1>2
<1>6. n + m \in Nat /\ \A i \in 1 .. n : i \in 1 .. n + m /\ ~(i > n)
  BY <1>1, <1>2
<1> HIDE DEF D, n, m, place
<1>7. Len(proposals') = n + m /\ DOMAIN proposals' = 1 .. n + m
  <2>1. proposals' = [i \in 1 .. n + m |-> proposals'[i]]
    BY <1>3
  <2> QED BY <1>6, <2>1, LengthIs
<1>8. \A i \in 1 .. n : \/ proposals'[i] = proposals[i]
                        \/ proposals'[i] = [proposals[i] EXCEPT !.status = "superseded"]
  BY <1>3, <1>6
<1>9. \A k \in 1 .. m : proposals'[n + k] = raised[place[k]]
  BY <1>3, <1>4
<1>10. \A i \in 1 .. n + m :
         \/ i \in 1 .. n
         \/ place[i - n] \in D /\ proposals'[i] = raised[place[i - n]]
  BY <1>1, <1>3, <1>5
<1>11. \A i \in 1 .. n :
         /\ {"req", "type", "status"} \subseteq DOMAIN proposals'[i]
         /\ proposals'[i].req = proposals[i].req /\ proposals'[i].type = proposals[i].type
         /\ proposals[i].status # "pending" => proposals'[i].status # "pending"
  BY <1>2, <1>8
<1>12. \A r \in D : \E i \in 1 .. n + m : proposals'[i] = raised[r]
  <2> TAKE r \in D
  <2>1. PICK k \in 1 .. m : place[k] = r
    BY <1>1
  <2> QED BY <1>4, <1>9, <2>1
<1>13. ASSUME NEW i \in 1 .. n + m
       PROVE  /\ {"req", "type", "status"} \subseteq DOMAIN proposals'[i]
              /\ proposals'[i].req \in DOMAIN requirement \cup D
  <2>1. ASSUME i \in 1 .. n
        PROVE  proposals'[i].req = proposals[i].req /\ proposals[i].req \in DOMAIN requirement
               /\ {"req", "type", "status"} \subseteq DOMAIN proposals'[i]
    BY <1>2, <1>11, <2>1
  <2>2. ASSUME place[i - n] \in D, proposals'[i] = raised[place[i - n]]
        PROVE  proposals'[i].req \in D
               /\ {"req", "type", "status"} \subseteq DOMAIN proposals'[i]
    <3> PICK r \in D : proposals'[i] = raised[r]
      BY <2>2
    <3> QED BY DEF RaisedOK, D
  <2> QED BY <1>10, <2>1, <2>2
<1>14. Grown(DOMAIN requirement \cup D)
  <2>1. \A i \in DOMAIN proposals : i \in DOMAIN proposals'
    BY <1>2, <1>6, <1>7
  <2>2. Len(proposals') \in Nat /\ DOMAIN proposals' = 1 .. Len(proposals')
    BY <1>6, <1>7
  <2>3. \A i \in DOMAIN proposals :
          /\ i \in DOMAIN proposals'
          /\ proposals'[i].req = proposals[i].req /\ proposals'[i].type = proposals[i].type
          /\ proposals[i].status # "pending" => proposals'[i].status # "pending"
    BY <1>2, <1>11, <2>1
  <2>4. \A i \in DOMAIN proposals' :
          /\ {"req", "type", "status"} \subseteq DOMAIN proposals'[i]
          /\ proposals'[i].req \in DOMAIN requirement \cup D
    BY <1>7, <1>13
  <2> QED BY <2>2, <2>3, <2>4 DEF Grown
<1> QED BY <1>7, <1>12, <1>14 DEF D

\* A fan-out proposes for requirements that hang on the source.
LEMMA FansOut ==
  ASSUME NEW s, NEW rows, NEW after
  PROVE  /\ DOMAIN FanOut(s, rows, after) \subseteq DOMAIN rows
         /\ RaisedOK(FanOut(s, rows, after))
         /\ \A r \in DOMAIN FanOut(s, rows, after) :
              FanOut(s, rows, after)[r] = Proposed(r, rows[r], s, after)
BY DEF FanOut, RaisedOK, Proposed

-----------------------------------------------------------------------------
(* Steps of a request that write nothing                                     *)

LEMMA ProceedStep ==
  ASSUME SyncInvariant, NEW c \in Calls, NEW l, Proceed(c, l),
         UNCHANGED <<source, requirement, proposals, acts>>,
         call[c].pc # "done", OK(l),
         l.pc = "flushed" => ~RowLocked(l.on)
  PROVE  SyncInvariant'
<1>1. DOMAIN call' = Calls /\ call'[c] = l /\ \A d \in Calls \ {c} : call'[d] = call[d]
  BY DEF Proceed, SyncInvariant, CallsOK
<1>2. Tables(Database)' /\ ActsOK' /\ DecidedOnce'
  BY DEF SyncInvariant, Database, Tables, ActsOK, DecidedOnce, Unapproved
<1>3. \A d \in Calls : OK(call'[d])
  BY <1>1 DEF SyncInvariant, CallsOK
<1>4. \A d \in Calls : OK(call[d])'
  BY <1>3 DEF OK, LocalsOK, EditOK, FlushOK, ReviewOK, ApproveOK, Linked, Unapproved
<1>5. Exclusive'
  BY <1>1 DEF SyncInvariant, CallsOK, Exclusive, RowLocked
<1>6. OrphansAreRaised'
  BY <1>1 DEF SyncInvariant, CallsOK, OrphansAreRaised, Exists
<1> QED BY <1>1, <1>2, <1>4, <1>5, <1>6 DEF SyncInvariant, CallsOK

-----------------------------------------------------------------------------
(* Steps of a request that commits                                           *)

\* What a commit of one request leaves as the others know it.
Frame(c) ==
  /\ \A i \in DOMAIN proposals :
       /\ i \in DOMAIN proposals'
       /\ proposals'[i].req = proposals[i].req /\ proposals'[i].type = proposals[i].type
       /\ proposals[i].status # "pending" => proposals'[i].status # "pending"
  /\ \A r \in DOMAIN requirement :
       r \in DOMAIN requirement' /\ requirement'[r].link = requirement[r].link
  /\ \A s \in Sources : ~Unapproved(source[s]) => ~Unapproved(source'[s])
  /\ \A d \in Calls \ {c} : call[d].pc = "flushed" =>
       /\ source'[call[d].on] = source[call[d].on] \/ Unapproved(source'[call[d].on])
       /\ \A r \in DOMAIN requirement' \ DOMAIN requirement :
            requirement'[r].link # call[d].on

LEMMA FinishCalls ==
  ASSUME CallsOK, NEW c \in Calls, NEW result, Finish(c, result)
  PROVE  /\ DOMAIN call' = Calls /\ call'[c] = result
         /\ \A d \in Calls \ {c} :
              /\ DOMAIN call'[d] = DOMAIN call[d]
              /\ \A f \in DOMAIN call[d] : f # "overtaken" => call'[d][f] = call[d][f]
              /\ call[d].pc \in Active => call'[d].overtaken
              /\ call[d].pc \notin Active => call'[d] = call[d]
<1>1. \A d \in Calls : call[d].pc \in Active => "overtaken" \in DOMAIN call[d]
  BY DEF CallsOK, OK, LocalsOK
<1> QED BY <1>1 DEF Finish

LEMMA Bystanders ==
  ASSUME SyncInvariant, NEW c \in Calls, NEW result, Finish(c, result),
         Tables(Database)', Frame(c),
         LocalsOK(result), result.pc \in {"done", "bulk", "failed"}
  PROVE  CallsOK'
<1>1. CallsOK
  BY DEF SyncInvariant
<1>2. ASSUME NEW d \in Calls \ {c} PROVE OK(call[d])'
  <2> PICK l, m : l = call[d] /\ m = call'[d]
    OBVIOUS
  <2>1. /\ OK(l) /\ DOMAIN m = DOMAIN l
        /\ \A f \in DOMAIN l : f # "overtaken" => m[f] = l[f]
        /\ l.pc \in Active => m.overtaken
    BY <1>1, FinishCalls DEF CallsOK
  <2>2. m.pc = l.pc /\ LocalsOK(m)
    BY <2>1 DEF OK, LocalsOK
  <2>3. EditOK(m)
    BY <2>1, <2>2 DEF OK, LocalsOK, EditOK, Active
  <2>4. ReviewOK(m)'
    BY <2>1, <2>2 DEF OK, LocalsOK, ReviewOK, Frame, Active
  <2>5. ApproveOK(m)'
    BY <2>1, <2>2 DEF OK, LocalsOK, ApproveOK, Active
  <2>6. ASSUME l.pc = "flushed" PROVE FlushOK(m)'
    <3>1. /\ m.overtaken /\ m.on = l.on /\ m.after = l.after /\ m.raised = l.raised
          /\ m.skipped = l.skipped /\ FlushOK(l) /\ l.on \in Sources
      BY <2>1, <2>6 DEF OK, LocalsOK, FlushOK, Active
    <3>2. Unapproved(l.after) => Unapproved(source'[l.on])
      BY <2>6, <3>1 DEF FlushOK, Frame
    <3>3. DOMAIN l.raised \subseteq DOMAIN requirement'
      BY <2>6, <3>1 DEF FlushOK, Frame
    <3>4. Linked(l.on)' \subseteq Linked(l.on)
      BY <2>6 DEF Linked, Frame
    <3> QED BY <2>6, <3>1, <3>2, <3>3, <3>4 DEF FlushOK, Unapproved
  <2>7. OK(m)'
    BY <2>2, <2>3, <2>4, <2>5, <2>6 DEF OK, LocalsOK, EditOK, FlushOK
  <2> QED BY <2>7 DEF OK, LocalsOK, EditOK, FlushOK, ReviewOK, ApproveOK
<1>3. OK(result)'
  BY DEF OK, LocalsOK, EditOK, FlushOK, ReviewOK, ApproveOK
<1>4. ASSUME NEW d \in Calls, NEW e \in Calls, call'[d].pc = "flushed",
             call'[e].pc = "flushed", call'[d].on = call'[e].on
      PROVE  d = e
  <2>1. d # c /\ e # c
    BY <1>1, <1>4, FinishCalls
  <2>2. /\ call[d].pc = "flushed" /\ call[e].pc = "flushed"
        /\ call'[d].on = call[d].on /\ call'[e].on = call[e].on
    BY <1>1, <1>4, <2>1, FinishCalls DEF CallsOK, OK, LocalsOK, Active
  <2> QED BY <1>1, <1>4, <2>2 DEF CallsOK, Exclusive
<1>5. \A d \in Calls : OK(call[d])'
  <2>1. OK(call[c])'
    BY <1>1, <1>3, FinishCalls DEF OK, LocalsOK, EditOK, FlushOK, ReviewOK, ApproveOK
  <2> QED BY <1>2, <2>1
<1> QED BY <1>1, <1>4, <1>5, FinishCalls DEF CallsOK, Exclusive

\* Decisions are told apart by the rows they are about.
LEMMA Deciding ==
  ASSUME SyncInvariant, NEW c \in Calls, Frame(c), NEW a,
         acts' = acts \cup {a},
         \/ /\ a.what = "decide"
            /\ a.on \in DOMAIN proposals' /\ proposals'[a.on].status # "pending"
            /\ a.overtaken \/ proposals[a.on].status = "pending"
         \/ /\ a.what = "approve"
            /\ a.on \in Sources /\ ~Unapproved(source'[a.on])
            /\ a.overtaken \/ Unapproved(source[a.on])
  PROVE  ActsOK' /\ DecidedOnce'
<1>1. ActsOK /\ DecidedOnce
  BY DEF SyncInvariant
<1>2. ActsOK'
  BY <1>1 DEF ActsOK, Frame
<1>3. \A b \in acts : b.what = a.what /\ b.on = a.on => a.overtaken
  BY <1>1 DEF ActsOK
<1>4. DecidedOnce'
  BY <1>1, <1>3 DEF DecidedOnce
<1> QED BY <1>2, <1>4

LEMMA NotDeciding ==
  ASSUME SyncInvariant, NEW c \in Calls, Frame(c), acts' = acts
  PROVE  ActsOK' /\ DecidedOnce'
BY DEF SyncInvariant, ActsOK, DecidedOnce, Frame

\* An orphan stays accounted for; a new one must be.
LEMMA Orphans ==
  ASSUME SyncInvariant, NEW c \in Calls, NEW result, Finish(c, result), Frame(c),
         Tables(Database)', call[c].pc # "done",
         \A r \in DOMAIN requirement' :
           source'[requirement'[r].link].status = "gone" =>
             \/ r \in DOMAIN requirement /\ source[requirement[r].link].status = "gone"
             \/ \E i \in DOMAIN proposals' :
                  proposals'[i].req = r /\ proposals'[i].type = "obsolete"
             \/ result.pc = "done" /\ r \in result.skipped
  PROVE  OrphansAreRaised'
<1>1. CallsOK /\ OrphansAreRaised
  BY DEF SyncInvariant
<1>2. /\ call'[c] = result
      /\ \A d \in Calls : call[d].pc = "done" => call'[d] = call[d]
  BY <1>1, FinishCalls DEF Active
<1>3. ASSUME NEW r \in DOMAIN requirement', ~Exists(requirement[r].link)'
      PROVE  \/ \E i \in DOMAIN proposals' :
                  proposals'[i].req = r /\ proposals'[i].type = "obsolete"
             \/ \E d \in Calls : call'[d].pc = "done" /\ r \in call'[d].skipped
  <2>1. CASE r \in DOMAIN requirement /\ source[requirement[r].link].status = "gone"
    <3>1. \/ \E i \in DOMAIN proposals :
               proposals[i].req = r /\ proposals[i].type = "obsolete"
          \/ \E d \in Calls : call[d].pc = "done" /\ r \in call[d].skipped
      BY <1>1, <2>1 DEF OrphansAreRaised, Exists
    <3> QED BY <1>2, <3>1 DEF Frame
  <2> QED BY <1>2, <1>3, <2>1 DEF Exists
<1> QED BY <1>3 DEF OrphansAreRaised

LEMMA FinishStep ==
  ASSUME SyncInvariant, NEW c \in Calls, NEW result, Finish(c, result), Frame(c),
         Tables(Database)', call[c].pc # "done",
         LocalsOK(result), result.pc \in {"done", "bulk", "failed"},
         ActsOK', DecidedOnce',
         \A s \in Sources : source'[s].status = "gone" => source[s].status = "gone",
         \A r \in DOMAIN requirement' \ DOMAIN requirement :
           source'[requirement'[r].link].status # "gone"
  PROVE  SyncInvariant'
<1>1. OrphansAreRaised'
  BY Orphans DEF Frame, SyncInvariant, Tables, Database
<1> QED BY <1>1, Bystanders DEF SyncInvariant

-----------------------------------------------------------------------------
(* Sources                                                                   *)

LEMMA CreateJointStep ==
  ASSUME SyncInvariant, NEW c \in Calls, NEW s \in Sources, NEW text, CreateJoint(c, s, text)
  PROVE  SyncInvariant'
<1>1. Frame(c) /\ Tables(Database)'
  BY DEF SyncInvariant, Tables, Database, CreateJoint, Frame, Unapproved
<1>2. ActsOK' /\ DecidedOnce'
  BY <1>1, NotDeciding DEF CreateJoint
<1>3. /\ Finish(c, Done) /\ call[c].pc # "done" /\ requirement' = requirement
      /\ LocalsOK(Done) /\ Done.pc = "done"
      /\ \A t \in Sources : source'[t].status = "gone" => source[t].status = "gone"
  BY DEF CreateJoint, LocalsOK, Done, Active, SyncInvariant, Tables, Database
<1> QED BY <1>1, <1>2, <1>3, FinishStep

LEMMA LoadStep ==
  ASSUME SyncInvariant, NEW c \in Calls, NEW s \in Sources, NEW change,
         Load(c, s, change),
         change = Gone \/ change.status \in {source[s].status, "superseded"}
  PROVE  SyncInvariant'
<1> DEFINE l == [pc |-> "editing", on |-> s, seen |-> source[s], change |-> change,
                 overtaken |-> FALSE]
<1>1. /\ Proceed(c, l) /\ call[c].pc # "done"
      /\ UNCHANGED <<source, requirement, proposals, acts>>
  BY DEF Load, Proceed
<1>2. OK(l) /\ l.pc # "flushed"
  BY DEF OK, LocalsOK, EditOK, FlushOK, ReviewOK, ApproveOK, Active
<1> HIDE DEF l
<1> QED BY <1>1, <1>2, ProceedStep

LEMMA EditSourceStep ==
  ASSUME SyncInvariant, NEW c \in Calls, NEW s \in Sources, NEW text,
         UpdateSource(c, s, text) \/ DeleteSource(c, s)
  PROVE  SyncInvariant'
<1> DEFINE edited == [source[s] EXCEPT !.text = text]
           superseded == [source[s] EXCEPT !.status = "superseded"]
<1>1. edited.status = source[s].status /\ superseded.status = "superseded"
  BY DEF SyncInvariant, Tables, Database
<1>2. Load(c, s, edited) \/ Load(c, s, superseded) \/ Load(c, s, Gone)
  BY DEF UpdateSource, DeleteSource
<1> HIDE DEF edited, superseded
<1> QED BY <1>1, <1>2, LoadStep

LEMMA ApproveJointStep ==
  ASSUME SyncInvariant, NEW c \in Calls, NEW s \in Sources, ApproveJoint(c, s)
  PROVE  SyncInvariant'
<1> DEFINE l == [pc |-> "approving", on |-> s, seen |-> source[s], overtaken |-> FALSE]
<1>1. /\ Proceed(c, l) /\ call[c].pc # "done"
      /\ UNCHANGED <<source, requirement, proposals, acts>>
  BY DEF ApproveJoint
<1>2. OK(l) /\ l.pc # "flushed"
  BY DEF ApproveJoint, OK, LocalsOK, EditOK, FlushOK, ReviewOK, ApproveOK, Active
<1> HIDE DEF l
<1> QED BY <1>1, <1>2, ProceedStep

LEMMA ApproveJointCommitStep ==
  ASSUME SyncInvariant, NEW c \in Calls, NEW r \in Reqs, NEW heard, NEW effect,
         ApproveJoint_Commit(c, r, heard, effect)
  PROVE  SyncInvariant'
<1> PICK s, after : s = call[c].on /\ after = [source[s] EXCEPT !.status = "active"]
  OBVIOUS
<1> PICK rows : rows = [q \in DOMAIN requirement \cup {r} |->
                  IF q = r THEN Generated(s, call[c].seen.text) ELSE requirement[q]]
  OBVIOUS
<1> PICK raised : raised = FanOut(s, IF heard THEN rows ELSE requirement, after)
  OBVIOUS
<1>1. /\ call[c].pc = "approving" /\ s \in Joints /\ s \in Sources
      /\ ~call[c].overtaken => source[s].status = "draft"
      /\ ~RowLocked(s) /\ source[s].status # "gone" /\ r \notin DOMAIN requirement
      /\ source' = [source EXCEPT ![s] = after] /\ requirement' = rows
      /\ proposals' = WithRaised(raised, Prior(raised), effect)
  BY DEF ApproveJoint_Commit, SyncInvariant, CallsOK, OK, ApproveOK, Exists, Sources
<1>2. /\ DOMAIN requirement' = DOMAIN requirement \cup {r}
      /\ \A q \in DOMAIN requirement : requirement'[q] = requirement[q]
      /\ "link" \in DOMAIN requirement'[r] /\ requirement'[r].link = s
  BY <1>1 DEF Generated
<1>3. /\ DOMAIN source' = Sources /\ source'[s].status = "active"
      /\ \A t \in Sources \ {s} : source'[t] = source[t]
      /\ \A t \in Sources : "status" \in DOMAIN source'[t]
  BY <1>1 DEF SyncInvariant, Tables, Database
<1>4. Grown(DOMAIN requirement')
  <2>1. DOMAIN raised \subseteq DOMAIN requirement' /\ RaisedOK(raised)
    BY <1>1, <1>2, FansOut
  <2>2. DOMAIN requirement' \subseteq Reqs
    BY <1>2 DEF SyncInvariant, Tables, Database
  <2>3. IsFiniteSet(DOMAIN raised)
    BY <2>1, <2>2, SyncAssumption, FS_Subset
  <2>4. Grown(DOMAIN requirement \cup DOMAIN raised)
    BY <1>1, <2>1, <2>3, Raising DEF SyncInvariant
  <2> QED BY <1>2, <2>1, <2>4 DEF Grown
<1>5. Tables(Database)'
  <2>1. \A q \in DOMAIN requirement : /\ "link" \in DOMAIN requirement[q]
                                      /\ requirement[q].link \in Sources /\ q \in Reqs
    BY DEF SyncInvariant, Tables, Database
  <2>2. \A q \in DOMAIN requirement' : /\ "link" \in DOMAIN requirement'[q]
                                       /\ requirement'[q].link \in Sources /\ q \in Reqs
    BY <1>1, <1>2, <2>1
  <2> QED BY <1>3, <1>4, <2>2 DEF Tables, Database, Grown
<1>6. Frame(c)
  <2>1. \A d \in Calls : call[d].pc = "flushed" => call[d].on # s /\ call[d].on \in Sources
    BY <1>1 DEF RowLocked, SyncInvariant, CallsOK, OK, FlushOK
  <2>2. \A t \in Sources : ~Unapproved(source[t]) => ~Unapproved(source'[t])
    BY <1>3 DEF Unapproved
  <2>3. \A q \in DOMAIN requirement' \ DOMAIN requirement : requirement'[q].link = s
    BY <1>2
  <2> QED BY <1>2, <1>3, <1>4, <2>1, <2>2, <2>3 DEF Frame, Grown
<1>7. ActsOK' /\ DecidedOnce'
  <2> DEFINE a == Act(c, "approve", s, FALSE)
  <2>1. /\ acts' = acts \cup {a}
        /\ a.what = "approve" /\ a.on = s /\ a.overtaken = call[c].overtaken
    BY DEF ApproveJoint_Commit, Act
  <2> HIDE DEF a
  <2>2. ~Unapproved(source'[s]) /\ (a.overtaken \/ Unapproved(source[s]))
    <3>1. CASE call[c].overtaken
      BY <1>3, <2>1, <3>1 DEF Unapproved
    <3>2. CASE ~call[c].overtaken
      BY <1>1, <1>3, <3>2 DEF Unapproved
    <3> QED BY <3>1, <3>2
  <2> QED BY <1>1, <1>6, <2>1, <2>2, Deciding
<1>8. /\ Finish(c, Done) /\ LocalsOK(Done) /\ Done.pc = "done"
  BY DEF ApproveJoint_Commit, LocalsOK, Done, Active
<1> QED BY <1>1, <1>2, <1>3, <1>5, <1>6, <1>7, <1>8, FinishStep

LEMMA StaleStep ==
  ASSUME SyncInvariant, NEW c \in Calls, Stale(c)
  PROVE  SyncInvariant'
<1>1. OK(Failed) /\ Failed.pc = "failed"
  BY DEF Failed, OK, LocalsOK, EditOK, FlushOK, ReviewOK, ApproveOK, Active
<1> QED BY <1>1, ProceedStep DEF Stale

-----------------------------------------------------------------------------
(* The fan-out                                                               *)

After(c) == IF call[c].change = Gone THEN Gone
            ELSE Updated(source[call[c].on], call[c].seen, call[c].change)

\* An edit supersedes a source, or leaves its status alone.
LEMMA AfterStatus ==
  ASSUME SyncInvariant, NEW c \in Calls, call[c].pc = "editing", Exists(call[c].on)
  PROVE  /\ call[c].on \in Sources /\ "status" \in DOMAIN After(c)
         /\ After(c).status \in {"gone", "superseded", source[call[c].on].status}
         /\ After(c).status = "gone" => After(c) = Gone
<1> PICK s : s = call[c].on
  OBVIOUS
<1>1. s \in Sources /\ EditOK(call[c]) /\ "status" \in DOMAIN source[s]
      /\ source[s].status # "gone"
  BY DEF SyncInvariant, CallsOK, OK, EditOK, Tables, Database, Exists
<1>2. CASE call[c].change = Gone
  BY <1>1, <1>2 DEF After, Gone
<1>3. CASE call[c].change # Gone
  <2>1. /\ After(c) = Updated(source[s], call[c].seen, call[c].change)
        /\ "status" \in DOMAIN call[c].change =>
             call[c].change.status \in {call[c].seen.status, "superseded"}
    BY <1>1, <1>3 DEF After, EditOK
  <2>2. After(c).status \in {"superseded", source[s].status}
    BY <1>1, <2>1 DEF Updated
  <2>3. DOMAIN After(c) = DOMAIN source[s]
    BY <2>1, UpdatedFields
  <2> QED BY <1>1, <2>2, <2>3
<1> QED BY <1>2, <1>3

LEMMA FlushStep ==
  ASSUME SyncInvariant, NEW c \in Calls, Flush(c)
  PROVE  SyncInvariant'
<1> PICK s, after : s = call[c].on /\ after = After(c)
  OBVIOUS
<1> PICK raised : raised = FanOut(s, requirement, after)
  OBVIOUS
<1> DEFINE l == [pc |-> "flushed", on |-> s, after |-> after, overtaken |-> FALSE,
                 raised |-> raised, prior |-> Prior(raised),
                 skipped |-> {r \in Linked(s) :
                   requirement[r].locked \/ requirement[r].status \in {"deleted", "deferred"}}]
<1>1. /\ Proceed(c, l) /\ call[c].pc = "editing"
      /\ UNCHANGED <<source, requirement, proposals, acts>>
      /\ ~RowLocked(s) /\ Exists(s)
  BY DEF Flush, After
<1>2. /\ s \in Sources /\ "status" \in DOMAIN after
      /\ after.status \in {"gone", "superseded", source[s].status}
      /\ after.status = "gone" => after = Gone
  BY <1>1, AfterStatus
<1>3. /\ DOMAIN raised \subseteq DOMAIN requirement /\ RaisedOK(raised)
      /\ \A r \in DOMAIN raised : raised[r] = Proposed(r, requirement[r], s, after)
  BY FansOut
<1>4. ASSUME after = Gone, NEW r \in DOMAIN raised
      PROVE  raised[r].status # "auto_applied"
  <2>1. raised[r] = Proposed(r, requirement[r], s, after)
    BY <1>3, <1>4
  <2>2. Type(requirement[r], after) = "obsolete"
    BY <1>4 DEF Type
  <2>3. decide_action(requirement[r].status, "obsolete") # "auto_apply"
    BY DEF decide_action
  <2> QED BY <2>1, <2>2, <2>3 DEF Proposed
<1>5. ASSUME after = Gone, NEW r \in Linked(s), r \notin l.skipped
      PROVE  r \in DOMAIN raised /\ raised[r].type = "obsolete"
  <2>1. ~requirement[r].locked /\ requirement[r].status \notin {"deleted", "deferred"}
    BY <1>5
  <2>2. Type(requirement[r], after) = "obsolete"
    BY <1>5 DEF Type
  <2>3. Concerned(requirement[r], after)
    BY <2>1, <2>2 DEF Concerned, decide_action
  <2>4. r \in DOMAIN raised
    BY <1>5, <2>3 DEF FanOut, Linked
  <2>5. raised[r] = Proposed(r, requirement[r], s, after)
    BY <1>3, <2>4
  <2> QED BY <2>2, <2>4, <2>5 DEF Proposed
<1>6. /\ l.pc = "flushed" /\ l.on = s /\ l.after = after /\ ~l.overtaken
      /\ l.raised = raised
      /\ DOMAIN l = {"pc", "on", "after", "overtaken", "raised", "prior", "skipped"}
  OBVIOUS
<1> HIDE DEF l
<1>7. FlushOK(l)
  BY <1>2, <1>3, <1>4, <1>5, <1>6 DEF FlushOK, RaisedOK, Unapproved
<1>8. OK(l)
  BY <1>6, <1>7 DEF OK, LocalsOK, EditOK, ReviewOK, ApproveOK, Active
<1> QED BY <1>1, <1>6, <1>8, ProceedStep

\* The rows and the other requests, when a flushed source is written.
LEMMA WriteStep ==
  ASSUME SyncInvariant, NEW c \in Calls, NEW l, l = call[c], l.pc = "flushed",
         source' = [source EXCEPT ![l.on] = l.after], requirement' = requirement,
         proposals' = proposals \/ \E effect : proposals' = WithRaised(l.raised, l.prior, effect)
  PROVE  Tables(Database)' /\ Frame(c)
<1>1. FlushOK(l) /\ l.on \in Sources
  BY DEF SyncInvariant, CallsOK, OK, FlushOK
<1>2. /\ DOMAIN source' = Sources /\ source'[l.on] = l.after
      /\ \A t \in Sources \ {l.on} : source'[t] = source[t]
      /\ \A t \in Sources : "status" \in DOMAIN source'[t]
  BY <1>1 DEF FlushOK, SyncInvariant, Tables, Database
<1>3. Grown(DOMAIN requirement)
  <2>1. CASE proposals' = proposals
    BY <2>1 DEF SyncInvariant, Tables, Database, Grown
  <2>2. ASSUME NEW effect, proposals' = WithRaised(l.raised, l.prior, effect)
        PROVE  Grown(DOMAIN requirement)
    <3>1. DOMAIN l.raised \subseteq DOMAIN requirement /\ RaisedOK(l.raised)
      BY <1>1 DEF FlushOK, RaisedOK
    <3>2. IsFiniteSet(DOMAIN l.raised)
      BY <3>1, SyncAssumption, FS_Subset DEF SyncInvariant, Tables, Database
    <3> QED BY <2>2, <3>1, <3>2, Raising DEF SyncInvariant
  <2> QED BY <2>1, <2>2
<1>4. Tables(Database)'
  BY <1>2, <1>3 DEF SyncInvariant, Tables, Database, Grown
<1>5. Frame(c)
  <2>1. \A d \in Calls \ {c} : call[d].pc = "flushed" => call[d].on # l.on /\ call[d].on \in Sources
    BY <1>1 DEF SyncInvariant, CallsOK, Exclusive, OK, FlushOK
  <2>2. \A t \in Sources : ~Unapproved(source[t]) => ~Unapproved(source'[t])
    BY <1>1, <1>2 DEF FlushOK
  <2> QED BY <1>2, <1>3, <2>1, <2>2 DEF Frame, Grown
<1> QED BY <1>4, <1>5

\* An edit that raised nothing to apply writes its source and what it raised.
LEMMA CommitStep ==
  ASSUME SyncInvariant, NEW c \in Calls, NEW effect, Commit(c, effect)
  PROVE  SyncInvariant'
<1> PICK l : l = call[c]
  OBVIOUS
<1> PICK result : result = [pc |-> "done", skipped |-> l.skipped]
  OBVIOUS
<1>1. /\ l.pc = "flushed" /\ FlushOK(l) /\ l.on \in Sources /\ Finish(c, result)
      /\ source' = [source EXCEPT ![l.on] = l.after]
      /\ requirement' = requirement /\ acts' = acts
      /\ proposals' = WithRaised(l.raised, l.prior, effect)
  BY ZenonT(30) DEF Commit, SyncInvariant, CallsOK, OK, FlushOK
<1>2. Tables(Database)' /\ Frame(c)
  BY <1>1, WriteStep
<1>3. ActsOK' /\ DecidedOnce'
  BY <1>1, <1>2, NotDeciding
<1>4. /\ result.pc = "done" /\ result.skipped = l.skipped /\ LocalsOK(result)
      /\ call[c].pc # "done"
  BY <1>1 DEF LocalsOK, Active
<1>5. ASSUME NEW r \in DOMAIN requirement', source'[requirement'[r].link].status = "gone"
      PROVE  \/ r \in DOMAIN requirement /\ source[requirement[r].link].status = "gone"
             \/ \E i \in DOMAIN proposals' :
                  proposals'[i].req = r /\ proposals'[i].type = "obsolete"
             \/ r \in l.skipped
  <2>1. /\ r \in DOMAIN requirement /\ requirement'[r].link = requirement[r].link
        /\ requirement[r].link \in Sources /\ DOMAIN source = Sources
    BY <1>1, <1>5 DEF SyncInvariant, Tables, Database
  <2>2. CASE requirement[r].link # l.on
    BY <1>1, <1>5, <2>1, <2>2
  <2>3. ASSUME requirement[r].link = l.on, r \notin l.skipped
        PROVE  \E i \in DOMAIN proposals' :
                 proposals'[i].req = r /\ proposals'[i].type = "obsolete"
    <3>1. l.after.status = "gone" /\ r \in Linked(l.on)
      BY <1>1, <1>5, <2>1, <2>3 DEF Linked
    <3>2. r \in DOMAIN l.raised /\ l.raised[r].type = "obsolete" /\ l.raised[r].req = r
      BY <1>1, <2>3, <3>1 DEF FlushOK
    <3>3. DOMAIN l.raised \subseteq DOMAIN requirement /\ RaisedOK(l.raised)
      BY <1>1 DEF FlushOK, RaisedOK
    <3>4. IsFiniteSet(DOMAIN l.raised)
      BY <3>3, SyncAssumption, FS_Subset DEF SyncInvariant, Tables, Database
    <3>5. \E i \in DOMAIN proposals' : proposals'[i] = l.raised[r]
      BY <1>1, <3>2, <3>3, <3>4, Raising DEF SyncInvariant
    <3> QED BY <3>2, <3>5
  <2> QED BY <2>2, <2>3
<1>6. OrphansAreRaised'
  BY <1>1, <1>2, <1>4, <1>5, Orphans
<1>7. CallsOK'
  BY <1>1, <1>2, <1>4, Bystanders
<1> QED BY <1>2, <1>3, <1>6, <1>7 DEF SyncInvariant

\* One that did writes its source alone.
LEMMA CommitInFlushStep ==
  ASSUME SyncInvariant, NEW c \in Calls, Commit_InFlush(c)
  PROVE  SyncInvariant'
<1> PICK l : l = call[c]
  OBVIOUS
<1>1. /\ l.pc = "flushed" /\ FlushOK(l) /\ l.on \in Sources /\ Finish(c, Failed)
      /\ AuditsInFlush(l.raised)
      /\ source' = [source EXCEPT ![l.on] = l.after]
      /\ requirement' = requirement /\ acts' = acts /\ proposals' = proposals
  BY ZenonT(30) DEF Commit_InFlush, SyncInvariant, CallsOK, OK, FlushOK
<1>2. Tables(Database)' /\ Frame(c)
  BY <1>1, WriteStep
<1>3. ActsOK' /\ DecidedOnce'
  BY <1>1, <1>2, NotDeciding
<1>4. LocalsOK(Failed) /\ Failed.pc = "failed" /\ call[c].pc # "done"
  BY <1>1 DEF LocalsOK, Failed, Active
<1>5. \A t \in Sources : source'[t].status = "gone" => source[t].status = "gone"
  <2>1. l.after.status # "gone"
    BY <1>1 DEF AuditsInFlush, FlushOK
  <2>2. DOMAIN source = Sources
    BY DEF SyncInvariant, Tables, Database
  <2> QED BY <1>1, <2>1, <2>2
<1> QED BY <1>1, <1>2, <1>3, <1>4, <1>5, FinishStep

-----------------------------------------------------------------------------
(* Review                                                                    *)

LEMMA ReviewLoadStep ==
  ASSUME SyncInvariant, NEW c \in Calls, NEW i \in DOMAIN proposals,
         \/ \E forced \in BOOLEAN : AcceptProposal(c, i, forced)
         \/ RejectProposal(c, i)
         \/ BulkAccept_Load(c, i)
  PROVE  SyncInvariant'
<1>1. ASSUME NEW forced \in BOOLEAN, AcceptProposal(c, i, forced) PROVE SyncInvariant'
  <2> DEFINE l == [pc |-> "accepting", on |-> i, forced |-> forced,
                   seen |-> requirement[proposals[i].req], overtaken |-> FALSE]
  <2>1. /\ Proceed(c, l) /\ call[c].pc # "done"
        /\ UNCHANGED <<source, requirement, proposals, acts>>
    BY <1>1 DEF AcceptProposal
  <2>2. OK(l) /\ l.pc # "flushed"
    BY <1>1 DEF AcceptProposal, Applicable,
       OK, LocalsOK, EditOK, FlushOK, ReviewOK, ApproveOK, Active
  <2> HIDE DEF l
  <2> QED BY <2>1, <2>2, ProceedStep
<1>2. CASE RejectProposal(c, i)
  <2> DEFINE l == [pc |-> "rejecting", on |-> i, forced |-> FALSE, overtaken |-> FALSE]
  <2>1. /\ Proceed(c, l) /\ call[c].pc # "done"
        /\ UNCHANGED <<source, requirement, proposals, acts>>
    BY <1>2 DEF RejectProposal
  <2>2. OK(l) /\ l.pc # "flushed"
    BY <1>2 DEF RejectProposal, OK, LocalsOK, EditOK, FlushOK, ReviewOK, ApproveOK, Active
  <2> HIDE DEF l
  <2> QED BY <2>1, <2>2, ProceedStep
<1>3. CASE BulkAccept_Load(c, i)
  <2> DEFINE row == requirement[proposals[i].req]
             taken == [pc |-> "applying", on |-> i, seen |-> row, left |-> call[c].left,
                       applied |-> call[c].applied, forced |-> FALSE, overtaken |-> FALSE]
             refused == [pc |-> "refused", applied |-> call[c].applied]
  <2>1. /\ call[c].pc # "done" /\ UNCHANGED <<source, requirement, proposals, acts>>
        /\ \/ Proceed(c, taken) /\ Applicable(i, row, FALSE)
           \/ Proceed(c, refused)
    BY <1>3 DEF BulkAccept_Load
  <2>2. Applicable(i, row, FALSE) => OK(taken)
    BY DEF Applicable, OK, LocalsOK, EditOK, FlushOK, ReviewOK, ApproveOK, Active
  <2>3. OK(refused) /\ taken.pc # "flushed" /\ refused.pc # "flushed"
    BY DEF OK, LocalsOK, EditOK, FlushOK, ReviewOK, ApproveOK, Active
  <2> HIDE DEF row, taken, refused
  <2> QED BY <2>1, <2>2, <2>3, ProceedStep
<1> QED BY <1>1, <1>2, <1>3

LEMMA BulkAcceptStep ==
  ASSUME SyncInvariant, NEW c \in Calls, NEW ids, BulkAccept(c, ids)
  PROVE  SyncInvariant'
<1> DEFINE l == [pc |-> "bulk", left |-> ids, applied |-> {}, forced |-> FALSE,
                 overtaken |-> FALSE]
<1>1. /\ Proceed(c, l) /\ call[c].pc # "done"
      /\ UNCHANGED <<source, requirement, proposals, acts>>
  BY DEF BulkAccept
<1>2. OK(l) /\ l.pc # "flushed"
  BY DEF OK, LocalsOK, EditOK, FlushOK, ReviewOK, ApproveOK, Active
<1> HIDE DEF l
<1> QED BY <1>1, <1>2, ProceedStep

\* A commit that decides proposal i, and leaves the links of requirements alone.
LEMMA DecideStep ==
  ASSUME SyncInvariant, NEW c \in Calls, NEW result, Finish(c, result),
         call[c].pc \in {"accepting", "rejecting", "applying"},
         LocalsOK(result), result.pc \in {"done", "bulk", "failed"},
         NEW i, i = call[c].on,
         NEW status \in {"accepted", "rejected"},
         proposals' = [proposals EXCEPT ![i].status = status],
         source' = source,
         DOMAIN requirement' = DOMAIN requirement,
         \A r \in DOMAIN requirement :
           "link" \in DOMAIN requirement'[r] /\ requirement'[r].link = requirement[r].link,
         NEW forced, acts' = acts \cup {Act(c, "decide", i, forced)}
  PROVE  SyncInvariant'
<1>1. /\ i \in DOMAIN proposals
      /\ ~call[c].overtaken => proposals[i].status = "pending"
      /\ DOMAIN proposals = 1 .. Len(proposals) /\ Len(proposals) \in Nat
  BY DEF SyncInvariant, CallsOK, OK, ReviewOK, Tables, Database
<1>2. /\ DOMAIN proposals' = 1 .. Len(proposals)
      /\ proposals'[i].status = status
      /\ \A j \in DOMAIN proposals :
           /\ DOMAIN proposals'[j] = DOMAIN proposals[j]
           /\ proposals'[j].req = proposals[j].req /\ proposals'[j].type = proposals[j].type
           /\ proposals'[j].status \in {proposals[j].status, status}
  BY <1>1 DEF SyncInvariant, Tables, Database
<1>3. Len(proposals') = Len(proposals)
  <2>1. proposals' = [j \in 1 .. Len(proposals) |-> proposals'[j]]
    BY <1>1
  <2> QED BY <1>1, <2>1, LengthIs
<1>4. Tables(Database)'
  BY <1>1, <1>2, <1>3 DEF SyncInvariant, Tables, Database
<1>5. Frame(c)
  BY <1>1, <1>2 DEF Frame
<1>6. ActsOK' /\ DecidedOnce'
  <2> DEFINE a == Act(c, "decide", i, forced)
  <2>1. a.what = "decide" /\ a.on = i /\ a.overtaken = call[c].overtaken
    BY DEF Act
  <2>2. acts' = acts \cup {a}
    OBVIOUS
  <2> HIDE DEF a
  <2>3. a.overtaken \/ proposals[a.on].status = "pending"
    <3>1. CASE call[c].overtaken
      BY <2>1, <3>1
    <3>2. CASE ~call[c].overtaken
      BY <1>1, <2>1, <3>2
    <3> QED BY <3>1, <3>2
  <2> QED BY <1>1, <1>2, <1>5, <2>1, <2>2, <2>3, Deciding
<1> QED BY <1>4, <1>5, <1>6, FinishStep

\* What is applied to a requirement is its statement and its version.
LEMMA ApplyStep ==
  ASSUME SyncInvariant, NEW c \in Calls, NEW result,
         call[c].pc \in {"accepting", "applying"},
         Apply(c, call[c].on, call[c].seen, result),
         LocalsOK(result), result.pc \in {"done", "bulk", "failed"}
  PROVE  SyncInvariant'
<1> PICK i, seen : i = call[c].on /\ seen = call[c].seen
  OBVIOUS
<1> PICK r : r = proposals[i].req
  OBVIOUS
<1> PICK set : set = [statement |-> IF proposals[i].new = "none" THEN seen.statement
                                    ELSE proposals[i].new,
                      version |-> seen.version + 1]
  OBVIOUS
<1>1. /\ requirement' = [requirement EXCEPT ![r] = Updated(@, seen, set)]
      /\ proposals' = [proposals EXCEPT ![i].status = "accepted"]
      /\ acts' = acts \cup {Act(c, "decide", i, call[c].forced)}
      /\ Finish(c, result) /\ source' = source
  BY DEF Apply
<1>2. "link" \notin DOMAIN set
  OBVIOUS
<1>3. /\ DOMAIN requirement' = DOMAIN requirement
      /\ \A q \in DOMAIN requirement :
           "link" \in DOMAIN requirement'[q] /\ requirement'[q].link = requirement[q].link
  <2>1. \A q \in DOMAIN requirement : "link" \in DOMAIN requirement[q]
    BY DEF SyncInvariant, Tables, Database
  <2>2. \A row : "link" \in DOMAIN row =>
          "link" \in DOMAIN Updated(row, seen, set) /\ Updated(row, seen, set).link = row.link
    BY <1>2, UpdatedFields
  <2> PICK old, new : old = requirement[r] /\ new = Updated(old, seen, set)
    OBVIOUS
  <2>3. requirement' = [requirement EXCEPT ![r] = new]
    BY <1>1
  <2>4. "link" \in DOMAIN old => "link" \in DOMAIN new /\ new.link = old.link
    BY <2>2
  <2> QED BY <2>1, <2>3, <2>4
<1> QED BY <1>1, <1>3, DecideStep

LEMMA ReviewCommitStep ==
  ASSUME SyncInvariant, NEW c \in Calls,
         AcceptProposal_Commit(c) \/ RejectProposal_Commit(c) \/ BulkAccept_Apply(c)
  PROVE  SyncInvariant'
<1>1. LocalsOK(Done) /\ Done.pc = "done"
  BY DEF LocalsOK, Done, Active
<1>2. CASE AcceptProposal_Commit(c)
  BY <1>1, <1>2, ApplyStep DEF AcceptProposal_Commit
<1>3. CASE RejectProposal_Commit(c)
  <2>1. /\ DOMAIN requirement' = DOMAIN requirement
        /\ \A r \in DOMAIN requirement :
             "link" \in DOMAIN requirement'[r] /\ requirement'[r].link = requirement[r].link
    BY <1>3 DEF RejectProposal_Commit, SyncInvariant, Tables, Database
  <2> QED BY <1>1, <1>3, <2>1, DecideStep DEF RejectProposal_Commit
<1>4. CASE BulkAccept_Apply(c)
  <2> DEFINE left == call[c].left \ {call[c].on}
             more == [pc |-> "bulk", left |-> left,
                      applied |-> call[c].applied \cup {call[c].on},
                      forced |-> FALSE, overtaken |-> FALSE]
  <2>1. /\ call[c].pc = "applying"
        /\ \/ Apply(c, call[c].on, call[c].seen, Done)
           \/ Apply(c, call[c].on, call[c].seen, more)
    BY <1>4 DEF BulkAccept_Apply
  <2>2. LocalsOK(more) /\ more.pc = "bulk"
    BY DEF LocalsOK, Active
  <2> HIDE DEF left, more
  <2> QED BY <1>1, <2>1, <2>2, ApplyStep
<1> QED BY <1>2, <1>3, <1>4

-----------------------------------------------------------------------------
(* Users                                                                     *)

\* A commit that changes requirements, but neither their links nor anything else.
LEMMA UserCommitStep ==
  ASSUME SyncInvariant, NEW c \in Calls, call[c].pc = "idle", Finish(c, Done),
         UNCHANGED <<source, proposals, acts>>,
         DOMAIN requirement' = DOMAIN requirement,
         \A r \in DOMAIN requirement :
           "link" \in DOMAIN requirement'[r] /\ requirement'[r].link = requirement[r].link
  PROVE  SyncInvariant'
<1>1. Tables(Database)' /\ Frame(c)
  BY DEF SyncInvariant, Tables, Database, Frame
<1>2. ActsOK' /\ DecidedOnce'
  BY <1>1, NotDeciding
<1>3. LocalsOK(Done) /\ Done.pc = "done"
  BY DEF LocalsOK, Done, Active
<1> QED BY <1>1, <1>2, <1>3, FinishStep

LEMMA UserSteps ==
  ASSUME SyncInvariant, NEW c \in Calls, UserStep(c)
  PROVE  SyncInvariant'
<1>1. \A r \in DOMAIN requirement : "link" \in DOMAIN requirement[r]
  BY DEF SyncInvariant, Tables, Database
<1>2. ASSUME NEW r \in Reqs, NEW locked, SetLock(c, r, locked) PROVE SyncInvariant'
  <2>1. /\ DOMAIN requirement' = DOMAIN requirement
        /\ \A q \in DOMAIN requirement :
             "link" \in DOMAIN requirement'[q] /\ requirement'[q].link = requirement[q].link
    BY <1>1, <1>2 DEF SetLock
  <2> QED BY <1>2, <2>1, UserCommitStep DEF SetLock
<1>3. ASSUME NEW r \in Reqs, NEW edit \in Edits, EditRequirement(c, r, edit)
      PROVE  SyncInvariant'
  <2> PICK row, new : row = requirement[r] /\ new = Updated(row, row, edit)
    OBVIOUS
  <2>1. requirement' = [requirement EXCEPT ![r] = [new EXCEPT !.version = @ + 1]]
        /\ r \in DOMAIN requirement
    BY <1>3 DEF EditRequirement
  <2>2. "link" \in DOMAIN new /\ new.link = row.link
    BY <1>1, <2>1, SyncAssumption, UpdatedFields
  <2>3. /\ DOMAIN requirement' = DOMAIN requirement
        /\ \A q \in DOMAIN requirement :
             "link" \in DOMAIN requirement'[q] /\ requirement'[q].link = requirement[q].link
    BY <1>1, <2>1, <2>2
  <2> QED BY <1>3, <2>3, UserCommitStep DEF EditRequirement
<1> QED BY <1>2, <1>3 DEF UserStep, LockRequirement, UnlockRequirement

-----------------------------------------------------------------------------
(* The invariant holds                                                       *)

LEMMA SyncInit == Init => SyncInvariant
<1> SUFFICES ASSUME Init PROVE SyncInvariant
  OBVIOUS
<1> PICK seed \in Seeds : /\ source = seed.source /\ requirement = seed.requirement
                          /\ proposals = seed.proposals
  BY DEF Init
<1>1. Tables(Database)
  BY SyncAssumption DEF Tables, Database
<1>2. CallsOK
  BY DEF Init, CallsOK, Exclusive, OK, LocalsOK, EditOK, FlushOK, ReviewOK, ApproveOK, Active
<1>3. ActsOK /\ DecidedOnce
  BY DEF Init, ActsOK, DecidedOnce
<1>4. OrphansAreRaised
  BY SyncAssumption DEF OrphansAreRaised, Exists, Tables
<1> QED BY <1>1, <1>2, <1>3, <1>4 DEF SyncInvariant

LEMMA SyncStutter ==
  ASSUME SyncInvariant, UNCHANGED syncVars
  PROVE  SyncInvariant'
<1>1. Tables(Database)'
  BY DEF SyncInvariant, syncVars, Tables, Database
<1>2. CallsOK'
  BY DEF SyncInvariant, syncVars, CallsOK, Exclusive, OK, LocalsOK, EditOK, FlushOK, ReviewOK,
     ApproveOK, Linked
<1>3. ActsOK' /\ DecidedOnce'
  BY DEF SyncInvariant, syncVars, ActsOK, DecidedOnce
<1>4. OrphansAreRaised'
  BY DEF SyncInvariant, syncVars, OrphansAreRaised, Exists
<1> QED BY <1>1, <1>2, <1>3, <1>4 DEF SyncInvariant

LEMMA SyncStep ==
  ASSUME SyncInvariant, [Next]_syncVars
  PROVE  SyncInvariant'
<1>1. ASSUME NEW c \in Calls, SourceStep(c) PROVE SyncInvariant'
  BY <1>1, CreateJointStep, EditSourceStep, ApproveJointStep, ApproveJointCommitStep,
     StaleStep, FlushStep, CommitStep, CommitInFlushStep DEF SourceStep
<1>2. ASSUME NEW c \in Calls, ReviewStep(c) PROVE SyncInvariant'
  BY <1>2, ReviewLoadStep, BulkAcceptStep, ReviewCommitStep DEF ReviewStep
<1> QED BY <1>1, <1>2, UserSteps, SyncStutter DEF Next

\* Whatever requests overlap: a proposal is accepted or rejected once, and a
\* joint approved once, unless one of the two deciders was overtaken between
\* its check and its commit (routers/req_sync.py, mechanical_joints.py).
THEOREM DecisionsAreMadeOnce == Spec => []DecidedOnce
<1>1. SyncInvariant /\ [Next]_syncVars => SyncInvariant'
  BY SyncStep
<1>2. SyncInvariant => DecidedOnce
  BY DEF SyncInvariant
<1> QED BY SyncInit, <1>1, <1>2, PTL DEF Spec

\* No requirement outlives its source unnoticed, even when the approval that
\* generated it raced the deletion: there is an "obsolete" proposal for it, or
\* the deletion found it locked, deleted or deferred (req_sync/service.py).
THEOREM OrphansRaised == Spec => []OrphansAreRaised
<1>1. SyncInvariant /\ [Next]_syncVars => SyncInvariant'
  BY SyncStep
<1>2. SyncInvariant => OrphansAreRaised
  BY DEF SyncInvariant
<1> QED BY SyncInit, <1>1, <1>2, PTL DEF Spec

-----------------------------------------------------------------------------
(* Protected text                                                            *)

ProtectedStep ==
  \A r \in DOMAIN requirement :
    requirement'[r].statement # requirement[r].statement =>
      /\ source' = source
      /\ requirement[r].locked => \A a \in acts' \ acts : a.forced \/ a.overtaken

\* A reviewer writes what was unlocked, or forces it.
LEMMA ApplyProtects ==
  ASSUME SyncInvariant, NEW c \in Calls, NEW result,
         call[c].pc \in {"accepting", "applying"},
         Apply(c, call[c].on, call[c].seen, result)
  PROVE  ProtectedStep
<1> PICK i, seen, forced : i = call[c].on /\ seen = call[c].seen /\ forced = call[c].forced
  OBVIOUS
<1> PICK p : p = proposals[i].req
  OBVIOUS
<1> PICK a : a = Act(c, "decide", i, forced)
  OBVIOUS
<1>1. /\ ~call[c].overtaken => ~requirement[p].locked \/ forced
  BY DEF SyncInvariant, CallsOK, OK, ReviewOK
<1>2. /\ acts' = acts \cup {a} /\ a.what = "decide"
      /\ a.forced = forced /\ a.overtaken = call[c].overtaken
  BY DEF Apply, Act
<1>3. \A r \in DOMAIN requirement : r # p => requirement'[r] = requirement[r]
  BY DEF Apply
<1>4. ASSUME ~a.overtaken, ~a.forced PROVE ~requirement[p].locked
  <2>1. ~call[c].overtaken
    BY <1>2, <1>4
  <2>2. ~forced
    BY <1>2, <1>4
  <2> QED BY <1>1, <2>1, <2>2
<1>5. \A b \in acts' \ acts : b = a
  BY <1>2
<1>6. source' = source
  BY DEF Apply
<1> QED BY <1>3, <1>4, <1>5, <1>6 DEF ProtectedStep

\* Any other step writes no statement, or is a user's own edit.
LEMMA StepProtects ==
  ASSUME SyncInvariant, [Next]_syncVars
  PROVE  ProtectedStep
<1>1. CASE requirement' = requirement
  BY <1>1 DEF ProtectedStep
<1>2. ASSUME NEW c \in Calls, SourceStep(c) PROVE ProtectedStep
  <2>1. ASSUME NEW r \in Reqs, NEW heard, NEW effect, ApproveJoint_Commit(c, r, heard, effect)
        PROVE  ProtectedStep
    <3>1. \A q \in DOMAIN requirement : requirement'[q] = requirement[q]
      BY <2>1 DEF ApproveJoint_Commit
    <3> QED BY <3>1 DEF ProtectedStep
  <2>2. ASSUME NEW s \in Sources, NEW text
        PROVE  CreateJoint(c, s, text) \/ UpdateSource(c, s, text) => requirement' = requirement
    BY DEF CreateJoint, UpdateSource, Load
  <2>3. ASSUME NEW s \in Sources
        PROVE  DeleteSource(c, s) \/ ApproveJoint(c, s) => requirement' = requirement
    BY DEF DeleteSource, Load, ApproveJoint
  <2>4. Stale(c) \/ Flush(c) \/ Commit_InFlush(c) => requirement' = requirement
    BY DEF Stale, Flush, Commit_InFlush
  <2>5. \A effect \in FlushEffects : Commit(c, effect) => requirement' = requirement
    BY DEF Commit
  <2> QED BY <1>1, <1>2, <2>1, <2>2, <2>3, <2>4, <2>5 DEF SourceStep
<1>3. ASSUME NEW c \in Calls, ReviewStep(c) PROVE ProtectedStep
  <2>1. ASSUME NEW i \in DOMAIN proposals
        PROVE  /\ \A forced \in BOOLEAN :
                    AcceptProposal(c, i, forced) => requirement' = requirement
               /\ RejectProposal(c, i) \/ BulkAccept_Load(c, i) => requirement' = requirement
               /\ \A j \in DOMAIN proposals : BulkAccept(c, {i, j}) => requirement' = requirement
    BY DEF AcceptProposal, RejectProposal, BulkAccept_Load, BulkAccept
  <2>2. CASE AcceptProposal_Commit(c)
    BY <2>2, ApplyProtects DEF AcceptProposal_Commit
  <2>3. CASE RejectProposal_Commit(c)
    BY <1>1, <2>3 DEF RejectProposal_Commit
  <2>4. CASE BulkAccept_Apply(c)
    BY <2>4, ApplyProtects DEF BulkAccept_Apply
  <2> QED BY <1>1, <1>3, <2>1, <2>2, <2>3, <2>4 DEF ReviewStep
<1>4. ASSUME NEW c \in Calls, UserStep(c) PROVE ProtectedStep
  <2>1. acts' = acts /\ source' = source
    BY <1>4 DEF UserStep, LockRequirement, UnlockRequirement, SetLock, EditRequirement
  <2> QED BY <2>1 DEF ProtectedStep
<1> QED BY <1>1, <1>2, <1>3, <1>4 DEF Next, syncVars

\* The statement of a locked requirement is changed only by an acceptance that
\* was forced or overtaken since it read the row, or by a user's own edit, and
\* no request that writes a source changes any statement (sync_locked in
\* req_sync/fan_out.py, and _apply_proposal of routers/req_sync.py).
THEOREM ProtectedTextIsKept == Spec => ProtectedTextStays
<1>1. SyncInvariant /\ [Next]_syncVars => SyncInvariant'
  BY SyncStep
<1>2. SyncInvariant /\ [Next]_syncVars => [ProtectedStep]_syncVars
  BY StepProtects
<1>3. [][ProtectedStep]_syncVars => ProtectedTextStays
  BY DEF ProtectedStep, ProtectedTextStays
<1> QED BY SyncInit, <1>1, <1>2, <1>3, PTL DEF Spec

-----------------------------------------------------------------------------
(* Generated requirements: the inductive invariant                           *)

Generates(q) == q.pc \in {"looking", "counting", "inserting"}

LocalColumns ==
  {"pc", "todo", "writes", "linked", "unlinked", "tested", "revived", "overlapped"}

\* What request c knows while it generates, in database g with links k: each
\* row it wrote is new, has a link, and has its source to itself; and while
\* nobody else has committed, its source has no live requirement.
RowsOwn(c, q) ==
  /\ \A r \in DOMAIN q.writes :
       /\ r[1] = c
       /\ q.writes[r].number = r[2] /\ q.writes[r].status # "deleted"
       /\ \E l \in q.linked :
            l.req = r /\ l.auto /\ l.template /\ l.entity = q.writes[r].source
  /\ \A r, s \in DOMAIN q.writes : q.writes[r].source = q.writes[s].source => r = s
LinksOwn(q, g) ==
  \A l \in q.linked :
    /\ LinkColumns \subseteq DOMAIN l
    /\ l.req \in DOMAIN q.writes \cup DOMAIN g
    /\ l.template => /\ l.auto /\ l.req \in DOMAIN q.writes
                     /\ l.entity = q.writes[l.req].source
SourcesFree(q, g, k) ==
  ~q.overlapped => \A r \in DOMAIN q.writes : Sourced(k, g, q.writes[r].source) = {}
Searched(q, g, k) ==
  q.pc \in {"counting", "inserting"} =>
    LET e == Head(q.todo).entity IN
    /\ \A r \in DOMAIN q.writes : q.writes[r].source # e
    /\ ~q.overlapped => Sourced(k, g, e) = {}
GenerationOK(c, q, g, k) ==
  /\ LocalColumns \cup {"number"} \subseteq DOMAIN q /\ q.unlinked = {}
  /\ RowsOwn(c, q) /\ LinksOwn(q, g) /\ SourcesFree(q, g, k) /\ Searched(q, g, k)

\* A review stamps a link once, and holds the links it replaces.
Stamps(what, l) ==
  \/ what = "approve" /\ l.status = "approved"
  \/ what = "reject" /\ l.status = "rejected"
  \/ what \notin {"approve", "reject", "orphan_requirements"}

\* A review writes rows that were there, under their sources, and remembers
\* those it brings back.
ReviewingOK(q, g, k) ==
  /\ LocalColumns \cup {"what", "of", "seen"} \subseteq DOMAIN q
  /\ q.todo \in Seq(DOMAIN g)
  /\ q.seen # None => IsRow(q.seen)
  /\ \A r \in DOMAIN q.writes :
       /\ r \in DOMAIN g
       /\ q.writes[r].source = g[r].source
       /\ g[r].status = "deleted" /\ q.writes[r].status # "deleted" =>
            g[r].source \in q.revived
  /\ q.unlinked \subseteq k
  /\ \A l \in q.unlinked : ~Stamps(q.what, l)
  /\ \A l \in q.linked :
       /\ Stamps(q.what, l)
       /\ LinkColumns \subseteq DOMAIN l /\ l.auto
       /\ \E l0 \in q.unlinked :
            l0.entity = l.entity /\ l0.req = l.req /\ l0.template = l.template

Rows(g) == \A r \in DOMAIN g : IsRow(g[r]) /\ Chained(g[r])

RequestOK(c, q, g, k) ==
  /\ "pc" \in DOMAIN q
  /\ q.pc \notin Closed => /\ Generates(q) \/ q.pc = "reviewing"
                           /\ IsFiniteSet(q.linked)
                           /\ Rows(q.writes)
  /\ Generates(q) => GenerationOK(c, q, g, k)
  /\ q.pc = "reviewing" => ReviewingOK(q, g, k)
  /\ q.pc # "done" => \A r \in DOMAIN g : r[1] # c

\* Two reviews hold different rows and different links.
Apart(p, q) ==
  p.pc = "reviewing" /\ q.pc = "reviewing" =>
    DOMAIN p.writes \cap DOMAIN q.writes = {} /\ p.unlinked \cap q.unlinked = {}

DatabaseOK(g, k) == Rows(g) /\ IsFiniteSet(k) /\ \A l \in k : IsLink(l, g)

AutoInvariant ==
  /\ DatabaseOK(generated, links)
  /\ OneEach(links, generated, Entities \ disturbed)
  /\ DOMAIN request = AutoCalls
  /\ \A c \in AutoCalls : RequestOK(c, request[c], generated, links)
  /\ \A c, d \in AutoCalls : c # d => Apart(request[c], request[d])

-----------------------------------------------------------------------------
(* Steps of a request that commit nothing                                    *)

LEMMA ContinueStep ==
  ASSUME AutoInvariant, NEW c \in AutoCalls, NEW q,
         request' = [request EXCEPT ![c] = q],
         UNCHANGED <<generated, links, disturbed>>,
         RequestOK(c, q, generated, links),
         \A d \in AutoCalls \ {c} : Apart(q, request[d])
  PROVE  AutoInvariant'
<1>1. /\ DOMAIN request' = AutoCalls
      /\ \A d \in AutoCalls : request'[d] = IF d = c THEN q ELSE request[d]
  BY DEF AutoInvariant
<1>2. \A d \in AutoCalls : RequestOK(d, request'[d], generated, links)
  BY <1>1 DEF AutoInvariant
<1>3. \A d, e \in AutoCalls : d # e => Apart(request'[d], request'[e])
  <2> SUFFICES ASSUME NEW d \in AutoCalls, NEW e \in AutoCalls, d # e
               PROVE  Apart(request'[d], request'[e])
    OBVIOUS
  <2>1. CASE d = c
    BY <1>1, <2>1
  <2>2. CASE d # c /\ e = c
    <3>1. Apart(q, request[d])
      BY <2>2
    <3> QED BY <1>1, <2>2, <3>1 DEF Apart
  <2>3. CASE d # c /\ e # c
    BY <1>1, <2>3 DEF AutoInvariant
  <2> QED BY <2>1, <2>2, <2>3
<1>4. \A d \in AutoCalls : RequestOK(d, request[d], generated, links)'
  BY <1>2
<1>5. \A d, e \in AutoCalls : d # e => Apart(request[d], request[e])'
  BY <1>3
<1>6. DatabaseOK(generated, links)' /\ OneEach(links, generated, Entities \ disturbed)'
  BY DEF AutoInvariant
<1> QED BY <1>1, <1>4, <1>5, <1>6 DEF AutoInvariant

Transaction == {"writes", "linked", "unlinked", "tested", "revived", "overlapped"}
\* The local variables a request begins with.
LEMMA Beginning ==
  ASSUME AutoInvariant, NEW c \in AutoCalls, NEW local, Begin(c, local),
         DOMAIN local \cap Transaction = {}
  PROVE  \E q :
    /\ request' = [request EXCEPT ![c] = q]
    /\ DOMAIN q = DOMAIN local \cup Transaction
    /\ \A f \in DOMAIN local : q[f] = local[f]
    /\ DOMAIN q.writes = {} /\ q.linked = {} /\ q.unlinked = {}
    /\ ~q.overlapped
    /\ \A r \in DOMAIN generated : r[1] # c
<1> DEFINE q == Over(local,
       [writes |-> [r \in {} |-> 0], linked |-> {}, unlinked |-> {}, tested |-> <<>>,
        revived |-> {}, overlapped |-> FALSE])
<1>1. request' = [request EXCEPT ![c] = q]
  BY DEF Begin
<1>2. /\ DOMAIN q = DOMAIN local \cup Transaction
      /\ \A f \in DOMAIN local : q[f] = local[f]
      /\ DOMAIN q.writes = {} /\ q.linked = {} /\ q.unlinked = {}
      /\ ~q.overlapped
  BY DEF Over, Transaction
<1>3. \A r \in DOMAIN generated : r[1] # c
  BY DEF Begin, AutoInvariant, RequestOK
<1> QED BY <1>1, <1>2, <1>3

LEMMA GenerateStep ==
  ASSUME AutoInvariant, NEW c \in AutoCalls, NEW W, Generate(c, W)
  PROVE  AutoInvariant'
<1>1. PICK number, todo : Begin(c, [pc |-> "looking", number |-> number, todo |-> todo])
  BY DEF Generate
<1> DEFINE local == [pc |-> "looking", number |-> number, todo |-> todo]
<1>a. DOMAIN local = {"pc", "number", "todo"} /\ local.pc = "looking"
  OBVIOUS
<1> HIDE DEF local
<1>b. DOMAIN local \cap Transaction = {}
  BY <1>a DEF Transaction
<1>c. Begin(c, local)
  BY <1>1 DEF local
<1>2. PICK q :
        /\ request' = [request EXCEPT ![c] = q]
        /\ DOMAIN q = DOMAIN local \cup Transaction
        /\ \A f \in DOMAIN local : q[f] = local[f]
        /\ DOMAIN q.writes = {} /\ q.linked = {} /\ q.unlinked = {}
        /\ ~q.overlapped
        /\ \A r \in DOMAIN generated : r[1] # c
  BY <1>b, <1>c, Beginning
<1>3. RequestOK(c, q, generated, links)
  BY <1>2, <1>a, FS_EmptySet
     DEF RequestOK, Rows, Generates, GenerationOK, LocalColumns, Closed, Transaction,
         RowsOwn, LinksOwn, SourcesFree, Searched
<1>4. \A d \in AutoCalls \ {c} : Apart(q, request[d])
  BY <1>2, <1>a DEF Apart
<1>5. UNCHANGED <<generated, links, disturbed>>
  BY <1>1 DEF Begin
<1> QED BY <1>2, <1>3, <1>4, <1>5, ContinueStep

LEMMA ReviewStart ==
  ASSUME AutoInvariant, NEW c \in AutoCalls, NEW what, NEW of,
         NEW order \in Seq(DOMAIN generated), Review(c, what, of, order)
  PROVE  AutoInvariant'
<1> DEFINE local == [pc |-> "reviewing", what |-> what, of |-> of, todo |-> order,
                      seen |-> None]
<1>a. /\ DOMAIN local = {"pc", "what", "of", "todo", "seen"}
      /\ local.pc = "reviewing" /\ local.todo = order /\ local.seen = None
  OBVIOUS
<1>c. Begin(c, local)
  BY DEF Review
<1> HIDE DEF local
<1>b. DOMAIN local \cap Transaction = {}
  BY <1>a DEF Transaction
<1>1. PICK q :
        /\ request' = [request EXCEPT ![c] = q]
        /\ DOMAIN q = DOMAIN local \cup Transaction
        /\ \A f \in DOMAIN local : q[f] = local[f]
        /\ DOMAIN q.writes = {} /\ q.linked = {} /\ q.unlinked = {}
        /\ ~q.overlapped
        /\ \A r \in DOMAIN generated : r[1] # c
  BY <1>b, <1>c, Beginning
<1>2. RequestOK(c, q, generated, links)
  BY <1>1, <1>a, FS_EmptySet
     DEF RequestOK, Rows, Generates, ReviewingOK, LocalColumns, Closed, Transaction
<1>3. \A d \in AutoCalls \ {c} : Apart(q, request[d])
  BY <1>1, <1>a DEF Apart
<1>4. UNCHANGED <<generated, links, disturbed>>
  BY DEF Review, Begin
<1> QED BY <1>1, <1>2, <1>3, <1>4, ContinueStep

\* The requirements that a preview lists are there.
LEMMA AffectedFinite ==
  ASSUME AutoInvariant, NEW E
  PROVE  IsFiniteSet(Affected(E))
<1> DEFINE S == {k \in links : k.entity \in E}
           f == [l \in S |-> l.req]
<1>1. IsFiniteSet(S)
  BY FS_Subset DEF AutoInvariant, DatabaseOK
<1>2. f \in Surjection(S, Affected(E))
  BY DEF Surjection, Affected
<1> QED BY <1>1, <1>2, FS_Surjection

LEMMA AffectedAreThere ==
  ASSUME AutoInvariant, NEW E
  PROVE  SetToSeq(Affected(E)) \in Seq(DOMAIN generated)
<1>1. Affected(E) \subseteq DOMAIN generated
  BY DEF Affected, AutoInvariant, DatabaseOK, IsLink
<1>2. SetToSeq(Affected(E)) \in [1 .. Cardinality(Affected(E)) -> Affected(E)]
      /\ Cardinality(Affected(E)) \in Nat
  BY AffectedFinite, SetToSeqCovers
<1>3. SetToSeq(Affected(E)) \in [1 .. Cardinality(Affected(E)) -> DOMAIN generated]
  BY <1>1, <1>2
<1> QED BY <1>2, <1>3, SeqDef

LEMMA ReviewBegins ==
  ASSUME AutoInvariant, NEW c \in AutoCalls,
         \/ \E R \in kSubset(Batches, DOMAIN generated) :
              \E order \in SetToSeqs(R) : Approve(c, order) \/ Reject(c, order)
         \/ \E what \in {"delete_requirements", "orphan_requirements", "mark_for_review"},
               preview \in Previews : Resolve(c, what, preview)
  PROVE  AutoInvariant'
<1>1. CASE \E R \in kSubset(Batches, DOMAIN generated) :
              \E order \in SetToSeqs(R) : Approve(c, order) \/ Reject(c, order)
  <2>0. PICK R \in kSubset(Batches, DOMAIN generated) :
          \E order \in SetToSeqs(R) : Approve(c, order) \/ Reject(c, order)
    BY <1>1
  <2>1. PICK order \in SetToSeqs(R) : Approve(c, order) \/ Reject(c, order)
    BY <2>0
  <2>2. R \subseteq DOMAIN generated /\ Cardinality(R) \in Nat
    BY AutoAssumption DEF kSubset
  <2>3. order \in [1 .. Cardinality(R) -> R]
    BY DEF SetToSeqs
  <2>4. order \in [1 .. Cardinality(R) -> DOMAIN generated]
    BY <2>2, <2>3
  <2>5. order \in Seq(DOMAIN generated)
    BY <2>2, <2>4, SeqDef
  <2> QED BY <2>1, <2>5, ReviewStart DEF Approve, Reject
<1>2. CASE \E what \in {"delete_requirements", "orphan_requirements", "mark_for_review"},
               preview \in Previews : Resolve(c, what, preview)
  <2>1. PICK what, preview : Resolve(c, what, preview)
    BY <1>2
  <2> DEFINE order == SetToSeq(Affected(BlastRadius(preview[1], preview[2])))
  <2>2. order \in Seq(DOMAIN generated)
    BY AffectedAreThere
  <2>3. Review(c, what, preview, order)
    BY <2>1 DEF Resolve
  <2> HIDE DEF order
  <2> QED BY <2>2, <2>3, ReviewStart
<1> QED BY <1>1, <1>2

LEMMA FailStep ==
  ASSUME AutoInvariant, NEW c \in AutoCalls, NEW why, request[c].pc # "done", Fail(c, why)
  PROVE  AutoInvariant'
<1> DEFINE q == [pc |-> "failed", why |-> why]
<1>1. RequestOK(c, q, generated, links)
  BY DEF AutoInvariant, RequestOK, Closed, Generates
<1>2. \A d \in AutoCalls \ {c} : Apart(q, request[d])
  BY DEF Apart
<1>3. request' = [request EXCEPT ![c] = q] /\ UNCHANGED <<generated, links, disturbed>>
  BY DEF Fail, Continue
<1> HIDE DEF q
<1> QED BY <1>1, <1>2, <1>3, ContinueStep

-----------------------------------------------------------------------------
(* Generation                                                                *)

LEMMA GenerationFields ==
  ASSUME AutoInvariant, NEW c \in AutoCalls, Generates(request[c]),
         NEW e, NEW r, NEW more, NEW q, q = Generation(c, e, r, more)
  PROVE  /\ DOMAIN q = DOMAIN request[c] /\ q.pc = "looking"
         /\ q.writes = request[c].writes /\ q.unlinked = request[c].unlinked
         /\ q.overlapped = request[c].overlapped
         /\ q.linked = (request[c].linked \cup more)
                         \cup BusLink(e, r)
<1>1. LocalColumns \subseteq DOMAIN request[c]
  BY DEF AutoInvariant, RequestOK, GenerationOK
<1> QED BY <1>1 DEF Generation, LocalColumns

\* What a request that generates sees: the committed rows, and its own.
LEMMA GenerationSees ==
  ASSUME AutoInvariant, NEW c \in AutoCalls, Generates(request[c])
  PROVE  /\ GenerationOK(c, request[c], generated, links)
         /\ Rows(request[c].writes) /\ IsFiniteSet(request[c].linked)
         /\ \A r \in DOMAIN generated : r[1] # c
         /\ DOMAIN Visible(c) = DOMAIN request[c].writes \cup DOMAIN generated
         /\ \A r \in DOMAIN generated : Visible(c)[r] = generated[r]
         /\ \A r \in DOMAIN request[c].writes : Visible(c)[r] = request[c].writes[r]
         /\ VisibleLinks(c) = links \cup request[c].linked
<1>1. /\ GenerationOK(c, request[c], generated, links)
      /\ Rows(request[c].writes) /\ IsFiniteSet(request[c].linked)
      /\ \A r \in DOMAIN generated : r[1] # c
  BY DEF AutoInvariant, RequestOK, Generates, Closed
<1>2. \A r \in DOMAIN generated : r \notin DOMAIN request[c].writes
  BY <1>1 DEF GenerationOK, RowsOwn
<1> QED BY <1>1, <1>2 DEF Visible, VisibleLinks, Over, GenerationOK

LEMMA Generating ==
  ASSUME AutoInvariant, NEW c \in AutoCalls, NEW q, Continue(c, q), Generates(q),
         Generates(request[c]),
         GenerationOK(c, q, generated, links), Rows(q.writes), IsFiniteSet(q.linked)
  PROVE  AutoInvariant'
<1>1. RequestOK(c, q, generated, links)
  BY GenerationSees DEF RequestOK, GenerationOK, LocalColumns, Generates
<1>2. \A d \in AutoCalls \ {c} : Apart(q, request[d])
  BY DEF Apart, Generates
<1> QED BY <1>1, <1>2, ContinueStep DEF Continue

LEMMA FoundStep ==
  ASSUME AutoInvariant, NEW c \in AutoCalls, Generates(request[c]),
         NEW e, NEW r \in Existing(c, e), Continue(c, Generation(c, e, r, {}))
  PROVE  AutoInvariant'
<1>1. PICK q : q = Generation(c, e, r, {})
  OBVIOUS
<1> DEFINE new == BusLink(e, r)
<1>2. /\ DOMAIN q = DOMAIN request[c] /\ q.pc = "looking"
      /\ q.writes = request[c].writes /\ q.unlinked = request[c].unlinked
      /\ q.overlapped = request[c].overlapped
      /\ q.linked = (request[c].linked \cup {}) \cup new
  BY <1>1, GenerationFields
<1>3. \A l \in new : LinkColumns \subseteq DOMAIN l /\ ~l.template /\ l.req = r
  BY DEF BusLink, Link, LinkColumns
<1>4. IsFiniteSet(new)
  BY FS_EmptySet, FS_Singleton DEF BusLink
<1> HIDE DEF new
<1>5. q.linked = request[c].linked \cup new
  BY <1>2
<1>6. /\ GenerationOK(c, request[c], generated, links)
      /\ Rows(request[c].writes) /\ IsFiniteSet(request[c].linked)
      /\ r \in DOMAIN request[c].writes \cup DOMAIN generated
  BY GenerationSees DEF Existing
<1>7. IsFiniteSet(q.linked)
  BY <1>4, <1>5, <1>6, FS_Union
<1>8. RowsOwn(c, q)
  BY <1>2, <1>5, <1>6 DEF GenerationOK, RowsOwn
<1>9. LinksOwn(q, generated)
  BY <1>2, <1>3, <1>5, <1>6 DEF GenerationOK, LinksOwn
<1>10. SourcesFree(q, generated, links) /\ Searched(q, generated, links)
  BY <1>2, <1>6 DEF GenerationOK, SourcesFree, Searched
<1>11. GenerationOK(c, q, generated, links)
  BY <1>2, <1>6, <1>8, <1>9, <1>10 DEF GenerationOK
<1> QED BY <1>1, <1>2, <1>6, <1>7, <1>11, Generating DEF Generates

\* A request that finds nothing goes on with its rows and links as they are.
LEMMA SearchStep ==
  ASSUME AutoInvariant, NEW c \in AutoCalls, Generates(request[c]), NEW q, Continue(c, q),
         DOMAIN q = DOMAIN request[c], q.pc \in {"counting", "inserting"},
         q.todo = request[c].todo, q.writes = request[c].writes,
         q.linked = request[c].linked, q.unlinked = request[c].unlinked,
         q.overlapped = request[c].overlapped,
         Searched(q, generated, links)
  PROVE  AutoInvariant'
<1>1. /\ GenerationOK(c, request[c], generated, links)
      /\ Rows(request[c].writes) /\ IsFiniteSet(request[c].linked)
  BY GenerationSees
<1>2. RowsOwn(c, q) /\ LinksOwn(q, generated) /\ SourcesFree(q, generated, links)
  <2>1. RowsOwn(c, q)
    BY <1>1 DEF GenerationOK, RowsOwn
  <2>2. LinksOwn(q, generated)
    BY <1>1 DEF GenerationOK, LinksOwn
  <2>3. SourcesFree(q, generated, links)
    BY <1>1 DEF GenerationOK, SourcesFree
  <2> QED BY <2>1, <2>2, <2>3
<1>3. GenerationOK(c, q, generated, links)
  BY <1>1, <1>2 DEF GenerationOK
<1> QED BY <1>1, <1>3, Generating DEF Generates

LEMMA NothingFound ==
  ASSUME AutoInvariant, NEW c \in AutoCalls, Generates(request[c]),
         NEW e, Existing(c, e) = {}
  PROVE  /\ Sourced(links, generated, e) = {}
         /\ \A r \in DOMAIN request[c].writes : request[c].writes[r].source # e
<1>1. RowsOwn(c, request[c])
  BY GenerationSees DEF GenerationOK
<1>2. ASSUME NEW r \in Sourced(links, generated, e) PROVE FALSE
  <2>1. PICK l \in links : l.entity = e /\ l.req = r /\ l.template
    BY <1>2 DEF Sourced
  <2>2. r \in DOMAIN generated /\ generated[r].status # "deleted"
    BY <1>2 DEF Sourced
  <2>3. l.auto
    BY <2>1 DEF AutoInvariant, DatabaseOK, IsLink
  <2>5. l \in VisibleLinks(c)
    BY <2>1, GenerationSees
  <2>4. r \in DOMAIN Visible(c) /\ Visible(c)[r].status # "deleted"
    BY <2>2, GenerationSees
  <2> QED BY <2>1, <2>3, <2>4, <2>5 DEF Existing
<1>3. ASSUME NEW r \in DOMAIN request[c].writes, request[c].writes[r].source = e
      PROVE  FALSE
  <2>1. PICK l \in request[c].linked : l.req = r /\ l.auto /\ l.template /\ l.entity = e
    BY <1>1, <1>3 DEF RowsOwn
  <2>2. request[c].writes[r].status # "deleted"
    BY <1>1, <1>3 DEF RowsOwn
  <2>3. l \in VisibleLinks(c)
    BY GenerationSees
  <2>4. r \in DOMAIN Visible(c) /\ Visible(c)[r].status # "deleted"
    BY <1>3, <2>2, GenerationSees
  <2> QED BY <2>1, <2>3, <2>4 DEF Existing
<1> QED BY <1>2, <1>3

LEMMA LookUpStep ==
  ASSUME AutoInvariant, NEW c \in AutoCalls, LookUp(c)
  PROVE  AutoInvariant'
<1>1. PICK e : e = Head(request[c].todo).entity
  OBVIOUS
<1>2. Generates(request[c])
  BY DEF LookUp, Generates
<1>3. CASE \E r \in Existing(c, e) : Continue(c, Generation(c, e, r, {}))
  BY <1>2, <1>3, FoundStep
<1>4. CASE Existing(c, e) = {} /\ Continue(c, [request[c] EXCEPT !.pc = "counting"])
  <2>1. PICK q : q = [request[c] EXCEPT !.pc = "counting"]
    OBVIOUS
  <2>2. LocalColumns \subseteq DOMAIN request[c]
    BY <1>2, GenerationSees DEF GenerationOK
  <2>3. /\ DOMAIN q = DOMAIN request[c] /\ q.pc = "counting" /\ q.todo = request[c].todo
        /\ q.writes = request[c].writes /\ q.linked = request[c].linked
        /\ q.unlinked = request[c].unlinked /\ q.overlapped = request[c].overlapped
    BY <2>1, <2>2 DEF LocalColumns
  <2>4. Searched(q, generated, links)
    BY <1>1, <1>2, <1>4, <2>3, NothingFound DEF Searched
  <2> QED BY <1>2, <1>4, <2>1, <2>3, <2>4, SearchStep
<1> QED BY <1>1, <1>3, <1>4 DEF LookUp

LEMMA CountRowsStep ==
  ASSUME AutoInvariant, NEW c \in AutoCalls, CountRows(c)
  PROVE  AutoInvariant'
<1>1. PICK n : Continue(c, [request[c] EXCEPT !.pc = "inserting", !.number = n])
  BY DEF CountRows
<1>2. Generates(request[c]) /\ request[c].pc = "counting"
  BY DEF CountRows, Generates
<1>3. PICK q : q = [request[c] EXCEPT !.pc = "inserting", !.number = n]
  OBVIOUS
<1>4. LocalColumns \subseteq DOMAIN request[c] /\ Searched(request[c], generated, links)
  BY <1>2, GenerationSees DEF GenerationOK
<1>5. /\ DOMAIN q = DOMAIN request[c] /\ q.pc = "inserting" /\ q.todo = request[c].todo
      /\ q.writes = request[c].writes /\ q.linked = request[c].linked
      /\ q.unlinked = request[c].unlinked /\ q.overlapped = request[c].overlapped
  BY <1>3, <1>4 DEF LocalColumns
<1>6. Searched(q, generated, links)
  BY <1>2, <1>4, <1>5 DEF Searched
<1> QED BY <1>1, <1>2, <1>3, <1>5, <1>6, SearchStep

LEMMA InsertRowStep ==
  ASSUME AutoInvariant, NEW c \in AutoCalls, InsertRow(c)
  PROVE  AutoInvariant'
<1>1. PICK row : row = NewRow(c)
  OBVIOUS
<1> DEFINE n == request[c].number
           r == <<c, n>>
           e == row.source
           found == Generation(c, e, r, {Link(e, r, TRUE)})
<1>a. /\ DOMAIN row = Columns /\ row.source = Head(request[c].todo).entity
      /\ row.number = n /\ row.version = 1 /\ row.history = <<>>
      /\ row.status \in {"pending_review", "draft"}
  BY <1>1 DEF NewRow, Columns
<1>b. \/ Fail(c, "refused")
      \/ /\ \A x \in DOMAIN Visible(c) : Visible(c)[x].number # n
         /\ Continue(c, Inserted(found, r, row))
  BY <1>1 DEF InsertRow
<1>2. Generates(request[c]) /\ request[c].pc = "inserting"
  BY DEF InsertRow, Generates
<1>3. CASE Fail(c, "refused")
  BY <1>2, <1>3, FailStep
<1>4. CASE /\ \A x \in DOMAIN Visible(c) : Visible(c)[x].number # n
           /\ Continue(c, Inserted(found, r, row))
  <2> DEFINE new == {Link(e, r, TRUE)}
             bus == BusLink(e, r)
             old == request[c].writes
  <2>1. PICK w : w = Generation(c, e, r, new)
    OBVIOUS
  <2>2. PICK q : q = Inserted(w, r, row)
    OBVIOUS
  <2>f. Continue(c, q)
    BY <1>4, <2>1, <2>2
  <2> HIDE DEF new
  <2>3. /\ DOMAIN w = DOMAIN request[c] /\ w.pc = "looking" /\ w.writes = old
        /\ w.unlinked = request[c].unlinked /\ w.overlapped = request[c].overlapped
        /\ w.linked = (request[c].linked \cup new) \cup bus
    BY <1>2, <2>1, GenerationFields
  <2>4. /\ GenerationOK(c, request[c], generated, links)
        /\ Rows(old) /\ IsFiniteSet(request[c].linked)
        /\ DOMAIN old \subseteq DOMAIN Visible(c)
        /\ \A x \in DOMAIN old : Visible(c)[x] = old[x]
    BY <1>2, GenerationSees
  <2>5. LocalColumns \cup {"number"} \subseteq DOMAIN w
    BY <2>3, <2>4 DEF GenerationOK
  <2>6. /\ DOMAIN q = DOMAIN request[c] /\ q.pc = "looking"
        /\ q.unlinked = request[c].unlinked /\ q.overlapped = request[c].overlapped
        /\ q.linked = (request[c].linked \cup new) \cup bus
        /\ q.writes = Over([x \in {r} |-> row], old)
    BY <2>2, <2>3, <2>5 DEF LocalColumns, Inserted
  <2>7. r \notin DOMAIN old
    <3>1. r[2] = n
      OBVIOUS
    <3> QED BY <1>4, <2>4, <3>1 DEF GenerationOK, RowsOwn
  <2>8. /\ DOMAIN q.writes = {r} \cup DOMAIN old
        /\ q.writes[r] = row
        /\ \A x \in DOMAIN old : q.writes[x] = old[x]
    BY <2>6, <2>7 DEF Over
  <2>9. \A l \in new : /\ LinkColumns \subseteq DOMAIN l /\ l.template /\ l.auto
                       /\ l.req = r /\ l.entity = e
    BY DEF Link, LinkColumns, new
  <2>10. \A l \in bus : LinkColumns \subseteq DOMAIN l /\ ~l.template /\ l.req = r
    BY DEF BusLink, Link, LinkColumns
  <2>11. \E l \in new : TRUE
    BY DEF new
  <2>12. IsFiniteSet(new) /\ IsFiniteSet(bus)
    BY FS_EmptySet, FS_Singleton DEF BusLink, new
  <2>e. /\ r[1] = c /\ r[2] = n /\ row.source = e /\ row.number = n
        /\ row.source = Head(request[c].todo).entity
    BY <1>a
  <2> HIDE DEF bus, old, r, e, n, found
  <2>13. IsFiniteSet(q.linked)
    <3>1. IsFiniteSet(request[c].linked \cup new)
      BY <2>4, <2>12, FS_Union
    <3>2. IsFiniteSet((request[c].linked \cup new) \cup bus)
      BY ONLY <2>12, <3>1, FS_Union
    <3> QED BY <2>6, <3>2
  <2>14. /\ Searched(request[c], generated, links) /\ RowsOwn(c, request[c])
         /\ LinksOwn(request[c], generated) /\ SourcesFree(request[c], generated, links)
    BY <2>4 DEF GenerationOK
  <2>15. /\ \A x \in DOMAIN old : old[x].source # e
         /\ ~q.overlapped => Sourced(links, generated, e) = {}
    BY <1>a, <2>e, <1>2, <2>6, <2>14 DEF Searched, old
  <2>16. RowsOwn(c, q)
    <3>1. ASSUME NEW x \in DOMAIN q.writes
          PROVE  /\ x[1] = c
                 /\ q.writes[x].number = x[2] /\ q.writes[x].status # "deleted"
                 /\ \E l \in q.linked :
                      l.req = x /\ l.auto /\ l.template /\ l.entity = q.writes[x].source
      <4>1. CASE x = r
        BY <1>a, <2>e, <2>6, <2>8, <2>9, <2>11, <4>1
      <4>2. CASE x \in DOMAIN old
        BY <2>6, <2>8, <2>14, <4>2 DEF RowsOwn, old
      <4> QED BY <2>8, <4>1, <4>2
    <3>2. ASSUME NEW x \in DOMAIN q.writes, NEW y \in DOMAIN q.writes,
                 q.writes[x].source = q.writes[y].source
          PROVE  x = y
      BY <1>a, <2>e, <2>8, <2>14, <2>15, <3>2 DEF RowsOwn, old
    <3> QED BY <3>1, <3>2 DEF RowsOwn
  <2>17. LinksOwn(q, generated)
    <3> SUFFICES ASSUME NEW l \in q.linked
                 PROVE  /\ LinkColumns \subseteq DOMAIN l
                        /\ l.req \in DOMAIN q.writes \cup DOMAIN generated
                        /\ l.template => /\ l.auto /\ l.req \in DOMAIN q.writes
                                         /\ l.entity = q.writes[l.req].source
      BY DEF LinksOwn
    <3>1. CASE l \in request[c].linked
      BY <2>8, <2>14, <3>1 DEF LinksOwn, old
    <3>2. CASE l \in new
      BY <1>a, <2>e, <2>8, <2>9, <3>2
    <3>3. CASE l \in bus
      BY <2>8, <2>10, <3>3
    <3> QED BY <2>6, <3>1, <3>2, <3>3
  <2>18. SourcesFree(q, generated, links)
    BY <1>a, <2>e, <2>6, <2>8, <2>14, <2>15 DEF SourcesFree, old
  <2>19. Rows(q.writes)
    <3>1. IsRow(row)
      <4>1. row.history \in Seq(HistoryRow)
        BY <1>a, EmptySeq
      <4>2. row.status \in RequirementStatus /\ row.version \in Nat
        BY <1>a DEF RequirementStatus
      <4> QED BY <1>a, <4>1, <4>2 DEF IsRow
    <3>2. Chained(row)
      BY <1>a DEF Chained
    <3> QED BY <2>4, <2>8, <3>1, <3>2 DEF Rows
  <2>20. GenerationOK(c, q, generated, links)
    BY <2>4, <2>6, <2>16, <2>17, <2>18 DEF GenerationOK, Searched
  <2> QED BY <1>2, <2>f, <2>6, <2>13, <2>19, <2>20, Generating DEF Generates
<1> QED BY <1>b, <1>3, <1>4

-----------------------------------------------------------------------------
(* Review                                                                    *)

\* What a review sees of the rows it is about, and what it has done to them.
LEMMA ReviewSees ==
  ASSUME AutoInvariant, NEW c \in AutoCalls, request[c].pc = "reviewing"
  PROVE  /\ ReviewingOK(request[c], generated, links)
         /\ Rows(request[c].writes) /\ IsFiniteSet(request[c].linked)
         /\ \A r \in DOMAIN generated : r[1] # c
         /\ \A r \in DOMAIN generated :
              /\ IsRow(Visible(c)[r]) /\ Chained(Visible(c)[r])
              /\ Visible(c)[r].source = generated[r].source
              /\ generated[r].status = "deleted" /\ Visible(c)[r].status # "deleted" =>
                   generated[r].source \in request[c].revived
<1>1. /\ ReviewingOK(request[c], generated, links)
      /\ Rows(request[c].writes) /\ IsFiniteSet(request[c].linked)
      /\ \A r \in DOMAIN generated : r[1] # c
  BY DEF AutoInvariant, RequestOK, Closed
<1>2. Rows(generated)
  BY DEF AutoInvariant, DatabaseOK
<1>3. \A r \in DOMAIN generated :
        Visible(c)[r] = IF r \in DOMAIN request[c].writes THEN request[c].writes[r]
                        ELSE generated[r]
  BY DEF Visible, Over
<1> QED BY <1>1, <1>2, <1>3 DEF ReviewingOK, Rows

LEMMA NewStatusIsStatus ==
  ASSUME NEW what, NEW status \in RequirementStatus
  PROVE  NewStatus(what, status) \in RequirementStatus
BY DEF NewStatus, RequirementStatus

\* A decision leaves a row whose history tells of it.
LEMMA RewrittenRow ==
  ASSUME NEW what, NEW row, NEW seen, IsRow(row), Chained(row), IsRow(seen)
  PROVE  /\ IsRow(Rewritten(what, row, seen)) /\ Chained(Rewritten(what, row, seen))
         /\ Rewritten(what, row, seen).source = row.source
<1> DEFINE told == [old |-> Decided(what, seen).old, new |-> Decided(what, seen).new,
                    stale |-> row # seen]
           h == row.history
<1>1. /\ told \in HistoryRow /\ told.old = seen.status
      /\ told.new = NewStatus(what, seen.status) /\ told.stale = (row # seen)
  <2>1. seen.status \in RequirementStatus /\ (row # seen) \in BOOLEAN
    BY DEF IsRow
  <2>2. NewStatus(what, seen.status) \in RequirementStatus
    BY <2>1, NewStatusIsStatus
  <2>3. /\ Decided(what, seen).old = seen.status
        /\ Decided(what, seen).new = NewStatus(what, seen.status)
    BY DEF Decided
  <2> QED BY <2>1, <2>2, <2>3 DEF HistoryRow
<1>2. PICK new : new = Rewritten(what, row, seen)
  OBVIOUS
<1>3. /\ DOMAIN new = DOMAIN row
      /\ new.status = (IF told.new # seen.status THEN told.new ELSE row.status)
      /\ new.version = seen.version + 1
      /\ new.history = Append(h, told)
      /\ new.source = row.source
  BY <1>2 DEF Rewritten, IsRow, Columns
<1>4. h \in Seq(HistoryRow) /\ Len(h) \in Nat
  BY DEF IsRow
<1> HIDE DEF told
<1>5. /\ Append(h, told) \in Seq(HistoryRow)
      /\ Len(new.history) = Len(h) + 1
      /\ new.history[Len(h) + 1] = told
      /\ \A i \in 1 .. Len(h) : new.history[i] = h[i]
  BY <1>1, <1>3, <1>4
<1>6. IsRow(new)
  <2>1. told.new \in RequirementStatus
    BY <1>1 DEF HistoryRow
  <2>2. new.status \in RequirementStatus
    BY <1>3, <2>1 DEF IsRow
  <2>3. new.version \in Nat
    BY <1>3 DEF IsRow
  <2> QED BY <1>3, <1>5, <2>2, <2>3 DEF IsRow
<1>7. Chained(new)
  <2>1. told.stale \/ told.new = new.status
    BY <1>1, <1>3
  <2>2. ASSUME NEW i \in 2 .. Len(h) + 1
        PROVE  \/ new.history[i].stale \/ new.history[i-1].stale
               \/ new.history[i].old = new.history[i-1].new
    <3>1. CASE i \in 2 .. Len(h)
      <4>1. h[i].stale \/ h[i-1].stale \/ h[i].old = h[i-1].new
        BY <3>1 DEF Chained
      <4>2. i \in 1 .. Len(h) /\ i - 1 \in 1 .. Len(h)
        BY <1>4, <3>1
      <4>3. new.history[i] = h[i] /\ new.history[i-1] = h[i-1]
        BY <1>5, <4>2
      <4> QED BY <4>1, <4>3
    <3>2. CASE i = Len(h) + 1
      <4>1. Len(h) \in 1 .. Len(h) /\ h # <<>> /\ i - 1 = Len(h)
        BY <1>4, <3>2
      <4>2. h[Len(h)].stale \/ h[Len(h)].new = row.status
        BY <4>1 DEF Chained
      <4> QED BY <1>1, <1>5, <3>2, <4>1, <4>2
    <3> QED BY <1>4, <3>1, <3>2
  <2>3. (\A i \in 1 .. Len(h) + 1 : ~new.history[i].stale) => new.version = 1 + (Len(h) + 1)
    <3> SUFFICES ASSUME \A i \in 1 .. Len(h) + 1 : ~new.history[i].stale
                 PROVE  new.version = 1 + (Len(h) + 1)
      OBVIOUS
    <3>1. ~told.stale
      BY <1>4, <1>5
    <3>2. \A i \in 1 .. Len(h) : ~h[i].stale
      BY <1>4, <1>5
    <3>3. row = seen
      BY <1>1, <3>1
    <3>4. row.version = 1 + Len(h)
      BY <3>2 DEF Chained
    <3> QED BY <1>3, <1>4, <3>3, <3>4
  <2> QED BY <1>4, <1>5, <2>1, <2>2, <2>3 DEF Chained
<1> QED BY <1>2, <1>3, <1>6, <1>7

\* What a review makes of links.
LEMMA StampedLinks ==
  ASSUME NEW what, NEW L, \A l \in L : LinkColumns \subseteq DOMAIN l
  PROVE  /\ \A l \in Stamped(what, L) :
              /\ Stamps(what, l) /\ LinkColumns \subseteq DOMAIN l
              /\ \E l0 \in L : /\ l0.entity = l.entity /\ l0.req = l.req
                               /\ l0.template = l.template /\ l0.auto = l.auto
                               /\ Stamps(what, l0) => l = l0
         /\ \A l \in L : Stamps(what, l) => l \in Stamped(what, L)
         /\ IsFiniteSet(L) => IsFiniteSet(Stamped(what, L))
<1>1. ASSUME NEW status, NEW l \in L
      PROVE  /\ LinkColumns \subseteq DOMAIN Stamp(l, status)
             /\ Stamp(l, status).status = status
             /\ Stamp(l, status).entity = l.entity /\ Stamp(l, status).req = l.req
             /\ Stamp(l, status).template = l.template /\ Stamp(l, status).auto = l.auto
             /\ l.status = status => Stamp(l, status) = l
  BY DEF Stamp, LinkColumns
<1>2. ASSUME NEW status, IsFiniteSet(L) PROVE IsFiniteSet({Stamp(l, status) : l \in L})
  <2> DEFINE f == [l \in L |-> Stamp(l, status)]
  <2>1. f \in Surjection(L, {Stamp(l, status) : l \in L})
    BY DEF Surjection
  <2> QED BY <1>2, <2>1, FS_Surjection
<1>3. CASE what = "approve"
  <2>1. Stamped(what, L) = {Stamp(l, "approved") : l \in L}
    BY <1>3 DEF Stamped
  <2> QED BY <1>1, <1>2, <1>3, <2>1 DEF Stamps
<1>4. CASE what = "reject"
  <2>1. Stamped(what, L) = {Stamp(l, "rejected") : l \in L}
    BY <1>4 DEF Stamped
  <2> QED BY <1>1, <1>2, <1>4, <2>1 DEF Stamps
<1>5. CASE what = "orphan_requirements"
  BY <1>5, FS_EmptySet DEF Stamped, Stamps
<1>6. CASE what \notin {"approve", "reject", "orphan_requirements"}
  BY <1>6 DEF Stamped, Stamps
<1> QED BY <1>3, <1>4, <1>5, <1>6

LEMMA LoadRowStep ==
  ASSUME AutoInvariant, NEW c \in AutoCalls, LoadRow(c)
  PROVE  AutoInvariant'
<1>1. PICK r : r = Head(request[c].todo)
  OBVIOUS
<1>2. PICK q : q = [request[c] EXCEPT !.seen = Visible(c)[r]]
  OBVIOUS
<1>3. request[c].pc = "reviewing" /\ request[c].todo # <<>> /\ Continue(c, q)
  BY <1>1, <1>2 DEF LoadRow
<1>4. /\ ReviewingOK(request[c], generated, links)
      /\ Rows(request[c].writes) /\ IsFiniteSet(request[c].linked)
      /\ \A x \in DOMAIN generated : x[1] # c /\ IsRow(Visible(c)[x])
  BY <1>3, ReviewSees
<1>5. LocalColumns \cup {"what", "of", "seen"} \subseteq DOMAIN request[c]
  BY <1>4 DEF ReviewingOK
<1>6. /\ DOMAIN q = DOMAIN request[c] /\ q.pc = "reviewing" /\ q.seen = Visible(c)[r]
      /\ q.todo = request[c].todo /\ q.what = request[c].what
      /\ q.writes = request[c].writes /\ q.linked = request[c].linked
      /\ q.unlinked = request[c].unlinked /\ q.revived = request[c].revived
  BY <1>2, <1>3, <1>5 DEF LocalColumns
<1>7. r \in DOMAIN generated
  BY <1>1, <1>3, <1>4 DEF ReviewingOK
<1>8. ReviewingOK(q, generated, links)
  BY <1>4, <1>6, <1>7 DEF ReviewingOK
<1>9. RequestOK(c, q, generated, links)
  BY <1>4, <1>5, <1>6, <1>8 DEF RequestOK, Generates, LocalColumns
<1>10. \A d \in AutoCalls \ {c} : Apart(q, request[d])
  BY <1>3, <1>6 DEF AutoInvariant, Apart
<1> QED BY <1>3, <1>9, <1>10, ContinueStep DEF Continue

LEMMA DecisionStep ==
  ASSUME AutoInvariant, NEW c \in AutoCalls, request[c].pc = "reviewing",
         request[c].todo # <<>>, request[c].seen # None,
         NEW r, r = Head(request[c].todo), NEW row, row = Visible(c)[r],
         NEW old, old = Generics(VisibleLinks(c), r),
         NEW new, DOMAIN new \subseteq {r},
         \A x \in DOMAIN new : new[x] = Rewritten(request[c].what, row, request[c].seen),
         r \in DOMAIN new => ~Locked(c, r),
         ~LinksHeld(c, old),
         Continue(c, Decision(request[c], row, new, old))
  PROVE  AutoInvariant'
<1>1. PICK q : q = Decision(request[c], row, new, old)
  OBVIOUS
<1>2. /\ ReviewingOK(request[c], generated, links)
      /\ Rows(request[c].writes) /\ IsFiniteSet(request[c].linked)
      /\ \A x \in DOMAIN generated :
           /\ x[1] # c
           /\ IsRow(Visible(c)[x]) /\ Chained(Visible(c)[x])
           /\ Visible(c)[x].source = generated[x].source
           /\ generated[x].status = "deleted" /\ Visible(c)[x].status # "deleted" =>
                generated[x].source \in request[c].revived
  BY ReviewSees
<1>3. LocalColumns \cup {"what", "of", "seen"} \subseteq DOMAIN request[c]
  BY <1>2 DEF ReviewingOK
<1> DEFINE what == request[c].what
           stamped == Stamped(what, old)
           kept == request[c].unlinked
           made == request[c].linked
           wrote == request[c].writes
<1>4. /\ DOMAIN q = DOMAIN request[c] /\ q.pc = "reviewing" /\ q.seen = None
      /\ q.todo = Tail(request[c].todo) /\ q.what = what
      /\ q.writes = Over(new, wrote)
      /\ q.unlinked = kept \cup (old \ stamped)
      /\ q.linked = (made \ old) \cup (stamped \ links)
      /\ q.revived = request[c].revived \cup {row.source : x \in
           {y \in DOMAIN new : row.status = "deleted" /\ new[y].status # "deleted"}}
  BY <1>1, <1>3 DEF Decision, LocalColumns
<1>5. r \in DOMAIN generated /\ Tail(request[c].todo) \in Seq(DOMAIN generated)
  <2>1. request[c].todo \in Seq(DOMAIN generated)
    BY <1>2 DEF ReviewingOK
  <2> QED BY <2>1, HeadTailProperties
<1>6. IsRow(row) /\ Chained(row) /\ row.source = generated[r].source
  BY <1>2, <1>5
<1>7. IsRow(request[c].seen)
  BY <1>2 DEF ReviewingOK
<1>8. \A x \in DOMAIN new : /\ x = r
                            /\ IsRow(new[x]) /\ Chained(new[x]) /\ new[x].source = row.source
  BY <1>6, <1>7, RewrittenRow
<1>9. /\ DOMAIN q.writes = DOMAIN new \cup DOMAIN wrote
      /\ \A x \in DOMAIN new : q.writes[x] = new[x]
      /\ \A x \in DOMAIN wrote : x \notin DOMAIN new => q.writes[x] = wrote[x]
  BY <1>4 DEF Over
<1>10. Rows(q.writes)
  BY <1>2, <1>8, <1>9 DEF Rows
<1>11. /\ old \subseteq (links \ kept) \cup made
       /\ \A l \in old : LinkColumns \subseteq DOMAIN l /\ l.auto
  BY <1>2 DEF Generics, VisibleLinks, ReviewingOK, AutoInvariant, DatabaseOK, IsLink
<1>12. IsFiniteSet(old)
  <2>1. IsFiniteSet(links \ kept)
    BY FS_Subset DEF AutoInvariant, DatabaseOK
  <2>2. IsFiniteSet((links \ kept) \cup made)
    BY <1>2, <2>1, FS_Union
  <2> QED BY <1>11, <2>2, FS_Subset
<1>13. /\ \A l \in stamped :
            /\ Stamps(what, l) /\ LinkColumns \subseteq DOMAIN l
            /\ \E l0 \in old : /\ l0.entity = l.entity /\ l0.req = l.req
                               /\ l0.template = l.template /\ l0.auto = l.auto
                               /\ Stamps(what, l0) => l = l0
       /\ \A l \in old : Stamps(what, l) => l \in stamped
       /\ IsFiniteSet(stamped)
  BY <1>11, <1>12, StampedLinks
<1> HIDE DEF stamped
<1>14. IsFiniteSet(q.linked)
  <2>1. IsFiniteSet(made \ old) /\ IsFiniteSet(stamped \ links)
    <3>1. made \ old \in SUBSET made /\ stamped \ links \in SUBSET stamped
      OBVIOUS
    <3> QED BY <1>2, <1>13, <3>1, FS_Subset
  <2>2. IsFiniteSet((made \ old) \cup (stamped \ links))
    BY ONLY <2>1, FS_Union
  <2> QED BY <1>4, <2>2
<1>15. \A x \in DOMAIN q.writes :
         /\ x \in DOMAIN generated
         /\ q.writes[x].source = generated[x].source
         /\ generated[x].status = "deleted" /\ q.writes[x].status # "deleted" =>
              generated[x].source \in q.revived
  <2> SUFFICES ASSUME NEW x \in DOMAIN q.writes
               PROVE  /\ x \in DOMAIN generated
                      /\ q.writes[x].source = generated[x].source
                      /\ generated[x].status = "deleted" /\ q.writes[x].status # "deleted" =>
                           generated[x].source \in q.revived
    OBVIOUS
  <2>1. CASE x \in DOMAIN new
    <3>1. x = r /\ q.writes[x] = new[x] /\ new[x].source = generated[x].source
      BY <1>6, <1>8, <1>9, <2>1
    <3>2. ASSUME generated[x].status = "deleted", new[x].status # "deleted"
          PROVE  generated[x].source \in q.revived
      <4>1. CASE row.status = "deleted"
        <5>1. x \in {y \in DOMAIN new : row.status = "deleted" /\ new[y].status # "deleted"}
          BY <2>1, <3>2, <4>1
        <5>2. row.source \in q.revived
          BY <1>4, <5>1
        <5> QED BY <1>6, <3>1, <5>2
      <4>2. CASE row.status # "deleted"
        <5>1. generated[x].source \in request[c].revived
          BY <1>2, <1>5, <3>1, <3>2, <4>2
        <5> QED BY <1>4, <5>1
      <4> QED BY <4>1, <4>2
    <3> QED BY <1>5, <3>1, <3>2
  <2>2. CASE x \notin DOMAIN new
    <3>1. x \in DOMAIN wrote /\ q.writes[x] = wrote[x]
      BY <1>9, <2>2
    <3>2. /\ x \in DOMAIN generated /\ wrote[x].source = generated[x].source
          /\ generated[x].status = "deleted" /\ wrote[x].status # "deleted" =>
               generated[x].source \in request[c].revived
      BY <1>2, <3>1 DEF ReviewingOK
    <3> QED BY <1>4, <3>1, <3>2
  <2> QED BY <2>1, <2>2
<1>16. q.unlinked \subseteq links /\ \A l \in q.unlinked : ~Stamps(what, l)
  <2>1. \A l \in made : Stamps(what, l)
    BY <1>2 DEF ReviewingOK
  <2> QED BY <1>2, <1>4, <1>11, <1>13, <2>1 DEF ReviewingOK
<1>17. ASSUME NEW l \in q.linked
       PROVE  /\ Stamps(what, l) /\ LinkColumns \subseteq DOMAIN l /\ l.auto
              /\ \E l0 \in q.unlinked :
                   l0.entity = l.entity /\ l0.req = l.req /\ l0.template = l.template
  <2>1. ASSUME NEW k \in made
        PROVE  /\ Stamps(what, k) /\ LinkColumns \subseteq DOMAIN k /\ k.auto
               /\ \E l0 \in q.unlinked :
                    l0.entity = k.entity /\ l0.req = k.req /\ l0.template = k.template
    <3>1. /\ Stamps(what, k) /\ LinkColumns \subseteq DOMAIN k /\ k.auto
          /\ \E l0 \in kept :
               l0.entity = k.entity /\ l0.req = k.req /\ l0.template = k.template
      BY <1>2 DEF ReviewingOK
    <3> QED BY <1>4, <3>1
  <2>2. CASE l \in made
    BY <2>1, <2>2
  <2>3. CASE l \in stamped \ links
    <3>1. PICK l0 \in old : /\ l0.entity = l.entity /\ l0.req = l.req
                            /\ l0.template = l.template /\ l0.auto = l.auto
                            /\ Stamps(what, l0) => l = l0
      BY <1>13, <2>3
    <3>2. Stamps(what, l) /\ LinkColumns \subseteq DOMAIN l /\ l.auto
      BY <1>11, <1>13, <2>3, <3>1
    <3>3. \E l1 \in q.unlinked :
            l1.entity = l.entity /\ l1.req = l.req /\ l1.template = l.template
      <4>1. CASE l0 \in made
        BY <2>1, <3>1, <4>1
      <4>2. CASE l0 \in links
        <5>1. ~Stamps(what, l0)
          BY <2>3, <3>1, <4>2
        <5>2. l0 \in old \ stamped
          BY <1>13, <5>1
        <5> QED BY <1>4, <3>1, <5>2
      <4> QED BY <1>11, <4>1, <4>2
    <3> QED BY <3>2, <3>3
  <2> QED BY <1>4, <2>2, <2>3
<1>18. ReviewingOK(q, generated, links)
  BY <1>3, <1>4, <1>5, <1>15, <1>16, <1>17 DEF ReviewingOK
<1>19. RequestOK(c, q, generated, links)
  BY <1>2, <1>3, <1>4, <1>10, <1>14, <1>18 DEF RequestOK, Generates, LocalColumns
<1>20. ASSUME NEW d \in AutoCalls \ {c} PROVE Apart(q, request[d])
  <2> SUFFICES ASSUME request[d].pc = "reviewing"
               PROVE  /\ DOMAIN q.writes \cap DOMAIN request[d].writes = {}
                      /\ q.unlinked \cap request[d].unlinked = {}
    BY DEF Apart
  <2>1. /\ DOMAIN wrote \cap DOMAIN request[d].writes = {}
        /\ kept \cap request[d].unlinked = {}
    BY DEF AutoInvariant, Apart
  <2>2. Open(d)
    BY DEF Open, Closed
  <2>3. r \in DOMAIN new => r \notin DOMAIN request[d].writes
    BY <1>5, <2>2 DEF Locked, Updates
  <2>4. old \cap request[d].unlinked = {}
    BY <2>2 DEF LinksHeld
  <2> QED BY <1>4, <1>9, <2>1, <2>3, <2>4
<1> QED BY <1>1, <1>19, <1>20, ContinueStep DEF Continue

LEMMA ReviewDecideStep ==
  ASSUME AutoInvariant, NEW c \in AutoCalls, Decide(c)
  PROVE  AutoInvariant'
<1>1. PICK r : r = Head(request[c].todo)
  OBVIOUS
<1>2. PICK row : row = Visible(c)[r]
  OBVIOUS
<1>3. PICK old : old = Generics(VisibleLinks(c), r)
  OBVIOUS
<1>4. PICK new :
        new = [x \in IF Rewrites(request[c].what, request[c].seen.status) THEN {r} ELSE {} |->
                Rewritten(request[c].what, row, request[c].seen)]
  OBVIOUS
<1>5. /\ request[c].pc = "reviewing" /\ request[c].seen # None /\ request[c].todo # <<>>
      /\ r \in DOMAIN new => ~Locked(c, r)
      /\ ~LinksHeld(c, old)
      /\ Fail(c, "refused") \/ Continue(c, Decision(request[c], row, new, old))
  BY <1>1, <1>2, <1>3, <1>4 DEF Decide
<1>6. CASE Fail(c, "refused")
  BY <1>5, <1>6, FailStep
<1>7. CASE Continue(c, Decision(request[c], row, new, old))
  <2>1. /\ DOMAIN new \subseteq {r}
        /\ \A x \in DOMAIN new : new[x] = Rewritten(request[c].what, row, request[c].seen)
    BY <1>4
  <2> QED BY <1>1, <1>2, <1>3, <1>5, <1>7, <2>1, DecisionStep
<1> QED BY <1>5, <1>6, <1>7

-----------------------------------------------------------------------------
(* Commits and deletions                                                     *)

\* A request that was there before, in a database that another committed.
LEMMA Overtaken ==
  ASSUME NEW c, NEW p, NEW q, NEW g, NEW h, NEW k, NEW m,
         RequestOK(c, p, g, k), p.pc \notin Closed, Rows(h),
         DOMAIN q = DOMAIN p, q.overlapped,
         \A f \in DOMAIN p : f # "overlapped" => q[f] = p[f],
         DOMAIN g \subseteq DOMAIN h, \A r \in DOMAIN h : r[1] # c,
         \A r \in DOMAIN g : h[r].source = g[r].source,
         p.pc = "reviewing" =>
           /\ p.unlinked \subseteq m
           /\ \A r \in DOMAIN p.writes : r \in DOMAIN g => h[r] = g[r]
  PROVE  RequestOK(c, q, h, m)
<1>1. /\ Generates(p) \/ p.pc = "reviewing"
      /\ IsFiniteSet(p.linked) /\ Rows(p.writes)
      /\ Generates(p) => GenerationOK(c, p, g, k)
      /\ p.pc = "reviewing" => ReviewingOK(p, g, k)
  BY DEF RequestOK
<1>2. LocalColumns \subseteq DOMAIN p
  BY <1>1 DEF GenerationOK, ReviewingOK
<1>3. /\ q.pc = p.pc /\ q.todo = p.todo /\ q.writes = p.writes /\ q.linked = p.linked
      /\ q.unlinked = p.unlinked /\ q.revived = p.revived
  BY <1>2 DEF LocalColumns
<1>4. CASE Generates(p)
  <2>1. GenerationOK(c, p, g, k)
    BY <1>1, <1>4
  <2>2. RowsOwn(c, q)
    BY <1>3, <2>1 DEF GenerationOK, RowsOwn
  <2>3. LinksOwn(q, h)
    BY <1>3, <2>1 DEF GenerationOK, LinksOwn
  <2>4. SourcesFree(q, h, m)
    BY DEF SourcesFree
  <2>5. Searched(q, h, m)
    BY <1>3, <2>1 DEF GenerationOK, Searched
  <2>6. GenerationOK(c, q, h, m)
    BY <1>3, <2>1, <2>2, <2>3, <2>4, <2>5 DEF GenerationOK
  <2> QED BY <1>1, <1>2, <1>3, <1>4, <2>6 DEF RequestOK, Generates, LocalColumns
<1>5. CASE p.pc = "reviewing"
  <2>1. ReviewingOK(p, g, k)
    BY <1>1, <1>5
  <2>2. q.seen = p.seen /\ q.what = p.what
    BY <2>1 DEF ReviewingOK
  <2>3. q.todo \in Seq(DOMAIN h)
    <3>1. q.todo \in Seq(DOMAIN g)
      BY <1>3, <2>1 DEF ReviewingOK
    <3>2. PICK n \in Nat : q.todo \in [1 .. n -> DOMAIN g]
      BY <3>1, SeqDef
    <3>3. q.todo \in [1 .. n -> DOMAIN h]
      BY <3>2
    <3> QED BY <3>3, SeqDef
  <2>4. ReviewingOK(q, h, m)
    BY <1>3, <1>5, <2>1, <2>2, <2>3 DEF ReviewingOK
  <2> QED BY <1>1, <1>2, <1>3, <1>5, <2>4 DEF RequestOK, Generates, LocalColumns
<1> QED BY <1>1, <1>4, <1>5

\* What a transaction commits, in terms of what it wrote.
LEMMA Committing ==
  ASSUME AutoInvariant, NEW c \in AutoCalls, CommitRequest(c)
  PROVE  /\ request[c].pc \in {"looking", "reviewing"}
         /\ DOMAIN generated' = DOMAIN request[c].writes \cup DOMAIN generated
         /\ \A r \in DOMAIN request[c].writes : generated'[r] = request[c].writes[r]
         /\ \A r \in DOMAIN generated \ DOMAIN request[c].writes : generated'[r] = generated[r]
         /\ links' = (links \ request[c].unlinked) \cup request[c].linked
         /\ DOMAIN request' = AutoCalls /\ request'[c] = [pc |-> "done"]
         /\ \A d \in AutoCalls \ {c} : ~Open(d) => request'[d] = request[d]
         /\ \A d \in AutoCalls \ {c} : Open(d) =>
              request'[d] = [request[d] EXCEPT !.overlapped = TRUE]
         /\ disturbed \cup request[c].revived \subseteq disturbed'
         /\ request[c].overlapped =>
              \A r \in DOMAIN request[c].writes \ DOMAIN generated :
                request[c].writes[r].source \in disturbed'
<1>1. /\ request[c].pc \in {"looking", "reviewing"}
      /\ generated' = Over(request[c].writes, generated)
      /\ links' = (links \ request[c].unlinked) \cup request[c].linked
  BY DEF CommitRequest, Visible, VisibleLinks
<1>2. /\ DOMAIN request' = AutoCalls /\ request'[c] = [pc |-> "done"]
      /\ \A d \in AutoCalls \ {c} : ~Open(d) => request'[d] = request[d]
      /\ \A d \in AutoCalls \ {c} : Open(d) =>
           request'[d] = [request[d] EXCEPT !.overlapped = TRUE]
  BY DEF CommitRequest
<1>3. /\ disturbed \cup request[c].revived \subseteq disturbed'
      /\ request[c].overlapped =>
           \A r \in DOMAIN request[c].writes \ DOMAIN generated :
             request[c].writes[r].source \in disturbed'
  BY DEF CommitRequest, Created
<1> QED BY <1>1, <1>2, <1>3 DEF Over

\* The other requests, whoever commits.
LEMMA CommitOthers ==
  ASSUME AutoInvariant, NEW c \in AutoCalls, CommitRequest(c),
         Rows(generated'),
         \A r \in DOMAIN request[c].writes :
           \/ r \in DOMAIN generated /\ request[c].pc = "reviewing"
              /\ request[c].writes[r].source = generated[r].source
           \/ r \notin DOMAIN generated /\ r[1] = c,
         request[c].unlinked # {} => request[c].pc = "reviewing"
  PROVE  /\ \A d \in AutoCalls : RequestOK(d, request'[d], generated', links')
         /\ \A d, e \in AutoCalls : d # e => Apart(request'[d], request'[e])
<1>a. /\ DOMAIN generated' = DOMAIN request[c].writes \cup DOMAIN generated
      /\ \A r \in DOMAIN request[c].writes : generated'[r] = request[c].writes[r]
      /\ \A r \in DOMAIN generated \ DOMAIN request[c].writes : generated'[r] = generated[r]
      /\ links' = (links \ request[c].unlinked) \cup request[c].linked
  BY Committing
<1>b. request'[c] = [pc |-> "done"]
  BY Committing
<1>1. RequestOK(c, request'[c], generated', links')
  BY <1>b DEF RequestOK, Generates, Closed
<1>2. ASSUME NEW d \in AutoCalls \ {c}
      PROVE  /\ request[d].pc # "done" => \A r \in DOMAIN generated' : r[1] # d
             /\ RequestOK(d, request[d], generated, links)
  <2>1. RequestOK(d, request[d], generated, links)
    BY DEF AutoInvariant
  <2>2. request[d].pc # "done" => \A r \in DOMAIN generated : r[1] # d
    BY <2>1 DEF RequestOK
  <2> QED BY <1>a, <2>1, <2>2
<1>3. ASSUME NEW d \in AutoCalls \ {c}, ~Open(d)
      PROVE  RequestOK(d, request'[d], generated', links')
  <2>1. request'[d] = request[d] /\ request[d].pc \in Closed
    BY <1>3, Committing DEF Open
  <2> QED BY <1>2, <2>1 DEF RequestOK, Generates, Closed
<1>4. ASSUME NEW d \in AutoCalls \ {c}, Open(d)
      PROVE  /\ request'[d].overlapped /\ DOMAIN request'[d] = DOMAIN request[d]
             /\ \A f \in DOMAIN request[d] : f # "overlapped" => request'[d][f] = request[d][f]
             /\ "overlapped" \in DOMAIN request[d]
  <2>1. "overlapped" \in DOMAIN request[d]
    BY <1>2, <1>4
       DEF Open, RequestOK, GenerationOK, ReviewingOK, LocalColumns
  <2>2. request'[d] = [request[d] EXCEPT !.overlapped = TRUE]
    BY <1>4, Committing
  <2> QED BY <2>1, <2>2
<1>5. ASSUME NEW d \in AutoCalls \ {c}, Open(d)
      PROVE  RequestOK(d, request'[d], generated', links')
  <2>1. request[d].pc \notin Closed
    BY <1>5 DEF Open
  <2>2. \A r \in DOMAIN generated' : r[1] # d
    BY <1>2, <2>1 DEF Closed
  <2>3. /\ DOMAIN generated \subseteq DOMAIN generated'
        /\ \A r \in DOMAIN generated : generated'[r].source = generated[r].source
    BY <1>a
  <2>4. ASSUME request[d].pc = "reviewing"
        PROVE  /\ request[d].unlinked \subseteq links'
               /\ \A r \in DOMAIN request[d].writes :
                    r \in DOMAIN generated => generated'[r] = generated[r]
    <3>1. ReviewingOK(request[d], generated, links)
      BY <1>2, <2>4 DEF RequestOK
    <3>2. Apart(request[c], request[d])
      BY DEF AutoInvariant
    <3>3. request[d].unlinked \cap request[c].unlinked = {}
      BY <2>4, <3>2 DEF Apart
    <3>4. \A r \in DOMAIN request[d].writes :
            r \in DOMAIN generated => r \notin DOMAIN request[c].writes
      BY <2>4, <3>2 DEF Apart
    <3> QED BY <1>a, <3>1, <3>3, <3>4 DEF ReviewingOK
  <2>5. PICK p, q, g, h, k, m :
          /\ p = request[d] /\ q = request'[d] /\ g = generated /\ h = generated'
          /\ k = links /\ m = links'
    OBVIOUS
  <2>6. RequestOK(d, p, g, k)
    BY <1>2, <2>5
  <2>7. RequestOK(d, q, h, m)
    BY <1>4, <1>5, <2>1, <2>2, <2>3, <2>4, <2>5, <2>6, Overtaken
  <2> QED BY <2>5, <2>7
<1>6. ASSUME NEW d \in AutoCalls, NEW e \in AutoCalls, d # e
      PROVE  Apart(request'[d], request'[e])
  <2>1. \A x \in AutoCalls : request'[x].pc = "reviewing" =>
          /\ request[x].pc = "reviewing"
          /\ request'[x].writes = request[x].writes
          /\ request'[x].unlinked = request[x].unlinked
    <3> SUFFICES ASSUME NEW x \in AutoCalls, request'[x].pc = "reviewing"
                 PROVE  /\ request[x].pc = "reviewing"
                        /\ request'[x].writes = request[x].writes
                        /\ request'[x].unlinked = request[x].unlinked
      OBVIOUS
    <3>1. x # c
      BY <1>b
    <3>2. CASE ~Open(x)
      BY <3>1, <3>2, Committing
    <3>3. CASE Open(x)
      <4>1. RequestOK(x, request[x], generated, links)
        BY <1>2, <3>1
      <4>2. "pc" \in DOMAIN request[x]
        BY <4>1 DEF RequestOK
      <4>3. request[x].pc = "reviewing"
        BY <1>4, <3>1, <3>3, <4>2
      <4>4. {"writes", "unlinked"} \subseteq DOMAIN request[x]
        BY <4>1, <4>3 DEF RequestOK, ReviewingOK, LocalColumns
      <4> QED BY <1>4, <3>1, <3>3, <4>3, <4>4
    <3> QED BY <3>2, <3>3
  <2> QED BY <1>6, <2>1 DEF AutoInvariant, Apart
<1> QED BY <1>1, <1>3, <1>5, <1>6

LEMMA CommitGeneration ==
  ASSUME AutoInvariant, NEW c \in AutoCalls, CommitRequest(c), request[c].pc = "looking"
  PROVE  AutoInvariant'
<1> DEFINE wrote == request[c].writes
<1>1. /\ GenerationOK(c, request[c], generated, links)
      /\ Rows(wrote) /\ IsFiniteSet(request[c].linked)
      /\ \A r \in DOMAIN generated : r[1] # c
  BY GenerationSees DEF Generates
<1>2. RowsOwn(c, request[c]) /\ LinksOwn(request[c], generated)
      /\ SourcesFree(request[c], generated, links) /\ request[c].unlinked = {}
  BY <1>1 DEF GenerationOK
<1>3. \A r \in DOMAIN wrote : r[1] = c /\ r \notin DOMAIN generated
  BY <1>1, <1>2 DEF RowsOwn
<1>4. /\ DOMAIN generated' = DOMAIN wrote \cup DOMAIN generated
      /\ \A r \in DOMAIN wrote : generated'[r] = wrote[r]
      /\ \A r \in DOMAIN generated : generated'[r] = generated[r]
      /\ links' = links \cup request[c].linked
  BY <1>2, <1>3, Committing
<1>5. /\ DOMAIN request' = AutoCalls /\ disturbed \subseteq disturbed'
      /\ request[c].overlapped => \A r \in DOMAIN wrote : wrote[r].source \in disturbed'
  BY <1>3, Committing
<1>6. /\ Rows(generated) /\ IsFiniteSet(links) /\ \A l \in links : IsLink(l, generated)
      /\ OneEach(links, generated, Entities \ disturbed)
  BY DEF AutoInvariant, DatabaseOK
<1>7. Rows(generated')
  BY <1>1, <1>4, <1>6 DEF Rows
<1>8. IsFiniteSet(links')
  BY <1>1, <1>4, <1>6, FS_Union
<1>9. \A l \in links' : IsLink(l, generated')
  <2> SUFFICES ASSUME NEW l \in links' PROVE IsLink(l, generated')
    OBVIOUS
  <2>1. CASE l \in links
    BY <1>4, <1>6, <2>1 DEF IsLink
  <2>2. CASE l \in request[c].linked
    BY <1>2, <1>4, <2>2 DEF IsLink, LinksOwn
  <2> QED BY <1>4, <2>1, <2>2
<1>10. ASSUME NEW e, NEW r \in Sourced(links', generated', e)
       PROVE  /\ r \in DOMAIN generated => r \in Sourced(links, generated, e)
              /\ r \notin DOMAIN generated => r \in DOMAIN wrote /\ wrote[r].source = e
  <2>1. PICK l \in links' : l.entity = e /\ l.req = r /\ l.template
    BY <1>10 DEF Sourced
  <2>2. r \in DOMAIN generated' /\ generated'[r].status # "deleted"
    BY <1>10 DEF Sourced
  <2>3. CASE l \in links
    BY <1>4, <1>6, <2>1, <2>2, <2>3 DEF IsLink, Sourced
  <2>4. CASE l \in request[c].linked
    BY <1>2, <1>3, <2>1, <2>4 DEF LinksOwn
  <2> QED BY <1>4, <2>3, <2>4
<1>11. OneEach(links', generated', Entities \ disturbed')
  <2> SUFFICES ASSUME NEW e \in Entities \ disturbed',
                      NEW r \in Sourced(links', generated', e),
                      NEW s \in Sourced(links', generated', e)
               PROVE  r = s
    BY DEF OneEach
  <2>1. /\ r \in DOMAIN generated => r \in Sourced(links, generated, e)
        /\ r \notin DOMAIN generated => r \in DOMAIN wrote /\ wrote[r].source = e
        /\ s \in DOMAIN generated => s \in Sourced(links, generated, e)
        /\ s \notin DOMAIN generated => s \in DOMAIN wrote /\ wrote[s].source = e
    BY <1>10
  <2>2. CASE r \in DOMAIN generated /\ s \in DOMAIN generated
    BY <1>5, <1>6, <2>1, <2>2 DEF OneEach
  <2>3. CASE r \notin DOMAIN generated /\ s \notin DOMAIN generated
    BY <1>2, <2>1, <2>3 DEF RowsOwn
  <2>4. ASSUME NEW x \in DOMAIN wrote, wrote[x].source = e,
               NEW y \in Sourced(links, generated, e)
        PROVE  FALSE
    <3>1. ~request[c].overlapped
      BY <1>5, <2>4
    <3> QED BY <1>2, <2>4, <3>1 DEF SourcesFree
  <2> QED BY <2>1, <2>2, <2>3, <2>4
<1>12. /\ \A d \in AutoCalls : RequestOK(d, request'[d], generated', links')
       /\ \A d, e \in AutoCalls : d # e => Apart(request'[d], request'[e])
  BY <1>2, <1>3, <1>7, CommitOthers
<1> QED BY <1>5, <1>7, <1>8, <1>9, <1>11, <1>12 DEF AutoInvariant, DatabaseOK

LEMMA CommitReview ==
  ASSUME AutoInvariant, NEW c \in AutoCalls, CommitRequest(c), request[c].pc = "reviewing"
  PROVE  AutoInvariant'
<1> DEFINE wrote == request[c].writes
<1>1. /\ ReviewingOK(request[c], generated, links)
      /\ Rows(wrote) /\ IsFiniteSet(request[c].linked)
  BY ReviewSees
<1>2. \A r \in DOMAIN wrote :
        /\ r \in DOMAIN generated /\ wrote[r].source = generated[r].source
        /\ generated[r].status = "deleted" /\ wrote[r].status # "deleted" =>
             generated[r].source \in request[c].revived
  BY <1>1 DEF ReviewingOK
<1>3. /\ DOMAIN generated' = DOMAIN generated
      /\ \A r \in DOMAIN wrote : generated'[r] = wrote[r]
      /\ \A r \in DOMAIN generated \ DOMAIN wrote : generated'[r] = generated[r]
      /\ links' = (links \ request[c].unlinked) \cup request[c].linked
      /\ DOMAIN request' = AutoCalls
      /\ disturbed \cup request[c].revived \subseteq disturbed'
  BY <1>2, Committing
<1>4. /\ Rows(generated) /\ IsFiniteSet(links) /\ \A l \in links : IsLink(l, generated)
      /\ OneEach(links, generated, Entities \ disturbed)
  BY DEF AutoInvariant, DatabaseOK
<1>5. Rows(generated')
  BY <1>1, <1>3, <1>4 DEF Rows
<1>6. IsFiniteSet(links')
  <2>1. IsFiniteSet(links \ request[c].unlinked)
    BY <1>4, FS_Subset
  <2> QED BY <1>1, <1>3, <2>1, FS_Union
\* Every link is, or replaces, one that was there.
<1>7. ASSUME NEW l \in links'
      PROVE  /\ LinkColumns \subseteq DOMAIN l
             /\ \E l0 \in links : /\ l0.entity = l.entity /\ l0.req = l.req
                                  /\ l.template => l0.template /\ l.auto
  <2>1. CASE l \in links
    BY <1>4, <2>1 DEF IsLink
  <2>2. CASE l \in request[c].linked
    <3>1. /\ LinkColumns \subseteq DOMAIN l /\ l.auto
          /\ \E l0 \in request[c].unlinked :
               l0.entity = l.entity /\ l0.req = l.req /\ l0.template = l.template
      BY <1>1, <2>2 DEF ReviewingOK
    <3>2. request[c].unlinked \subseteq links
      BY <1>1 DEF ReviewingOK
    <3> QED BY <3>1, <3>2
  <2> QED BY <1>3, <2>1, <2>2
<1>8. \A r \in DOMAIN generated : generated'[r].source = generated[r].source
  BY <1>2, <1>3
<1>9. \A l \in links' : IsLink(l, generated')
  <2> SUFFICES ASSUME NEW l \in links' PROVE IsLink(l, generated')
    OBVIOUS
  <2>1. PICK l0 \in links : /\ l0.entity = l.entity /\ l0.req = l.req
                            /\ l.template => l0.template /\ l.auto
    BY <1>7
  <2>2. IsLink(l0, generated)
    BY <1>4
  <2> QED BY <1>3, <1>7, <1>8, <2>1, <2>2 DEF IsLink
<1>10. ASSUME NEW e \in Entities \ disturbed', NEW r \in Sourced(links', generated', e)
       PROVE  r \in Sourced(links, generated, e)
  <2>1. PICK l \in links' : l.entity = e /\ l.req = r /\ l.template
    BY <1>10 DEF Sourced
  <2>2. PICK l0 \in links : /\ l0.entity = l.entity /\ l0.req = l.req
                            /\ l.template => l0.template /\ l.auto
    BY <1>7
  <2>3. l0.entity = e /\ l0.req = r /\ l0.template
    BY <2>1, <2>2
  <2>4. r \in DOMAIN generated /\ generated[r].source = e
    BY <1>4, <2>3 DEF IsLink
  <2>5. generated'[r].status # "deleted"
    BY <1>10 DEF Sourced
  <2>6. generated[r].status # "deleted"
    BY <1>2, <1>3, <1>10, <2>4, <2>5
  <2> QED BY <2>3, <2>4, <2>6 DEF Sourced
<1>11. OneEach(links', generated', Entities \ disturbed')
  <2>1. Entities \ disturbed' \subseteq Entities \ disturbed
    BY <1>3
  <2> QED BY <1>4, <1>10, <2>1 DEF OneEach
<1>12. /\ \A d \in AutoCalls : RequestOK(d, request'[d], generated', links')
       /\ \A d, e \in AutoCalls : d # e => Apart(request'[d], request'[e])
  BY <1>2, <1>5, CommitOthers
<1> QED BY <1>3, <1>5, <1>6, <1>9, <1>11, <1>12 DEF AutoInvariant, DatabaseOK

LEMMA DeleteEntityStep ==
  ASSUME AutoInvariant, NEW c \in AutoCalls, NEW e, DeleteEntity(c, e)
  PROVE  AutoInvariant'
<1>1. /\ request[c].pc = "idle" /\ UNCHANGED <<generated, disturbed>>
      /\ ~LinksHeld(c, {l \in links : l.entity = e})
      /\ links' = {l \in links : l.entity # e}
      /\ request' = [request EXCEPT ![c] = [pc |-> "done"]]
  BY DEF DeleteEntity
<1>2. DatabaseOK(generated', links')
  <2>1. IsFiniteSet(links')
    BY <1>1, FS_Subset DEF AutoInvariant, DatabaseOK
  <2> QED BY <1>1, <2>1 DEF AutoInvariant, DatabaseOK
<1>3. \A x : Sourced(links', generated', x) \subseteq Sourced(links, generated, x)
  BY <1>1 DEF Sourced
<1>4. OneEach(links', generated', Entities \ disturbed')
  BY <1>1, <1>3 DEF OneEach, AutoInvariant
<1>5. DOMAIN request' = AutoCalls /\ request'[c] = [pc |-> "done"]
      /\ \A d \in AutoCalls \ {c} : request'[d] = request[d]
  BY <1>1 DEF AutoInvariant
<1>6. ASSUME NEW d \in AutoCalls \ {c} PROVE RequestOK(d, request[d], generated', links')
  <2>1. RequestOK(d, request[d], generated, links)
    BY DEF AutoInvariant
  <2>2. Generates(request[d]) => GenerationOK(d, request[d], generated', links')
    <3> SUFFICES ASSUME Generates(request[d])
                 PROVE  GenerationOK(d, request[d], generated', links')
      OBVIOUS
    <3>1. GenerationOK(d, request[d], generated, links)
      BY <2>1 DEF RequestOK
    <3>2. SourcesFree(request[d], generated', links')
      BY <1>3, <3>1 DEF GenerationOK, SourcesFree
    <3>3. Searched(request[d], generated', links')
      BY <1>3, <3>1 DEF GenerationOK, Searched
    <3> QED BY <1>1, <3>1, <3>2, <3>3 DEF GenerationOK, LinksOwn
  <2>3. request[d].pc = "reviewing" => ReviewingOK(request[d], generated', links')
    <3> SUFFICES ASSUME request[d].pc = "reviewing"
                 PROVE  ReviewingOK(request[d], generated', links')
      OBVIOUS
    <3>1. ReviewingOK(request[d], generated, links)
      BY <2>1 DEF RequestOK
    <3>2. Open(d)
      BY DEF Open, Closed
    <3>3. request[d].unlinked \subseteq links'
      BY <1>1, <3>1, <3>2 DEF ReviewingOK, LinksHeld
    <3> QED BY <1>1, <3>1, <3>3 DEF ReviewingOK
  <2> QED BY <1>1, <2>1, <2>2, <2>3 DEF RequestOK
<1>7. \A d \in AutoCalls : RequestOK(d, request'[d], generated', links')
  <2>1. RequestOK(c, [pc |-> "done"], generated', links')
    BY DEF RequestOK, Generates, Closed
  <2> QED BY <1>5, <1>6, <2>1
<1>8. \A d, x \in AutoCalls : d # x => Apart(request'[d], request'[x])
  BY <1>5 DEF AutoInvariant, Apart
<1> QED BY <1>2, <1>4, <1>5, <1>7, <1>8 DEF AutoInvariant

LEMMA AutoBegins == AutoInit => AutoInvariant
<1> SUFFICES ASSUME AutoInit PROVE AutoInvariant
  OBVIOUS
<1>1. PICK seed \in AutoSeeds : generated = seed.requirement /\ links = seed.links
  BY DEF AutoInit
<1>2. /\ \A r \in DOMAIN seed.requirement :
           /\ r[1] \notin AutoCalls
           /\ IsRow(seed.requirement[r]) /\ Chained(seed.requirement[r])
      /\ IsFiniteSet(seed.links)
      /\ \A l \in seed.links : IsLink(l, seed.requirement)
      /\ OneEach(seed.links, seed.requirement, Entities)
  BY AutoAssumption
<1>3. DatabaseOK(generated, links)
  BY <1>1, <1>2 DEF DatabaseOK, Rows
<1>4. OneEach(links, generated, Entities \ disturbed)
  BY <1>1, <1>2 DEF OneEach, AutoInit
<1>5. request = [c \in AutoCalls |-> [pc |-> "idle"]]
  BY DEF AutoInit
<1>6. \A c \in AutoCalls : RequestOK(c, request[c], generated, links)
  BY <1>1, <1>2, <1>5 DEF RequestOK, Generates, Closed
<1>7. \A c, d \in AutoCalls : Apart(request[c], request[d])
  BY <1>5 DEF Apart
<1> QED BY <1>3, <1>4, <1>5, <1>6, <1>7 DEF AutoInvariant

LEMMA AutoStep == AutoInvariant /\ [AutoNext]_autoVars => AutoInvariant'
<1> SUFFICES ASSUME AutoInvariant, [AutoNext]_autoVars PROVE AutoInvariant'
  OBVIOUS
<1>1. CASE UNCHANGED autoVars
  <2>1. UNCHANGED <<generated, links, request, disturbed>>
    BY <1>1 DEF autoVars
  <2> QED BY <2>1 DEF AutoInvariant, DatabaseOK, OneEach
<1>2. ASSUME NEW c \in AutoCalls,
             \/ GenerationStep(c) \/ AutoReview(c) \/ CommitRequest(c)
             \/ \E e \in HarnessWires \cup Buses : DeleteEntity(c, e)
      PROVE  AutoInvariant'
  <2>1. CASE GenerationStep(c)
    BY <2>1, GenerateStep, LookUpStep, CountRowsStep, InsertRowStep DEF GenerationStep
  <2>2. CASE AutoReview(c)
    <3>1. CASE Aborted(c)
      BY <3>1, FailStep DEF Aborted, WaitsFor
    <3> QED BY <2>2, <3>1, ReviewBegins, LoadRowStep, ReviewDecideStep DEF AutoReview
  <2>3. CASE CommitRequest(c)
    BY <2>3, CommitGeneration, CommitReview, Committing
  <2>4. CASE \E e \in HarnessWires \cup Buses : DeleteEntity(c, e)
    BY <2>4, DeleteEntityStep
  <2> QED BY <1>2, <2>1, <2>2, <2>3, <2>4
<1> QED BY <1>1, <1>2 DEF AutoNext

\* Whatever requests overlap and in whatever order they commit: generation
\* gives a source one live requirement, but for a source whose check another
\* commit overtook and for a requirement that a review brought back
\* (_create_requirement; execute_action's mark_for_review).
THEOREM OneLiveRequirement == AutoSpec => []OneLivePerSource
<1>1. AutoInvariant => OneLivePerSource
  <2> SUFFICES ASSUME AutoInvariant, NEW e \in Entities \ disturbed
               PROVE  Cardinality(Sourced(links, generated, e)) <= 1
    BY DEF OneLivePerSource
  <2> DEFINE S == Sourced(links, generated, e)
  <2>1. \A r, s \in S : r = s
    BY DEF AutoInvariant, OneEach
  <2> HIDE DEF S
  <2>2. CASE S = {}
    BY <2>2, FS_EmptySet DEF S
  <2>3. ASSUME NEW r \in S PROVE Cardinality(S) <= 1
    <3>1. S = {r}
      BY <2>1, <2>3
    <3>2. Cardinality({r}) = 1
      BY FS_Singleton
    <3> QED BY <3>1, <3>2
  <2> QED BY <2>2, <2>3 DEF S
<1> QED BY <1>1, AutoBegins, AutoStep, PTL DEF AutoSpec

\* However approvals, rejections and resolutions overlap, the history rows of a
\* requirement lead from each status to the next and to the one it has, except
\* around a decision that wrote over another (_record_history).
THEOREM HistoriesChain == AutoSpec => []HistoryChains
<1>1. AutoInvariant => HistoryChains
  BY DEF AutoInvariant, DatabaseOK, Rows, HistoryChains
<1> QED BY <1>1, AutoBegins, AutoStep, PTL DEF AutoSpec

-----------------------------------------------------------------------------
(* Requirements deleted before their entity: the inductive invariant         *)

\* The requirements that a preview lists.
Listed(p) == Affected(BlastRadius(p[1], p[2]))

\* A resolution that deletes requirements, and nobody has committed since it
\* began, deletes all that its preview lists, and touches no link.
Removes(q) == q.pc = "reviewing" /\ q.what = "delete_requirements" /\ ~q.overlapped
RemovesAll(q, listed, g) ==
  /\ q.linked = {} /\ q.unlinked = {}
  /\ \A r \in listed : r \in DOMAIN q.writes \/ \E i \in 1 .. Len(q.todo) : q.todo[i] = r
  /\ \A r \in DOMAIN q.writes : q.writes[r].status = "deleted"
  /\ q.seen # None => q.seen = Over(q.writes, g)[Head(q.todo)]

RemovalInvariant ==
  /\ settled \subseteq Previews
  /\ \A p \in settled : \A r \in Listed(p) : generated[r].status = "deleted"
  /\ \A c \in AutoCalls : Removes(request[c]) =>
       \E p \in Previews : request[c].of = p /\ RemovesAll(request[c], Listed(p), generated)

\* A preview lists no more than before while links and rows only go.
LEMMA ListsShrink ==
  ASSUME NEW p \in Previews, entities' \subseteq entities, links' \subseteq links
  PROVE  Listed(p)' \subseteq Listed(p)
<1>1. \A B, C : B \subseteq C => Contents(B)' \subseteq Contents(C)
  BY DEF Contents
<1>2. BlastRadius(p[1], p[2])' \subseteq BlastRadius(p[1], p[2])
  <2>1. CASE p[1] = "delete_wire"
    BY <1>1, <2>1 DEF BlastRadius
  <2>2. CASE p[1] = "delete_bus"
    BY <1>1, <2>2 DEF BlastRadius
  <2>3. CASE p[1] = "delete_unit"
    BY <1>1, <2>3 DEF BlastRadius
  <2>4. CASE p[1] = "edit_bus"
    BY <1>1, <2>4 DEF BlastRadius
  <2>5. CASE p[1] = "edit_message"
    BY <2>5 DEF BlastRadius
  <2> QED BY <2>1, <2>2, <2>3, <2>4, <2>5 DEF Previews
<1> QED BY <1>2 DEF Listed, Affected

\* Any step of a request that commits no requirement.
LEMMA UncommittedStep ==
  ASSUME AutoInvariant, RemovalInvariant, NEW c \in AutoCalls, NEW q,
         request' = [request EXCEPT ![c] = q], generated' = generated,
         entities' \subseteq entities, links' \subseteq links, settled' \subseteq settled,
         Removes(q) => \E p \in Previews : q.of = p /\ RemovesAll(q, Listed(p), generated)
  PROVE  RemovalInvariant'
<1>1. \A d \in AutoCalls : request'[d] = IF d = c THEN q ELSE request[d]
  BY DEF AutoInvariant
<1>2. \A d \in AutoCalls : Removes(request'[d]) =>
        \E p \in Previews : request'[d].of = p /\ RemovesAll(request'[d], Listed(p), generated)
  BY <1>1 DEF RemovalInvariant
<1>3. \A p \in Previews : Listed(p)' \subseteq Listed(p)
  BY ListsShrink
<1>4. ASSUME NEW d \in AutoCalls, Removes(request'[d])
      PROVE  \E p \in Previews :
               request'[d].of = p /\ RemovesAll(request'[d], Listed(p)', generated')
  <2>1. PICK p \in Previews : request'[d].of = p /\ RemovesAll(request'[d], Listed(p), generated)
    BY <1>2, <1>4
  <2>2. RemovesAll(request'[d], Listed(p)', generated')
    BY <1>3, <2>1 DEF RemovesAll
  <2> QED BY <2>1, <2>2
<1>5. \A p \in settled' : \A r \in Listed(p)' : generated'[r].status = "deleted"
  BY <1>3 DEF RemovalInvariant
<1> QED BY <1>4, <1>5 DEF RemovalInvariant

\* A request that generates or fails.
LEMMA BystanderStep ==
  ASSUME AutoInvariant, RemovalInvariant, NEW c \in AutoCalls, NEW q,
         Continue(c, q) \/ Begin(c, q), q.pc # "reviewing", "pc" \in DOMAIN q
  PROVE  RemovalInvariant'
<1>1. PICK q1 : request' = [request EXCEPT ![c] = q1] /\ q1.pc = q.pc
  BY DEF Continue, Begin, Over
<1>2. UNCHANGED <<entities, generated, links, settled>>
  BY DEF Continue, Begin
<1>3. ~Removes(q1)
  BY <1>1 DEF Removes
<1> QED BY <1>1, <1>2, <1>3, UncommittedStep

LEMMA GeneratingRemovesNothing ==
  ASSUME AutoInvariant, RemovalInvariant, NEW c \in AutoCalls, GenerationStep(c)
  PROVE  RemovalInvariant'
<1>1. ASSUME NEW W, Generate(c, W) PROVE RemovalInvariant'
  <2>1. PICK number, todo : Begin(c, [pc |-> "looking", number |-> number, todo |-> todo])
    BY <1>1 DEF Generate
  <2> QED BY <2>1, BystanderStep
<1>2. ASSUME request[c].pc \in {"looking", "counting", "inserting"}
      PROVE  LocalColumns \cup {"number"} \subseteq DOMAIN request[c]
  BY <1>2 DEF AutoInvariant, RequestOK, Generates, GenerationOK
<1>3. ASSUME NEW e, NEW r, NEW more, "pc" \in DOMAIN request[c]
      PROVE  /\ Generation(c, e, r, more).pc = "looking"
             /\ "pc" \in DOMAIN Generation(c, e, r, more)
  BY <1>3 DEF Generation
<1>4. CASE LookUp(c)
  <2>1. "pc" \in DOMAIN request[c]
    BY <1>2, <1>4 DEF LookUp, LocalColumns
  <2>2. \/ \E e, r : Continue(c, Generation(c, e, r, {}))
        \/ Continue(c, [request[c] EXCEPT !.pc = "counting"])
    BY <1>4 DEF LookUp
  <2>3. CASE \E e, r : Continue(c, Generation(c, e, r, {}))
    <3>1. PICK e, r : Continue(c, Generation(c, e, r, {}))
      BY <2>3
    <3> QED BY <1>3, <2>1, <3>1, BystanderStep
  <2>4. CASE Continue(c, [request[c] EXCEPT !.pc = "counting"])
    BY <2>1, <2>4, BystanderStep
  <2> QED BY <2>2, <2>3, <2>4
<1>5. CASE CountRows(c)
  <2>1. "pc" \in DOMAIN request[c]
    BY <1>2, <1>5 DEF CountRows, LocalColumns
  <2>2. PICK n : Continue(c, [request[c] EXCEPT !.pc = "inserting", !.number = n])
    BY <1>5 DEF CountRows
  <2>3. PICK q : q = [request[c] EXCEPT !.pc = "inserting", !.number = n]
    OBVIOUS
  <2>4. q.pc = "inserting" /\ "pc" \in DOMAIN q
    BY <2>1, <2>3
  <2> QED BY <2>2, <2>3, <2>4, BystanderStep
<1>6. CASE InsertRow(c)
  <2>1. "pc" \in DOMAIN request[c]
    BY <1>2, <1>6 DEF InsertRow, LocalColumns
  <2>2. \/ Fail(c, "refused")
        \/ \E e, r, row, more : Continue(c, Inserted(Generation(c, e, r, more), r, row))
    BY <1>6 DEF InsertRow
  <2>3. CASE Fail(c, "refused")
    BY <2>3, BystanderStep DEF Fail
  <2>4. CASE \E e, r, row, more : Continue(c, Inserted(Generation(c, e, r, more), r, row))
    <3>1. PICK e, r, row, more : Continue(c, Inserted(Generation(c, e, r, more), r, row))
      BY <2>4
    <3>2. /\ Inserted(Generation(c, e, r, more), r, row).pc = "looking"
          /\ "pc" \in DOMAIN Inserted(Generation(c, e, r, more), r, row)
      BY <1>3, <2>1 DEF Inserted
    <3> QED BY <3>1, <3>2, BystanderStep
  <2> QED BY <2>2, <2>3, <2>4
<1> QED BY <1>1, <1>4, <1>5, <1>6 DEF GenerationStep

LEMMA ReviewListsAll ==
  ASSUME AutoInvariant, RemovalInvariant, NEW c \in AutoCalls, NEW what, NEW of, NEW order,
         Review(c, what, of, order),
         what = "delete_requirements" => of \in Previews /\ order = SetToSeq(Listed(of))
  PROVE  RemovalInvariant'
<1> DEFINE local == [pc |-> "reviewing", what |-> what, of |-> of, todo |-> order,
                      seen |-> None]
<1>a. /\ DOMAIN local = {"pc", "what", "of", "todo", "seen"}
      /\ local.pc = "reviewing" /\ local.what = what /\ local.of = of
      /\ local.todo = order /\ local.seen = None
  OBVIOUS
<1>c. Begin(c, local)
  BY DEF Review
<1> HIDE DEF local
<1>b. DOMAIN local \cap Transaction = {}
  BY <1>a DEF Transaction
<1>1. PICK q :
        /\ request' = [request EXCEPT ![c] = q]
        /\ DOMAIN q = DOMAIN local \cup Transaction
        /\ \A f \in DOMAIN local : q[f] = local[f]
        /\ DOMAIN q.writes = {} /\ q.linked = {} /\ q.unlinked = {}
        /\ ~q.overlapped
        /\ \A r \in DOMAIN generated : r[1] # c
  BY <1>b, <1>c, Beginning
<1>2. ASSUME Removes(q)
      PROVE  \E p \in Previews : q.of = p /\ RemovesAll(q, Listed(p), generated)
  <2>1. q.what = what /\ q.of = of /\ q.todo = order /\ q.seen = None
    BY <1>1, <1>a
  <2>2. of \in Previews /\ order = SetToSeq(Listed(of))
    BY <1>2, <2>1 DEF Removes
  <2>3. /\ SetToSeq(Listed(of)) \in [1 .. Cardinality(Listed(of)) -> Listed(of)]
        /\ Cardinality(Listed(of)) \in Nat
        /\ \A r \in Listed(of) : \E i \in 1 .. Cardinality(Listed(of)) : SetToSeq(Listed(of))[i] = r
    BY AffectedFinite, SetToSeqCovers DEF Listed
  <2>4. Len(order) = Cardinality(Listed(of))
    BY <2>2, <2>3, LengthIs
  <2>5. RemovesAll(q, Listed(of), generated)
    BY <1>1, <2>1, <2>2, <2>3, <2>4 DEF RemovesAll
  <2> QED BY <2>1, <2>2, <2>5
<1>3. UNCHANGED <<generated, entities, links, settled>>
  BY <1>c DEF Begin
<1> QED BY <1>1, <1>2, <1>3, UncommittedStep

LEMMA ReviewsListAll ==
  ASSUME AutoInvariant, RemovalInvariant, NEW c \in AutoCalls,
         \/ \E R \in kSubset(Batches, DOMAIN generated) :
              \E order \in SetToSeqs(R) : Approve(c, order) \/ Reject(c, order)
         \/ \E what \in {"delete_requirements", "orphan_requirements", "mark_for_review"},
               preview \in Previews : Resolve(c, what, preview)
  PROVE  RemovalInvariant'
<1>1. \/ \E order : Approve(c, order) \/ Reject(c, order)
      \/ \E what, preview : preview \in Previews /\ Resolve(c, what, preview)
  OBVIOUS
<1>2. ASSUME NEW order, Approve(c, order) \/ Reject(c, order) PROVE RemovalInvariant'
  BY <1>2, ReviewListsAll DEF Approve, Reject
<1>3. ASSUME NEW what, NEW p \in Previews, Resolve(c, what, p) PROVE RemovalInvariant'
  <2>1. Review(c, what, p, SetToSeq(Listed(p)))
    BY <1>3 DEF Resolve, Listed
  <2> QED BY <2>1, ReviewListsAll
<1> QED BY <1>1, <1>2, <1>3

LEMMA LoadedRowIsCurrent ==
  ASSUME AutoInvariant, RemovalInvariant, NEW c \in AutoCalls, LoadRow(c)
  PROVE  RemovalInvariant'
<1>1. PICK q : q = [request[c] EXCEPT !.seen = Visible(c)[Head(request[c].todo)]]
  OBVIOUS
<1>2. request[c].pc = "reviewing" /\ Continue(c, q)
  BY <1>1 DEF LoadRow
<1>3. LocalColumns \cup {"what", "of", "seen"} \subseteq DOMAIN request[c]
  BY <1>2, ReviewSees DEF ReviewingOK
<1>4. /\ q.pc = request[c].pc /\ q.what = request[c].what /\ q.of = request[c].of
      /\ q.todo = request[c].todo /\ q.overlapped = request[c].overlapped
      /\ q.writes = request[c].writes
      /\ q.linked = request[c].linked /\ q.unlinked = request[c].unlinked
      /\ q.seen = Over(request[c].writes, generated)[Head(request[c].todo)]
  BY <1>1, <1>3 DEF LocalColumns, Visible
<1>5. Removes(q) => \E p \in Previews : q.of = p /\ RemovesAll(q, Listed(p), generated)
  <2> SUFFICES ASSUME Removes(q)
               PROVE  \E p \in Previews : q.of = p /\ RemovesAll(q, Listed(p), generated)
    OBVIOUS
  <2>1. PICK p \in Previews : request[c].of = p /\ RemovesAll(request[c], Listed(p), generated)
    BY <1>4 DEF Removes, RemovalInvariant
  <2> QED BY <1>4, <2>1 DEF RemovesAll
<1> QED BY <1>2, <1>5, UncommittedStep DEF Continue

\* What is left of a row that a resolution deletes, when nobody wrote it since
\* it was read.
LEMMA DeletedRow ==
  ASSUME NEW row, IsRow(row)
  PROVE  Rewritten("delete_requirements", row, row).status = "deleted"
<1>1. Decided("delete_requirements", row).new = "deleted"
  BY DEF Decided, NewStatus
<1> QED BY <1>1 DEF Rewritten, IsRow, Columns

LEMMA DecisionRemoves ==
  ASSUME AutoInvariant, RemovalInvariant, NEW c \in AutoCalls, Decide(c)
  PROVE  RemovalInvariant'
<1>1. PICK r : r = Head(request[c].todo)
  OBVIOUS
<1>2. PICK row : row = Visible(c)[r]
  OBVIOUS
<1>3. PICK old : old = Generics(VisibleLinks(c), r)
  OBVIOUS
<1>4. PICK new :
        new = [x \in IF Rewrites(request[c].what, request[c].seen.status) THEN {r} ELSE {} |->
                Rewritten(request[c].what, row, request[c].seen)]
  OBVIOUS
<1>5. /\ request[c].pc = "reviewing" /\ request[c].todo # <<>> /\ request[c].seen # None
      /\ Fail(c, "refused") \/ Continue(c, Decision(request[c], row, new, old))
  BY <1>1, <1>2, <1>3, <1>4 DEF Decide
<1>6. CASE Fail(c, "refused")
  BY <1>6, BystanderStep DEF Fail
<1>7. CASE Continue(c, Decision(request[c], row, new, old))
  <2>1. PICK q : q = Decision(request[c], row, new, old)
    OBVIOUS
  <2>2. /\ LocalColumns \cup {"what", "of", "seen"} \subseteq DOMAIN request[c]
        /\ request[c].todo \in Seq(DOMAIN generated)
        /\ \A x \in DOMAIN generated : IsRow(Visible(c)[x])
    BY <1>5, ReviewSees DEF ReviewingOK
  <2>3. /\ q.pc = request[c].pc /\ q.what = request[c].what /\ q.of = request[c].of
        /\ q.overlapped = request[c].overlapped
        /\ q.todo = Tail(request[c].todo) /\ q.seen = None
        /\ q.writes = Over(new, request[c].writes)
        /\ q.unlinked = request[c].unlinked \cup (old \ Stamped(request[c].what, old))
        /\ q.linked = (request[c].linked \ old) \cup (Stamped(request[c].what, old) \ links)
    BY <2>1, <2>2 DEF Decision, LocalColumns
  <2>4. ASSUME Removes(q)
        PROVE  \E p \in Previews : q.of = p /\ RemovesAll(q, Listed(p), generated)
    <3>1. PICK p \in Previews : request[c].of = p /\ RemovesAll(request[c], Listed(p), generated)
      BY <2>3, <2>4 DEF Removes, RemovalInvariant
    <3>2. request[c].what = "delete_requirements"
      BY <2>3, <2>4 DEF Removes
    <3>3. row = request[c].seen /\ IsRow(row)
      BY <1>1, <1>2, <1>5, <2>2, <3>1 DEF RemovesAll, Visible
    <3>4. DOMAIN new = {r} /\ new[r].status = "deleted"
      <4>1. new = [x \in {r} |-> Rewritten("delete_requirements", row, row)]
        BY <1>4, <3>2, <3>3 DEF Rewrites
      <4> QED BY <3>3, <4>1, DeletedRow
    <3>5. \A x \in DOMAIN q.writes : q.writes[x].status = "deleted"
      BY <2>3, <3>1, <3>4 DEF Over, RemovesAll
    <3>6. q.linked = {} /\ q.unlinked = {}
      <4>1. Stamped(request[c].what, old) = old
        BY <3>2 DEF Stamped
      <4>2. old \subseteq links
        BY <1>3, <3>1 DEF Generics, VisibleLinks, RemovesAll
      <4> QED BY <2>3, <3>1, <4>1, <4>2 DEF RemovesAll
    <3>7. ASSUME NEW x \in Listed(p)
          PROVE  x \in DOMAIN q.writes \/ \E i \in 1 .. Len(q.todo) : q.todo[i] = x
      <4>1. CASE x \in DOMAIN request[c].writes
        BY <2>3, <4>1 DEF Over
      <4>2. CASE x = r
        BY <2>3, <3>4, <4>2 DEF Over
      <4>3. ASSUME NEW i \in 1 .. Len(request[c].todo), request[c].todo[i] = x, x # r
            PROVE  \E j \in 1 .. Len(q.todo) : q.todo[j] = x
        <5>1. i # 1
          BY <1>1, <1>5, <2>2, <4>3
        <5>2. /\ Len(q.todo) = Len(request[c].todo) - 1
              /\ Len(request[c].todo) \in Nat
              /\ i - 1 \in 1 .. Len(q.todo) /\ q.todo[i - 1] = request[c].todo[i]
          BY <1>5, <2>2, <2>3, <5>1
        <5> QED BY <4>3, <5>2
      <4> QED BY <3>1, <4>1, <4>2, <4>3 DEF RemovesAll
    <3> QED BY <2>3, <3>1, <3>5, <3>6, <3>7 DEF RemovesAll
  <2>5. UNCHANGED <<entities, generated, links, settled>>
        /\ request' = [request EXCEPT ![c] = q]
    BY <1>7, <2>1 DEF Continue
  <2> QED BY <2>4, <2>5, UncommittedStep
<1> QED BY <1>5, <1>6, <1>7

\* A commit settles what it is about, and overtakes every other resolution.
LEMMA CommitSettles ==
  ASSUME AutoInvariant, RemovalInvariant, NEW c \in AutoCalls, CommitRequest(c)
  PROVE  RemovalInvariant'
<1>0. /\ request'[c] = [pc |-> "done"]
      /\ \A r \in DOMAIN request[c].writes : generated'[r] = request[c].writes[r]
      /\ links' = (links \ request[c].unlinked) \cup request[c].linked
  BY Committing
<1>1. ASSUME NEW d \in AutoCalls PROVE ~Removes(request'[d])
  <2>1. CASE d = c
    BY <1>0, <2>1 DEF Removes
  <2>2. CASE d # c /\ ~Open(d)
    BY <2>2, Committing DEF Removes, Open, Closed
  <2>3. CASE d # c /\ Open(d)
    <3>1. request'[d] = [request[d] EXCEPT !.overlapped = TRUE]
      BY <2>3, Committing
    <3>2. request[d].pc # "reviewing" \/ "overlapped" \in DOMAIN request[d]
      BY ReviewSees DEF ReviewingOK, LocalColumns
    <3>3. "pc" \in DOMAIN request[d]
      BY DEF AutoInvariant, RequestOK
    <3> QED BY <3>1, <3>2, <3>3 DEF Removes
  <2> QED BY <2>1, <2>2, <2>3
<1>2. ASSUME NEW p \in settled'
      PROVE  p \in Previews /\ \A r \in Listed(p)' : generated'[r].status = "deleted"
  <2>1. Removes(request[c]) /\ p = request[c].of /\ request[c].todo = <<>>
    BY <1>2 DEF CommitRequest, Removes
  <2>2. p \in Previews /\ RemovesAll(request[c], Listed(p), generated)
    BY <2>1 DEF RemovalInvariant
  <2>3. links' = links /\ entities' = entities
    BY <1>0, <2>2 DEF RemovesAll, CommitRequest
  <2>4. Listed(p)' \subseteq Listed(p)
    BY <2>2, <2>3, ListsShrink
  <2>5. \A r \in Listed(p) : r \in DOMAIN request[c].writes
    <3>1. Len(request[c].todo) = 0
      BY <2>1
    <3> QED BY <2>2, <3>1 DEF RemovesAll
  <2> QED BY <1>0, <2>2, <2>4, <2>5 DEF RemovesAll
<1> QED BY <1>1, <1>2 DEF RemovalInvariant

LEMMA DeletionUnsettles ==
  ASSUME AutoInvariant, RemovalInvariant, NEW c \in AutoCalls, NEW e, DeleteEntity(c, e)
  PROVE  RemovalInvariant'
<1> DEFINE q == [pc |-> "done"]
<1>1. ~Removes(q)
  BY DEF Removes
<1>2. /\ request' = [request EXCEPT ![c] = q] /\ generated' = generated
      /\ entities' \subseteq entities /\ links' \subseteq links /\ settled' \subseteq settled
  BY DEF DeleteEntity
<1> HIDE DEF q
<1> QED BY <1>1, <1>2, UncommittedStep

LEMMA RemovalBegins == AutoInit => RemovalInvariant
<1> SUFFICES ASSUME AutoInit PROVE RemovalInvariant
  OBVIOUS
<1>1. settled = {} /\ \A c \in AutoCalls : request[c].pc = "idle"
  BY DEF AutoInit
<1> QED BY <1>1 DEF RemovalInvariant, Removes

LEMMA RemovalStep ==
  AutoInvariant /\ RemovalInvariant /\ [AutoNext]_autoVars => RemovalInvariant'
<1> SUFFICES ASSUME AutoInvariant, RemovalInvariant, [AutoNext]_autoVars
             PROVE  RemovalInvariant'
  OBVIOUS
<1>1. CASE UNCHANGED autoVars
  <2>1. UNCHANGED <<entities, generated, links, request, settled>>
    BY <1>1 DEF autoVars
  <2>2. ASSUME NEW p PROVE Listed(p)' = Listed(p)
    BY <2>1 DEF Listed, Affected, BlastRadius, Contents, FieldsOf
  <2> QED BY <2>1, <2>2 DEF RemovalInvariant
<1>2. ASSUME NEW c \in AutoCalls,
             \/ GenerationStep(c) \/ AutoReview(c) \/ CommitRequest(c)
             \/ \E e \in HarnessWires \cup Buses : DeleteEntity(c, e)
      PROVE  RemovalInvariant'
  <2>1. CASE AutoReview(c)
    <3>1. CASE Aborted(c)
      BY <3>1, BystanderStep DEF Aborted, Fail
    <3> QED BY <2>1, <3>1, ReviewsListAll, LoadedRowIsCurrent, DecisionRemoves DEF AutoReview
  <2> QED BY <1>2, <2>1, GeneratingRemovesNothing, CommitSettles, DeletionUnsettles
<1> QED BY <1>1, <1>2 DEF AutoNext

\* What goes with an entity was in its preview.
LEMMA DeletionFollowsPreview ==
  ASSUME NEW c, NEW e \in HarnessWires \cup Buses, DeleteEntity(c, e), NEW p \in Previews,
         p[1] \in {"delete_wire", "delete_bus"}, p[2] \in entities \ entities'
  PROVE  entities \ entities' \subseteq BlastRadius(p[1], p[2])
<1>1. entities \ entities' \subseteq (IF e \in Buses THEN Contents({e}) ELSE {e})
  BY DEF DeleteEntity
<1>2. Contents({e}) \subseteq {e} \cup Messages \cup Fields
  BY DEF Contents
<1>3. p[2] \in HarnessWires \cup Buses
  BY DEF Previews
<1>4. p[2] = e
  BY <1>1, <1>2, <1>3, AutoAssumption
<1>5. CASE p[1] = "delete_wire"
  <2>1. e \notin Buses
    BY <1>4, <1>5, AutoAssumption DEF Previews
  <2> QED BY <1>1, <1>4, <1>5, <2>1 DEF BlastRadius
<1>6. CASE p[1] = "delete_bus"
  <2>1. e \in Buses
    BY <1>4, <1>6 DEF Previews
  <2> QED BY <1>1, <1>4, <1>6, <2>1 DEF BlastRadius
<1> QED BY <1>5, <1>6

\* A wire or bus that is deleted right after its preview's requirements were
\* leaves no live requirement linked to what went with it (preview_* collects
\* all that the deletion takes, and execute_action deletes all of it).
THEOREM PreviewsAreComplete == AutoSpec => NothingDangles
<1> DEFINE DanglingStep ==
      (\E p \in settled : p[1] \in {"delete_wire", "delete_bus"}
                          /\ p[2] \in entities \ entities') =>
        \A l \in links : l.entity \in entities \ entities' =>
          generated[l.req].status = "deleted"
<1>1. RemovalInvariant /\ [AutoNext]_autoVars => [DanglingStep]_autoVars
  <2> SUFFICES ASSUME RemovalInvariant, AutoNext,
                      NEW p \in settled, p[1] \in {"delete_wire", "delete_bus"},
                      p[2] \in entities \ entities',
                      NEW l \in links, l.entity \in entities \ entities'
               PROVE  generated[l.req].status = "deleted"
    OBVIOUS
  <2>1. entities' # entities
    OBVIOUS
  <2>2. PICK c \in AutoCalls :
          \/ GenerationStep(c) \/ AutoReview(c) \/ CommitRequest(c)
          \/ \E e \in HarnessWires \cup Buses : DeleteEntity(c, e)
    BY DEF AutoNext
  <2>3. ~GenerationStep(c)
    BY <2>1 DEF GenerationStep, Generate, LookUp, CountRows, InsertRow, Begin, Continue, Fail
  <2>4. ~AutoReview(c)
    BY <2>1 DEF AutoReview, Approve, Reject, Resolve, Review, LoadRow, Decide, Aborted,
                Begin, Continue, Fail
  <2>5. ~CommitRequest(c)
    BY <2>1 DEF CommitRequest
  <2>6. PICK e \in HarnessWires \cup Buses : DeleteEntity(c, e)
    BY <2>2, <2>3, <2>4, <2>5
  <2>7. l.entity \in BlastRadius(p[1], p[2])
    BY <2>6, DeletionFollowsPreview DEF RemovalInvariant
  <2>8. l.req \in Listed(p)
    BY <2>7 DEF Listed, Affected
  <2> QED BY <2>8 DEF RemovalInvariant
<1>2. [][DanglingStep]_autoVars => NothingDangles
  BY DEF NothingDangles
<1> QED BY <1>1, <1>2, AutoBegins, AutoStep, RemovalBegins, RemovalStep, PTL DEF AutoSpec

=============================================================================
