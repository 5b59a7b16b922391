--------------------------- MODULE MCRequirementSync ---------------------------
(* The two ways a requirement follows the model it came from: ReqSync and, in  *)
(* the behaviours whose part is "auto", AutoRequirements.                      *)
EXTENDS ReqSync, AutoRequirements
CONSTANTS w1, w2, j1, r1, r2, r3, q1, q2, q3, b, m, f, f2

VARIABLE part

Row(status, text, locked, s, template) ==
  [status |-> status, statement |-> text, version |-> 1, locked |-> locked,
   link |-> s, template |-> template]
Raised(r, s, type, old, new) ==
  [req |-> r, by |-> s, type |-> type, old |-> old, new |-> new, status |-> "pending"]
Told2 == [w \in {w1, w2} |-> [status |-> "present", text |-> "b"]]

\* Two wires: an edit from "a" to "b" raised a proposal on each approved
\* requirement and changed the generated one.
Wired ==
  [source |-> Told2 @@ j1 :> [status |-> "none"],
   requirement |-> r1 :> Row("approved", "a", FALSE, w1, "wire")
                   @@ r2 :> Row("auto_generated", "b", FALSE, w1, "wire")
                   @@ r3 :> Row("approved", "a", FALSE, w2, "wire"),
   proposals |-> <<Raised(r1, w1, "update_statement", "a", "b"),
                   Raised(r3, w2, "update_statement", "a", "b")>>]
\* A joint in draft, and one requirement written by hand.
Jointed ==
  [source |-> [w \in {w1, w2} |-> [status |-> "gone"]] @@ j1 :> [status |-> "draft", text |-> "a"],
   requirement |-> [r \in {} |-> 0],
   proposals |-> <<>>]
DefSeeds == {Wired, Jointed}
DefEdits == {[statement |-> "m"], [status |-> "approved"]}

P(n) == <<"seed", n>>
FromTemplate(n, s, parent, level, status) ==
  [source |-> s, parent |-> parent, level |-> level, status |-> status,
   version |-> 1, number |-> n, history |-> <<>>]
Primary(n, e) == [entity |-> e, req |-> P(n), status |-> "pending_review",
                  auto |-> TRUE, template |-> TRUE]
Manual(n) == [entity |-> Interface, req |-> P(n), status |-> "approved",
              auto |-> FALSE, template |-> FALSE]
\* Nothing generated yet; an Interface whose requirement somebody wrote.
Fresh(review) == [requirement |-> P(1) :> FromTemplate(1, None, None, 2, "approved"),
                  links |-> {Manual(1)}, needsReview |-> review]
\* What one generation from both wires leaves.
After == [requirement |-> P(1) :> FromTemplate(1, Harness, None, 3, "pending_review")
            @@ P(2) :> FromTemplate(2, b, None, 3, "pending_review")
            @@ P(3) :> FromTemplate(3, m, P(2), 4, "pending_review")
            @@ P(4) :> FromTemplate(4, f, P(3), 5, "pending_review")
            @@ P(5) :> FromTemplate(5, w2, None, 4, "pending_review"),
          links |-> {Primary(1, Harness), Primary(2, b), Primary(3, m), Primary(4, f), Primary(5, w2),
                     [Primary(2, Harness) EXCEPT !.template = FALSE]},
          needsReview |-> TRUE]
\* Later: the wire's requirement was rejected, the harness's approved.
Reviewed ==
  [After EXCEPT
     !.requirement[P(1)].status = "draft", !.requirement[P(1)].version = 2,
     !.requirement[P(1)].history = <<[old |-> "pending_review", new |-> "draft", stale |-> FALSE]>>,
     !.requirement[P(5)].status = "deleted", !.requirement[P(5)].version = 2,
     !.requirement[P(5)].history = <<[old |-> "pending_review", new |-> "deleted", stale |-> FALSE]>>,
     !.links = {IF l.req = P(1) THEN [l EXCEPT !.status = "approved"]
                ELSE IF l.req = P(5) THEN [l EXCEPT !.status = "rejected"] ELSE l : l \in @}]

DefBusOf == w1 :> b @@ w2 :> None
DefBusOfMessage == m :> b
DefMessageOf == f :> m @@ f2 :> m
DefWireSets == {{w1, w2}, {w2}}
DefAutoSeeds == {Fresh(TRUE), Fresh(FALSE), After, Reviewed}

NoSync ==
  /\ source = [w \in Wires \cup Joints |-> Gone] /\ requirement = <<>> /\ proposals = <<>>
  /\ history = {} /\ call = <<>> /\ acts = {}
NoAuto ==
  /\ generated = <<>> /\ entities = {} /\ links = {} /\ tests = <<>>
  /\ needsReview = FALSE /\ request = <<>> /\ settled = {} /\ disturbed = {}

MCInit == \/ part = "sync" /\ Init /\ NoAuto
          \/ part = "auto" /\ AutoInit /\ NoSync
MCNext ==
  /\ UNCHANGED part
  /\ IF part = "sync" THEN Next /\ UNCHANGED autoVars ELSE AutoNext /\ UNCHANGED syncVars

TracesInit == part = "auto" /\ AutoInit /\ NoSync

RequestSymmetry == Permutations({q1, q2})
===============================================================================
