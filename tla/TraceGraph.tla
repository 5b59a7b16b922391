------------------------------ MODULE TraceGraph ------------------------------
(***************************************************************************)
(* The trace links of a project (backend/app/routers/projects.py) and two  *)
(* readers of them written apart: the coverage statistics, from sets of    *)
(* ids, and the impact analysis (services/ai/impact_analyzer.py), from a   *)
(* breadth-first search.  Links are polymorphic and no foreign key cleans  *)
(* up after what they name; requirements are deleted softly.               *)
(***************************************************************************)
EXTENDS Naturals, FiniteSets

CONSTANTS
  Reqs, Verifs, Arts,  \* ids of requirements, verifications and artifacts
  Existing,            \* requirements that are there when the system starts
  NoReq,
  Depth,               \* max_depth of the search
  MaxChanges           \* bound: requests

GraphAssumption == Depth \in Nat \ {0}

Decomposition == "decomposition"
LinkTypes == {Decomposition, "satisfaction"}

VARIABLES
  status,    \* "absent", "live" or "deleted", by requirement
  parent,    \* parent_id
  checks,    \* requirement_id of each Verification row, NoReq before it is made
  stored,    \* SourceArtifact rows
  links,     \* TraceLink rows <<source, target, link_type>>
  changes

graphVars == <<status, parent, checks, stored, links, changes>>

Live == {r \in Reqs : status[r] = "live"}
Recorded == {r \in Reqs : status[r] # "absent"}
Children(p) == {r \in Recorded : parent[r] = p}
Entities == Recorded \cup {v \in Verifs : checks[v] # NoReq} \cup stored

-----------------------------------------------------------------------------
(* get_coverage_stats: links that touch a live requirement, parents that are *)
(* live themselves.                                                          *)

WithSource   == {r \in Live : \E a \in Arts, t \in LinkTypes : <<a, r, t>> \in links}
WithChildren ==
  {r \in Live : \/ \E l \in links : l[1] = r /\ l[3] = Decomposition
                \/ Children(r) \cap Live # {}}
Verified     == {r \in Live : \E v \in Verifs : checks[v] = r}
Linked       == {r \in Live : \E l \in links : r \in {l[1], l[2]}}
Orphans      ==
  Live \ (Linked \cup Verified
          \cup {r \in Live : parent[r] \in Live \/ Children(r) \cap Live # {}})

Coverage(r) ==
  <<r \in WithSource, r \in WithChildren, r \in Verified, r \in Orphans>>

-----------------------------------------------------------------------------
(* _TraceGraph                                                               *)

\* Mutant: the implicit edges to parents are left out.
TraceEdges_LinksOnly ==
  {<<l[1], l[2]>> : l \in {k \in links : {k[1], k[2]} \cap Live # {}}}
  \cup {<<checks[v], v>> : v \in {w \in Verifs : checks[w] \in Live}}

\* From source to target, parent to child, requirement to verification.
TraceEdges ==
  {<<l[1], l[2]>> : l \in {k \in links : {k[1], k[2]} \cap Live # {}}}
  \cup {<<parent[r], r>> : r \in {q \in Live : parent[q] \in Live}}
  \cup {<<checks[v], v>> : v \in {w \in Verifs : checks[w] \in Live}}

Reversed(edges) == {<<e[2], e[1]>> : e \in edges}

\* One hop on: the nodes met for the first time.
Hop(last, edges) ==
  LET ring == {e[2] : e \in {f \in edges : f[1] \in last.ring}} \ last.visited
  IN  [ring |-> ring, visited |-> last.visited \cup ring]

\* What a queue of <<node, hops>> visits, a node when it is first met: the
\* nodes at each number of hops.
Hops(start, edges) ==
  LET at[n \in Nat] == IF n = 0 THEN [ring |-> {start}, visited |-> {start}]
                       ELSE Hop(at[n - 1], edges)
  IN  at

BreadthFirst(start, edges) ==
  {<<node, n>> : node \in Reqs \cup Verifs \cup Arts, n \in 1 .. Depth}
  \cap UNION {Hops(start, edges)[n].ring \X {n} : n \in 1 .. Depth}

\* bfs_all_affected follows every edge both ways.
Affected(r) == BreadthFirst(r, TraceEdges \cup Reversed(TraceEdges))

\* preview_what_if(r, "delete"): the items one hop away, and the children,
\* deleted ones included.
PreviewDirect(r)   == {item[1] : item \in {i \in Affected(r) : i[2] = 1}}
PreviewOrphaned(r) == Children(r)

-----------------------------------------------------------------------------
GraphInit ==
  /\ status = [r \in Reqs |-> IF r \in Existing THEN "live" ELSE "absent"]
  /\ parent = [r \in Reqs |-> NoReq]
  /\ checks = [v \in Verifs |-> NoReq]
  /\ stored = {}
  /\ links = {}
  /\ changes = 0

Changing == changes < MaxChanges /\ changes' = changes + 1

CreateRequirement(r, p) ==
  /\ Changing
  /\ status[r] = "absent"
  /\ p # NoReq => p \in Recorded
  /\ status' = [status EXCEPT ![r] = "live"]
  /\ parent' = [parent EXCEPT ![r] = p]
  /\ UNCHANGED <<checks, stored, links>>

\* PATCH parent_id: of any row, to any row or to none.
MoveRequirement(r, p) ==
  /\ Changing
  /\ r \in Recorded /\ parent[r] # p
  /\ p # NoReq => p \in Recorded
  /\ parent' = [parent EXCEPT ![r] = p]
  /\ UNCHANGED <<status, checks, stored, links>>

ChangeStatus(r, from, to) ==
  /\ Changing
  /\ status[r] = from
  /\ status' = [status EXCEPT ![r] = to]
  /\ UNCHANGED <<parent, checks, stored, links>>

DeleteRequirement(r)  == ChangeStatus(r, "live", "deleted")
RestoreRequirement(r) == ChangeStatus(r, "deleted", "live")

\* create_verification takes a deleted requirement too.
CreateVerification(v, r) ==
  /\ Changing
  /\ checks[v] = NoReq /\ r \in Recorded
  /\ checks' = [checks EXCEPT ![v] = r]
  /\ UNCHANGED <<status, parent, stored, links>>

CreateArtifact(a) ==
  /\ Changing
  /\ a \notin stored
  /\ stored' = stored \cup {a}
  /\ UNCHANGED <<status, parent, checks, links>>

\* delete_artifact looks at requirements that cite it, not at links.
DeleteArtifact(a) ==
  /\ Changing
  /\ a \in stored
  /\ stored' = stored \ {a}
  /\ UNCHANGED <<status, parent, checks, links>>

\* create_trace_link: both ends exist, and no link of the type joins them.
CreateLink(source, target, type) ==
  /\ Changing
  /\ source \in Entities /\ target \in Entities
  /\ <<source, target, type>> \notin links
  /\ links' = links \cup {<<source, target, type>>}
  /\ UNCHANGED <<status, parent, checks, stored>>

DeleteLink(l) ==
  /\ Changing
  /\ links' = links \ {l}
  /\ UNCHANGED <<status, parent, checks, stored>>

GraphNext ==
  \/ \E r \in Reqs :
       \/ \E p \in Reqs \cup {NoReq} : CreateRequirement(r, p) \/ MoveRequirement(r, p)
       \/ DeleteRequirement(r)
       \/ RestoreRequirement(r)
       \/ \E v \in Verifs : CreateVerification(v, r)
  \/ \E a \in Arts : CreateArtifact(a) \/ DeleteArtifact(a)
  \/ \E source, target \in Entities, type \in LinkTypes :
       CreateLink(source, target, type)
  \/ \E l \in links : DeleteLink(l)

GraphSpec == GraphInit /\ [][GraphNext]_graphVars

-----------------------------------------------------------------------------
(* "Preview impact BEFORE making a change" (routers/impact.py:174): whatever *)
(* deleting a requirement does to the coverage of another one, that other    *)
(* one is an item of the preview, one hop away, and a child that loses its   *)
(* parent by it is listed as orphaned.  The preview walks the graph, the     *)
(* statistics compare sets; parents, links, verifications and deleted rows   *)
(* count in both.                                                            *)
DeletionsArePreviewed ==
  [][\A r \in Reqs : DeleteRequirement(r) =>
       \A q \in Live \ {r} :
         Coverage(q)' # Coverage(q) =>
           /\ q \in PreviewDirect(r)
           /\ parent[q] = r => q \in PreviewOrphaned(r)]_graphVars
===============================================================================
