----------------------------- MODULE MCTraceability -----------------------------
(* What ties records together: in the behaviours whose area is "workflow", the *)
(* approvals of MCApprovalWorkflow; in the others, the links, sources,         *)
(* exceptions and artifacts of requirements and the items of external tools,   *)
(* each with tables of its own.                                                *)
EXTENDS MCApprovalWorkflow, CoverageExceptions, ContractSources, RequirementExchange,
        SourceCoverage, TraceGraph
CONSTANTS q1, q2, q3, q4, v1, a1, d1, d2, e1, e2, x1

VARIABLE area
---------------------------------------------------------------------------
ASSUME ExceptionsAssumption
ASSUME ContractAssumption
ASSUME ExchangeAssumption
ASSUME CoverageAssumption
ASSUME GraphAssumption
DefNative == <<"functional">>

\* Requirements q1 .. q4 below each other: by links to the source, with the
\* two in the middle deleted, in a ring, or none.
World(there, deleted, up, links0, sources) ==
  [need |-> [r \in Needs |-> IF r \in deleted THEN "deleted"
                             ELSE IF r \in there THEN "live" ELSE "absent"],
   above |-> [r \in Needs |-> IF r \in DOMAIN up THEN up[r] ELSE NoParent],
   traces |-> links0, sourced |-> sources, excuse |-> [r \in Needs |-> "none"]]
Chain == {<<q1, q2>>, <<q2, q3>>, <<q3, q4>>}
CoverageWorlds == {
  World({q1}, {}, <<>>, {}, {}),
  World(Needs, {}, <<>>, Chain, {q4}),
  World(Needs, {q2, q3}, <<>>, Chain, {q4}),
  World(Needs, {}, q1 :> q2 @@ q2 :> q3, {<<q3, q1>>}, {})}
MCLevel == q1 :> "L4" @@ q2 :> "L3" @@ q3 :> "L2" @@ q4 :> "L5"

\* Requirements, documents and edits of contracts are interchangeable: of two,
\* the first to appear is the one named first.
InOrder ==
  /\ item[q2] # Absent => item[q1] # Absent
  /\ d2 \in documents \cup told => d1 \in documents \cup told
  /\ edit[e2].pc # "idle" => edit[e1].pc # "idle"
---------------------------------------------------------------------------
MCInit ==
  /\ Init
  /\ ExceptionsInit /\ CoverageInit
  /\ GraphInit /\ ContractInit /\ ExchangeInit
  /\ area \in {"workflow", "exceptions", "sources", "graph", "contract", "exchange"}
  /\ area # "exchange" => tool = "jira"
  /\ area # "workflow" => stages = Seeded
  /\ area # "sources" => sourced = {} /\ above[q1] = NoParent

MCNext ==
  /\ UNCHANGED area
  /\ \/ /\ area = "workflow" /\ Next
        /\ UNCHANGED <<exceptionVars, coverageVars, graphVars, contractVars, exchangeVars>>
     \/ /\ area = "exceptions" /\ ExceptionsNext
        /\ UNCHANGED <<vars, coverageVars, graphVars, contractVars, exchangeVars>>
     \/ /\ area = "sources" /\ CoverageNext
        /\ UNCHANGED <<vars, exceptionVars, graphVars, contractVars, exchangeVars>>
     \/ /\ area = "graph" /\ GraphNext
        /\ UNCHANGED <<vars, exceptionVars, coverageVars, contractVars, exchangeVars>>
     \/ /\ area = "contract" /\ ContractNext /\ InOrder'
        /\ UNCHANGED <<vars, exceptionVars, coverageVars, graphVars, exchangeVars>>
     \/ /\ area = "exchange" /\ ExchangeNext
        /\ UNCHANGED <<vars, exceptionVars, coverageVars, graphVars, contractVars>>

==============================================================================
