---------------------------- MODULE MigrationSteps ----------------------------
(***************************************************************************)
(* The revisions of backend/alembic/versions, in the order of their chain: *)
(* what each creates and drops, on the way up and on the way down.         *)
(*                                                                         *)
(* A schema is a set of objects <<of, name, on>>: a table, a view or an    *)
(* enum type is <<of, "", "">>; its columns added later, indexes,          *)
(* constraints, triggers and enum labels are <<of, name, "">>; a reference *)
(* to another table or type is <<of, column, that table>>. The columns a   *)
(* table is created with are part of it. A change that has no object of    *)
(* its own (a column made nullable or wider, an ON DELETE action, rows     *)
(* filled in) is one more name of its table.                               *)
(***************************************************************************)
EXTENDS Naturals, Sequences

Rel(t) == <<t, "", "">>
Rels(ts) == {Rel(t) : t \in ts}
Items(t, names) == {<<t, n, "">> : n \in names}
Fk(t, column, ref) == {<<t, column, ref>>}
Table(t, refs) == {Rel(t)} \cup {<<t, "", r>> : r \in refs}

\* A statement: plain, or with IF [NOT] EXISTS.
Make(objs) == [put |-> objs, cut |-> {}, lax |-> FALSE]
Ensure(objs) == [put |-> objs, cut |-> {}, lax |-> TRUE]
Drop(objs) == [put |-> {}, cut |-> objs, lax |-> FALSE]
Discard(objs) == [put |-> {}, cut |-> objs, lax |-> TRUE]
DropTables(ts) == [i \in DOMAIN ts |-> Drop({Rel(ts[i])})]

\* "first" runs before the revision's autocommit block, "labels" in it.
Revision(up, down) ==
  [first |-> <<>>, labels |-> {}, up |-> up, down |-> down, guarded |-> FALSE]
-----------------------------------------------------------------------------
(* 0001 - 0006: requirements, accounts, workflows *)

CoreTypes == {"userrole", "requirementtype", "requirementpriority", "requirementstatus",
  "requirementlevel", "artifacttype", "tracelinktype", "verificationmethod",
  "verificationstatus"}
CoreTables == <<
  Make(Table("users", {"userrole"})),
  Make(Table("projects", {"users"})),
  Make(Table("requirements", {"projects", "requirements", "users", "requirementtype",
    "requirementpriority", "requirementstatus", "requirementlevel"})),
  Make(Table("source_artifacts", {"projects", "users", "artifacttype"})),
  Make(Table("trace_links", {"users", "tracelinktype"})),
  Make(Table("verifications", {"requirements", "users", "verificationmethod",
    "verificationstatus"})),
  Make(Table("requirement_history", {"requirements", "users"})),
  Make(Table("baselines", {"projects", "users"})),
  Make(Table("baseline_requirements", {"baselines", "requirements"})),
  Make(Table("comments", {"requirements", "comments", "users"}))>>
AccountTables == <<
  Make(Table("project_members", {"projects", "users"})),
  Make(Table("audit_log", {"projects", "users"})),
  Make(Table("account_lockouts", {})),
  Make(Table("mfa_configs", {"users"})),
  Make(Table("refresh_tokens", {"users"})),
  Make(Table("auth_sessions", {"users"}))>>
WorkflowTypes == {"workflowstatus", "instancestatus", "signaturemeaning"}
WorkflowTables == <<
  Ensure(Rels(WorkflowTypes)),
  Make(Table("approval_workflows", {"projects", "users", "workflowstatus"})),
  Make(Table("workflow_stages", {"approval_workflows"})
    \cup Items("workflow_stages", {"auto_escalate_to_role"})),
  Make(Table("electronic_signatures", {"users", "signaturemeaning"})),
  Make(Table("workflow_instances", {"approval_workflows", "projects", "users",
    "instancestatus"})),
  Make(Table("workflow_stage_actions", {"workflow_instances", "users",
    "electronic_signatures"}))>>
CoreDown == DropTables(<<"workflow_stage_actions", "workflow_instances",
    "electronic_signatures", "workflow_stages", "approval_workflows", "auth_sessions",
    "refresh_tokens", "mfa_configs", "account_lockouts", "audit_log", "project_members",
    "comments", "baseline_requirements", "baselines", "requirement_history",
    "verifications", "trace_links", "source_artifacts", "requirements", "projects",
    "users">>)
  \o <<Discard(Rels(CoreTypes \cup WorkflowTypes))>>
\* Its downgrade, and that of 0007, refuses to run in production.
M0001 == [Revision(<<Ensure(Rels(CoreTypes))>> \o CoreTables \o AccountTables
                     \o WorkflowTables, CoreDown)
          EXCEPT !.guarded = TRUE]

SpeedIndexes ==
  Items("requirements", {"ix_req_project_status", "ix_req_project_type",
    "ix_req_project_reqid"})
  \cup Items("trace_links", {"ix_tracelink_source", "ix_tracelink_target",
    "ix_tracelink_pair"})
  \cup Items("requirement_history", {"ix_reqhistory_req_time"})
  \cup Items("baselines", {"ix_baseline_project_time"})
  \cup Items("audit_log", {"ix_audit_project_time", "ix_audit_entity_lookup",
    "ix_audit_user_time", "ix_audit_sequence"})
  \cup Items("comments", {"ix_comment_req_created"})
  \cup Items("workflow_instances", {"ix_wfinst_entity", "ix_wfinst_project_status"})
M0002 == Revision(<<Make(SpeedIndexes)>>, <<Drop(SpeedIndexes)>>)

M0005 == Revision(<<
    Make(Table("requirement_embeddings", {"requirements"})
      \cup Items("requirement_embeddings", {"ix_req_embed_req_id", "ix_req_embed_model"})),
    Make(Table("ai_suggestions", {"projects", "requirements", "users"})
      \cup Items("ai_suggestions", {"ix_ai_sugg_project", "ix_ai_sugg_req",
        "ix_ai_sugg_status", "ix_ai_sugg_type"}))>>,
  DropTables(<<"ai_suggestions", "requirement_embeddings">>))

M0006 == Revision(<<
    Make(Table("impact_reports", {"requirements", "users"})
      \cup Items("impact_reports", {"ix_impact_req_date", "ix_impact_risk"}))>>,
  DropTables(<<"impact_reports">>))
-----------------------------------------------------------------------------
(* 0007 - 0009: interfaces *)

HardwareTypes == {"systemtype", "systemstatus", "unittype", "unitstatus", "connectortype",
  "connectorgender", "connectormounting", "shellmaterial", "shellfinish", "contactfinish",
  "signaltype", "pindirection", "pinsize"}
BusTypes == {"busprotocol", "busrole", "bustopology", "busredundancy", "pinbusrole",
  "messagedirection", "messagepriority", "messagescheduling", "fielddatatype", "byteorder"}
WiringTypes == {"wiretype", "wiregauge", "harnessstatus", "cablejacketmaterial",
  "shieldtype", "interfacetype", "interfacedirection", "interfacestatus",
  "interfacecriticality"}
LinkTypes == {"environmentalcategory", "environmentalstandard", "interfaceentitytype",
  "interfacelinktype", "autoreqsource", "autoreqstatus"}
IcdTypes == HardwareTypes \cup BusTypes \cup WiringTypes \cup LinkTypes

UnitTables == <<
  Make(Table("systems", {"systems", "projects", "users", "systemtype", "systemstatus"})
    \cup Items("systems", {"ix_systems_system_id", "ix_system_project_type",
      "ix_system_parent"})),
  Make(Table("units", {"systems", "projects", "unittype", "unitstatus"})
    \cup Items("units", {"ix_units_unit_id", "ix_unit_system", "ix_unit_mfg",
      "uq_unit_designation"}))>>
PinTables == <<
  Make(Table("connectors", {"units", "projects", "connectortype", "connectorgender",
      "connectormounting", "shellmaterial", "shellfinish", "contactfinish"})
    \cup Items("connectors", {"uq_connector_designator"})),
  Make(Table("pins", {"connectors", "signaltype", "pindirection", "pinsize"})
    \cup Items("pins", {"uq_pin_number", "ix_pin_signal_name"}))>>
BusTables == <<
  Make(Table("bus_definitions", {"units", "projects", "busprotocol", "busrole",
    "bustopology", "busredundancy"})),
  Make(Table("pin_bus_assignments", {"pins", "bus_definitions", "pinbusrole"})
    \cup Items("pin_bus_assignments", {"uq_pin_bus_assignment"})),
  Make(Table("message_definitions", {"bus_definitions", "units", "projects",
    "messagedirection", "messagepriority", "messagescheduling"})),
  Make(Table("message_fields", {"message_definitions", "fielddatatype", "byteorder"}))>>
WireTables == <<
  Make(Table("wire_harnesses", {"units", "connectors", "projects", "cablejacketmaterial",
      "shieldtype", "harnessstatus"})
    \cup Items("wire_harnesses", {"uq_harness_connectors"})),
  Make(Table("wires", {"pins", "wire_harnesses", "wiregauge", "wiretype"})
    \cup Items("wires", {"uq_wire_number", "ix_wire_from_pin", "ix_wire_to_pin",
      "ix_wire_signal_name"})),
  Make(Table("interfaces", {"systems", "projects", "users", "interfacetype",
    "interfacedirection", "interfacestatus", "interfacecriticality"}))>>
LinkTables == <<
  Make(Table("unit_environmental_specs", {"units", "environmentalcategory",
      "environmentalstandard"})
    \cup Items("unit_environmental_specs", {"ix_env_spec_unit_cat"})),
  Make(Table("interface_requirement_links", {"requirements", "users",
      "interfaceentitytype", "interfacelinktype", "autoreqsource", "autoreqstatus"})
    \cup Items("interface_requirement_links", {"ix_ifl_entity", "ix_ifl_requirement",
      "ix_ifl_auto_status"})),
  Make(Table("auto_requirement_logs", {"projects", "users"})
    \cup Items("auto_requirement_logs", {"ix_autoreq_project_date"})),
  Make(Table("interface_change_impacts", {"projects", "users"})
    \cup Items("interface_change_impacts", {"ix_ici_project_date", "ix_ici_resolved"}))>>
IcdTables == <<"interface_change_impacts", "auto_requirement_logs",
  "interface_requirement_links", "unit_environmental_specs", "interfaces", "wires",
  "wire_harnesses", "message_fields", "message_definitions", "pin_bus_assignments",
  "bus_definitions", "pins", "connectors", "units", "systems">>
\* Mutant: the enum types stay.
IcdDown_TypesStay == DropTables(IcdTables)
IcdDown == DropTables(IcdTables) \o <<Discard(Rels(IcdTypes))>>
M0007 == [Revision(<<Ensure(Rels(IcdTypes))>> \o UnitTables \o PinTables \o BusTables
                     \o WireTables \o LinkTables, IcdDown)
          EXCEPT !.guarded = TRUE]

\* A duplicate column is caught in Python, but it has failed the transaction.
ApprovalColumn == Items("projects", {"auto_req_approval_required"})
M0007a == Revision(<<
    Make(Table("integration_configs", {"users", "projects"})
      \cup Items("integration_configs", {"ix_intconfig_project",
        "ix_integration_configs_id"})),
    Make(Table("ai_analysis_cache", {"requirements"})
      \cup Items("ai_analysis_cache", {"ix_ai_analysis_cache_id", "ix_ai_cache_req_type"})),
    Make(Table("ai_feedback", {"requirements", "users"})
      \cup Items("ai_feedback", {"ix_ai_feedback_id", "ix_ai_feedback_req",
        "ix_ai_feedback_user"})),
    Make(Table("sync_logs", {"integration_configs", "users"})
      \cup Items("sync_logs", {"ix_sync_logs_id", "ix_synclog_config"})),
    Make(ApprovalColumn)>>,
  <<Discard(ApprovalColumn)>>
    \o DropTables(<<"sync_logs", "ai_feedback", "ai_analysis_cache",
                    "integration_configs">>))

RecordHash == Items("electronic_signatures", {"record_hash"})
M0008 == Revision(<<Ensure(RecordHash)>>, <<Discard(RecordHash)>>)

\* The 50 labels of three types, added outside of the transaction and never
\* dropped.
M0009 == [Revision(<<>>, <<>>) EXCEPT !.labels =
  Items("connectortype", {"pcb_header .. qwiic_stemma_qt"})
  \cup Items("signaltype", {"digital_3v3 .. "})
  \cup Items("pindirection", {"open_collector", "open_drain", "passive"})]
-----------------------------------------------------------------------------
(* 0010 - 0022: integrity *)

AppendOnly == Items("audit_log", {"trg_audit_log_no_update", "trg_audit_log_no_delete",
  "trg_audit_log_no_truncate"})
\* Mutant: triggers are not dropped before they are created.
M0010_Strict == Revision(<<Make(AppendOnly)>>, <<Discard(AppendOnly)>>)
M0010 == Revision(<<Ensure(AppendOnly)>>, <<Discard(AppendOnly)>>)

JobIndexes == Items("report_jobs", {"ix_report_jobs_project_id", "ix_report_jobs_status",
  "ix_report_jobs_requested_by_id", "ix_report_jobs_project_created"})
M0011 == Revision(<<
    Ensure({Rel("reportjobstatus")}),
    Make(Table("report_jobs", {"projects", "users", "reportjobstatus"}) \cup JobIndexes)>>,
  <<Drop(JobIndexes), Drop({Rel("report_jobs")}), Discard({Rel("reportjobstatus")})>>)

PairIndex == Items("trace_links", {"ix_tracelink_pair"})
LinkProject == Fk("trace_links", "project_id", "projects")
LinkUnique == Items("trace_links", {"uq_trace_link_endpoints"})
LinkIndex == Items("trace_links", {"ix_trace_links_project"})
M0012 == Revision(
  <<Make(LinkProject), Make(LinkIndex), Make(LinkUnique), Discard(PairIndex)>>,
  <<Discard(LinkIndex), Drop(LinkUnique), Drop(LinkProject), Make(PairIndex)>>)

HarnessUnique == Items("wire_harnesses", {"uq_harness_connectors"})
M0013 == Revision(<<Discard(HarnessUnique)>>, <<Make(HarnessUnique)>>)

TokenIndexes == Items("step_up_tokens", {"ix_step_up_tokens_user_id",
  "ix_step_up_tokens_user_unconsumed"})
M0014 == Revision(<<Make(Table("step_up_tokens", {"users"}) \cup TokenIndexes)>>,
  <<Drop(TokenIndexes), Drop({Rel("step_up_tokens")})>>)

EscalateRole == Items("workflow_stages", {"auto_escalate_to_role"})
M0015 == Revision(<<Drop(EscalateRole)>>, <<Make(EscalateRole)>>)

M0016 == Revision(<<Make(Table("id_sequences", {"projects"}))>>,
  DropTables(<<"id_sequences">>))

ReqIdIndex == Items("requirements", {"ix_req_project_reqid"})
ReqUnique == Items("requirements", {"uq_req_per_project"})
OwnerIndex == Items("requirements", {"ix_req_project_owner"})
M0017 == Revision(<<Discard(ReqIdIndex), Make(ReqUnique), Ensure(OwnerIndex)>>,
  <<Discard(OwnerIndex), Drop(ReqUnique), Make(ReqIdIndex)>>)

OwnerNullable ==
  Items("projects", {"owner_id null"}) \cup Items("audit_log", {"user_id null"})
OnDelete ==
  Items("projects", {"owner_id on delete"})
  \cup Items("source_artifacts", {"project_id on delete", "created_by_id on delete"})
  \cup Items("verifications", {"requirement_id on delete", "responsible_id on delete"})
  \cup Items("requirement_history", {"requirement_id on delete"})
  \cup Items("audit_log", {"project_id on delete", "user_id on delete"})
M0018 == Revision(<<Ensure(OwnerNullable), Make(OnDelete)>>,
  <<Drop(OnDelete), Discard(OwnerNullable)>>)

DriftIndexes ==
  Items("audit_log", {"ix_audit_entity", "ix_audit_project", "ix_audit_user",
    "ix_audit_seq"})
  \cup Items("electronic_signatures", {"ix_esig_entity"})
  \cup Items("workflow_instances", {"ix_wf_instance_entity"})
M0019 == Revision(<<Ensure(DriftIndexes)>>, <<Discard(DriftIndexes)>>)

RevokedIndexes == Items("revoked_tokens", {"ix_revoked_tokens_jti",
  "ix_revoked_tokens_exp", "ix_revoked_tokens_id"})
M0020 == Revision(<<Make(Table("revoked_tokens", {"users"}) \cup RevokedIndexes)>>,
  <<Drop(RevokedIndexes), Drop({Rel("revoked_tokens")})>>)

NumericFields == Items("message_fields", {"numeric columns"})
M0021 == Revision(<<Ensure(NumericFields)>>, <<Discard(NumericFields)>>)

M0022 == [Revision(<<>>, <<>>) EXCEPT !.labels = Items("busprotocol", {"one_wire"})]
-----------------------------------------------------------------------------
(* 0023 - 0026: catalog, requirement sync, coverage *)

CatalogTypes == {"part_class", "lru_class", "lifecycle_status", "catalog_connector_gender",
  "catalog_signal_type", "catalog_signal_direction", "supplier_document_type",
  "extraction_status", "pending_import_status", "source_entity_type",
  "sync_proposal_type", "sync_proposal_status"}
SupplierIndexes ==
  Items("suppliers", {"ix_suppliers_name", "ix_suppliers_cage_code"})
DocumentIndexes == Items("supplier_documents", {"ix_supplier_documents_supplier_id",
  "ix_supplier_documents_sha256"})
PartIndexes == Items("catalog_parts", {"ix_catalog_parts_supplier_id",
  "ix_catalog_parts_part_number", "ix_catalog_parts_parent_part_id",
  "ix_catalog_part_search", "ix_catalog_part_class_status"})
ParentPart == Fk("catalog_parts", "fk_catalog_parts_parent_part", "catalog_parts")
CatalogTables == <<
  Make(Table("suppliers", {"users"}) \cup SupplierIndexes),
  Make(Table("supplier_documents", {"suppliers", "users", "supplier_document_type",
    "extraction_status"}) \cup DocumentIndexes),
  Make(Table("catalog_parts", {"suppliers", "supplier_documents", "users", "part_class",
    "lru_class", "lifecycle_status"}) \cup PartIndexes),
  Make(ParentPart)>>
ConnectorIndex == Items("catalog_connectors", {"ix_catalog_connector_part"})
PinIndex == Items("catalog_pins", {"ix_catalog_pin_connector"})
ImportIndex == Items("pending_catalog_imports", {"ix_pending_imports_source_document_id"})
ImportGin == Items("pending_catalog_imports", {"ix_pending_imports_extracted_gin"})
CatalogPinTables == <<
  Make(Table("catalog_connectors", {"catalog_parts", "catalog_connector_gender"})
    \cup ConnectorIndex),
  Make(Table("catalog_pins", {"catalog_connectors", "catalog_signal_type",
    "catalog_signal_direction"}) \cup PinIndex),
  Make(Table("pending_catalog_imports", {"supplier_documents", "suppliers",
    "catalog_parts", "users", "pending_import_status"}) \cup ImportIndex \cup ImportGin)>>
SourceIndexes == Items("requirement_source_links", {"ix_req_source_link_entity",
  "ix_req_source_link_req"})
SourceGin == Items("requirement_source_links", {"ix_req_source_link_inputs_gin"})
ProposalIndexes == Items("requirement_sync_proposals", {"ix_req_sync_proposal_status",
  "ix_req_sync_proposal_req"})
CoverageIndexes == Items("coverage_exceptions", {"ix_coverage_exception_project",
  "ix_coverage_exception_req"})
SyncTables == <<
  Make(Table("requirement_source_links", {"requirements", "source_entity_type"})
    \cup SourceIndexes \cup SourceGin),
  Make(Table("requirement_sync_proposals", {"requirements", "users",
    "source_entity_type", "sync_proposal_type", "sync_proposal_status"})
    \cup ProposalIndexes),
  Make(Table("coverage_exceptions", {"projects", "requirements", "users"})
    \cup CoverageIndexes)>>
UnitIndex == Items("units", {"ix_units_catalog_part_id"})
UnitColumns ==
  Fk("units", "catalog_part_id", "catalog_parts")
  \cup Items("units", {"location_zone", "serial_number", "asset_tag"})
PinIndexes == Items("pins", {"ix_pins_catalog_pin_id", "ix_pins_internal_signal_name"})
PinColumns ==
  Fk("pins", "catalog_pin_id", "catalog_pins")
  \cup Fk("pins", "direction_override", "catalog_signal_direction")
  \cup Items("pins", {"mfr_pin_name", "internal_signal_name", "function_override"})
TemplateIndex == Items("requirements", {"ix_requirements_generation_template_id"})
LockColumns ==
  Fk("requirements", "sync_locked_by_id", "users")
  \cup Items("requirements", {"sync_locked", "sync_locked_reason", "sync_locked_at",
    "generation_template_id"})
SyncColumns == <<
  Make(UnitColumns), Make(UnitIndex), Make(PinColumns), Make(PinIndexes),
  Make(LockColumns), Make(TemplateIndex)>>
\* Rows of the old link table are copied into the new one.
SyncBackfill == <<Ensure(Items("requirement_source_links", {"rows of the old links"}))>>
ColumnsDown == <<
  Drop(TemplateIndex), Drop(LockColumns), Drop(PinIndexes), Drop(PinColumns),
  Drop(UnitIndex), Drop(UnitColumns)>>
CatalogDown == <<
  Drop(CoverageIndexes), Drop({Rel("coverage_exceptions")}),
  Drop(ProposalIndexes), Drop({Rel("requirement_sync_proposals")}),
  Discard(SourceGin), Drop(SourceIndexes), Drop({Rel("requirement_source_links")}),
  Discard(ImportGin), Drop(ImportIndex), Drop({Rel("pending_catalog_imports")}),
  Drop(PinIndex), Drop({Rel("catalog_pins")}),
  Drop(ConnectorIndex), Drop({Rel("catalog_connectors")}),
  Drop(ParentPart), Drop(PartIndexes), Drop({Rel("catalog_parts")}),
  Drop(DocumentIndexes), Drop({Rel("supplier_documents")}),
  Drop(SupplierIndexes), Drop({Rel("suppliers")}),
  Discard(Rels(CatalogTypes))>>
M0023 == Revision(<<Ensure(Rels(CatalogTypes))>> \o CatalogTables \o CatalogPinTables
                    \o SyncTables \o SyncColumns \o SyncBackfill,
                  ColumnsDown \o CatalogDown)

EndUnits == Fk("interfaces", "source_unit_id", "units")
  \cup Fk("interfaces", "target_unit_id", "units")
EndIndexes == Items("interfaces", {"ix_interfaces_source_unit",
  "ix_interfaces_target_unit"})
M0024 == Revision(<<Make(EndUnits), Make(EndIndexes)>>,
  <<Drop(EndIndexes), Drop(EndUnits)>>)

CoverageView == Table("mv_requirement_source_coverage", {"requirements", "trace_links",
  "requirement_source_links", "coverage_exceptions"})
M0025 ==
  LET ViewIndexes == Items("mv_requirement_source_coverage", {"uq_mv_coverage_req",
        "ix_mv_coverage_project", "ix_mv_coverage_severity"})
  IN  Revision(<<Make(CoverageView), Make(ViewIndexes)>>,
        <<Discard({Rel("mv_requirement_source_coverage")})>>)

Cascade == Items("requirements", {"project_id on delete"})
  \cup Items("baselines", {"project_id on delete"})
M0026 == Revision(<<Make(Cascade)>>, <<Drop(Cascade)>>)
-----------------------------------------------------------------------------
(* 0027 - 0031: parts library, bills of material *)

LibraryTypes == {"part_type", "part_status", "material_class", "thread_standard",
  "head_type", "drive_type", "locking_feature", "qualification_status",
  "pending_parts_status", "confidence_level", "joint_type", "joint_status",
  "assembly_parse_job_status"}
FileIndexes == Items("documents", {"ix_documents_id", "ix_documents_sha256"})
FileTables == <<
  Make(Table("documents", {"users"}) \cup FileIndexes),
  Make(Table("wpn_sequences", {}) \cup Items("wpn_sequences", {"one row per type"}))>>
LibraryIndexes == Items("library_parts", {"ix_library_parts_id",
  "ix_library_part_type_status", "ix_library_part_step_checksum", "ix_library_part_mpn",
  "ix_library_parts_part_type", "ix_library_parts_status",
  "ix_library_parts_preferred_supplier_id"})
LibraryIdentity == Table("library_parts", {"library_parts", "suppliers", "documents",
  "users", "part_type", "part_status"})
LibraryMaterial == Table("library_parts", {"material_class", "thread_standard",
  "head_type", "drive_type", "locking_feature", "qualification_status"})
ReviewIndexes == Items("pending_parts_imports", {"ix_pending_parts_imports_id",
  "ix_pending_parts_imports_document_id", "ix_pending_parts_imports_status"})
LineIndexes == Items("project_parts", {"ix_project_parts_id", "ix_project_parts_project",
  "ix_project_parts_library"})
LineUnique == Items("project_parts", {"uq_project_part"})
LineTables == <<
  Make(Table("pending_parts_imports", {"documents", "users", "library_parts",
    "pending_parts_status"}) \cup ReviewIndexes),
  Make(Table("project_parts", {"projects", "library_parts", "users"}) \cup LineIndexes
    \cup LineUnique)>>
AssignIndexes == Items("system_part_assignments", {"ix_system_part_assignments_id",
  "ix_spa_system", "ix_spa_ppart"})
JobsIndexes == Items("assembly_parse_jobs", {"ix_assembly_parse_jobs_id",
  "ix_apj_project", "ix_apj_status"})
AssignTables == <<
  Make(Table("system_part_assignments", {"systems", "project_parts", "users"})
    \cup AssignIndexes),
  Make(Table("mechanical_joint_sequences", {})),
  Make(Table("assembly_parse_jobs", {"projects", "documents", "users",
    "assembly_parse_job_status"}) \cup JobsIndexes)>>
JointIndexes == Items("mechanical_joints", {"ix_mechanical_joints_id",
  "ix_mj_project_status", "ix_mj_parts", "ix_mj_joint_id", "ix_mechanical_joints_part_a",
  "ix_mechanical_joints_part_b", "ix_mechanical_joints_project_id",
  "ix_mechanical_joints_status"})
JointTable == Make(Table("mechanical_joints", {"projects", "project_parts",
    "library_parts", "documents", "users", "joint_type", "locking_feature",
    "confidence_level", "joint_status"})
  \cup JointIndexes)
LibraryUnit == Fk("units", "library_part_id", "library_parts")
\* Inside the transaction: nothing uses the label before it is committed.
JointLabel == Items("source_entity_type", {"mechanical_joint"})
LibraryDown == <<
  Drop(LibraryUnit),
  Drop(JointIndexes), Drop({Rel("mechanical_joints")}),
  Drop(JobsIndexes), Drop({Rel("assembly_parse_jobs")}),
  Drop({Rel("mechanical_joint_sequences")}),
  Drop(AssignIndexes), Drop({Rel("system_part_assignments")}),
  Drop(LineIndexes), Drop({Rel("project_parts")}),
  Drop(ReviewIndexes), Drop({Rel("pending_parts_imports")}),
  Drop(LibraryIndexes), Drop({Rel("library_parts")}),
  Drop({Rel("wpn_sequences")}),
  Drop(FileIndexes), Drop({Rel("documents")}),
  Discard(Rels(LibraryTypes))>>
M0027 == Revision(
  <<Ensure(Rels(LibraryTypes)), Ensure(JointLabel)>> \o FileTables
    \o <<Make(LibraryIdentity \cup LibraryMaterial \cup LibraryIndexes)>>
    \o LineTables \o AssignTables \o <<JointTable, Make(LibraryUnit)>>,
  LibraryDown)

ArtifactColumn == Fk("requirements", "source_artifact_id", "source_artifacts")
ArtifactIndex == Items("requirements", {"ix_requirements_source_artifact_id"})
LevelZero == Items("requirementlevel", {"L0"})
M0028 == [Revision(<<Ensure(ArtifactColumn), Ensure(ArtifactIndex)>>,
                   <<Drop(ArtifactIndex), Drop(ArtifactColumn)>>)
          EXCEPT !.labels = LevelZero]

InHouse == Items("suppliers", {"is_in_house"})
Aliases == Table("supplier_aliases", {"suppliers"})
AliasIndex == Items("supplier_aliases", {"ix_supplier_aliases_supplier"})
CadColumns == Items("catalog_parts", {"part_subtype", "material_name", "material_class",
  "bbox_x_mm", "bbox_y_mm", "bbox_z_mm", "volume_mm3", "cad_step_path",
  "cad_preview_path", "cad_authoring_tool", "native_units", "deleted_at"})
CadIndexes == Items("catalog_parts", {"ix_catalog_parts_material_class",
  "ix_catalog_parts_part_subtype", "ix_catalog_parts_deleted_at"})
StepClasses == Items("part_class", {"fastener_screw", "fastener_bolt", "nut", "washer",
  "bracket", "housing", "enclosure", "seal_o_ring", "bearing", "spring",
  "structural_member", "mechanical_other"})
\* Where the login that owns it exists.
Wardstone == Items("suppliers", {"row of Wardstone"})
  \cup Items("supplier_aliases", {"rows of Wardstone"})
\* The one revision that changes more than labels before its autocommit block:
\* a run that ends there has committed half of it.
M0029 == [Revision(<<Ensure(CadColumns), Ensure(CadIndexes), Ensure(Wardstone)>>,
    <<Discard(CadIndexes), Discard(CadColumns), Discard(AliasIndex),
      Discard({Rel("supplier_aliases")}), Discard(Wardstone), Discard(InHouse)>>)
  EXCEPT !.first = <<Ensure(InHouse), Ensure(Aliases), Ensure(AliasIndex)>>,
         !.labels = StepClasses]

BomColumns ==
  Fk("project_parts", "catalog_part_id", "catalog_parts")
  \cup Fk("project_parts", "parent_bom_id", "project_parts")
  \cup Fk("project_parts", "status", "bom_status")
  \cup Fk("project_parts", "unit_id", "units")
  \cup Items("project_parts", {"bom_position", "quantity_unit", "location_zone",
    "installation_notes", "procurement_notes", "updated_at"})
WideColumns == Items("project_parts", {"fractional quantity, wide designation"})
BomIndexes == Items("project_parts", {"uq_project_parts_bom_position",
  "ix_project_parts_catalog_part", "ix_project_parts_parent_bom",
  "ix_project_parts_unit", "ix_project_parts_status"})
M0030 == Revision(
  <<Make({Rel("bom_status")}), Ensure(BomColumns), Ensure(WideColumns),
    Discard(LineUnique), Ensure(BomIndexes)>>,
  <<Discard(BomIndexes), Make(LineUnique), Discard(WideColumns), Discard(BomColumns),
    Discard({Rel("bom_status")})>>)

LibraryNullable == Items("project_parts", {"library_part_id null"})
M0031 == Revision(<<Ensure(LibraryNullable)>>, <<Discard(LibraryNullable)>>)
-----------------------------------------------------------------------------
(* 0032 - 0043: HAROLD and CADPORT *)

SystemCode == Items("systems", {"system_code_2letter"})
SystemCodeIndex == Items("systems", {"ix_systems_code_2letter"})
M0032 == Revision(<<Ensure(SystemCode), Ensure(SystemCodeIndex)>>,
  <<Discard(SystemCodeIndex), Discard(SystemCode)>>)

Wpn == Items("catalog_parts", {"internal_part_number", "ix_catalog_parts_internal_wpn"})
PendingSync == Items("catalog_parts", {"wpn_pending_sync",
  "ix_catalog_parts_pending_sync"})
Fallback == Table("catalog_wpn_fallback_sequences", {})
  \cup Items("catalog_wpn_fallback_sequences", {"one row per code"})
M0033 == Revision(<<Ensure(Wpn), Ensure(PendingSync), Ensure(Fallback)>>,
  <<Discard({Rel("catalog_wpn_fallback_sequences")}), Discard(PendingSync),
    Discard(Wpn)>>)

Filename == Items("supplier_documents", {"original_filename"})
FilenameIndex == Items("supplier_documents", {"ix_supplier_documents_original_filename"})
M0034 == Revision(<<Ensure(Filename), Ensure(FilenameIndex)>>,
  <<Discard(FilenameIndex), Discard(Filename)>>)

HarnessColumns == Items("wire_harnesses", {"shielding_class", "sleeve_type",
  "operating_temp_min_c", "operating_temp_max_c", "min_bend_radius_mm",
  "weight_g_per_m", "drain_wire_spec", "service_loop_m", "mil_spec"})
Connections == Table("connections", {"projects", "units"})
ConnectionIndexes == Items("connections", {"ix_connections_project",
  "ix_connections_lru_a", "ix_connections_lru_b"})
Endpoints == Table("harness_endpoints", {"wire_harnesses", "connectors"})
EndpointIndexes == Items("harness_endpoints", {"ix_harness_endpoints_harness",
  "ix_harness_endpoints_lru", "ix_harness_endpoints_mating"})
M0035 == Revision(
  <<Ensure(HarnessColumns), Ensure(Connections), Ensure(ConnectionIndexes),
    Ensure(Endpoints), Ensure(EndpointIndexes)>>,
  <<Discard({Rel("harness_endpoints")}), Discard({Rel("connections")}),
    Discard(HarnessColumns)>>)

Physics == Items("catalog_parts", {"volume_m3", "surface_area_m2", "density_kg_m3",
  "center_of_mass_x", "center_of_mass_y", "center_of_mass_z", "ixx", "iyy", "izz",
  "ixy", "ixz", "iyz"})
CadportId == Items("catalog_parts", {"cadport_part_id",
  "ix_catalog_parts_cadport_part_id"})
ContentHash == Items("catalog_parts", {"content_hash", "ix_catalog_parts_content_hash"})
Assemblies == Table("cadport_assemblies", {"projects", "supplier_documents"})
  \cup Items("cadport_assemblies", {"ix_cadport_assemblies_project_id",
    "ix_cadport_assemblies_content_hash"})
AssemblyRows == Table("cadport_assembly_components", {"cadport_assemblies",
    "catalog_parts"})
  \cup Items("cadport_assembly_components", {"ix_cadport_assembly_components_assembly_id",
    "ix_cadport_assembly_components_catalog_part_id"})
M0036 == [Revision(<<Ensure(Assemblies), Ensure(AssemblyRows)>>,
    <<Discard({Rel("cadport_assembly_components")}), Discard({Rel("cadport_assemblies")}),
      Discard(ContentHash), Discard(CadportId), Discard(Physics)>>)
  EXCEPT !.first = <<Ensure(Physics), Ensure(CadportId), Ensure(ContentHash)>>,
         !.labels = Items("supplier_document_type", {"yaml"})]

AssemblyInertia == Items("cadport_assemblies", {"ixx", "iyy", "izz", "ixy", "ixz", "iyz"})
M0037 == Revision(<<Ensure(AssemblyInertia)>>, <<Discard(AssemblyInertia)>>)

StlColumn == Items("catalog_parts", {"stl_document_id"})
StlKey == Fk("catalog_parts", "fk_catalog_parts_stl_document_id", "supplier_documents")
M0038 == [Revision(<<Ensure(StlColumn), Ensure(StlKey)>>,
                   <<Discard(StlKey), Discard(StlColumn)>>)
          EXCEPT !.labels = Items("supplier_document_type", {"stl"})]

ScheduleLinks == Table("schedule_project_links", {"projects"})
  \cup Items("schedule_project_links", {"ix_schedule_project_links_program_code"})
M0039 == Revision(<<Ensure(ScheduleLinks)>>,
  <<Discard({Rel("schedule_project_links")})>>)

Provenance == Items("catalog_parts", {"source_format", "step_material_key",
    "mass_source", "inertia_revised_via_uniform_scaling"})
  \cup Items("cadport_assemblies", {"inertia_revised_via_uniform_scaling"})
M0040 == Revision(<<Ensure(Provenance)>>, <<Discard(Provenance)>>)

\* The downgrade leaves supplier_id nullable.
SupplierNullable == Items("pending_catalog_imports", {"supplier_id null"})
Bridge == Items("pending_catalog_imports", {"proposed_supplier_name", "source_kind"})
M0041 == Revision(<<Ensure(SupplierNullable), Ensure(Bridge)>>, <<Discard(Bridge)>>)

SourceColumns == Items("catalog_parts", {"sldprt_document_id", "sldasm_document_id",
  "step_document_id"})
SourceKeys == UNION {Fk("catalog_parts", n, "supplier_documents") :
  n \in {"fk_catalog_parts_sldprt_document_id", "fk_catalog_parts_sldasm_document_id",
         "fk_catalog_parts_step_document_id"}}
M0042 == [Revision(<<Ensure(SourceColumns), Make(SourceKeys)>>,
                   <<Discard(SourceKeys), Discard(SourceColumns)>>)
          EXCEPT !.labels = Items("supplier_document_type", {"sldprt", "sldasm", "step"})]

SyncOrigin == Items("catalog_parts", {"last_sync_origin", "last_sync_at"})
M0043 == Revision(<<Ensure(SyncOrigin)>>, <<Discard(SyncOrigin)>>)
-----------------------------------------------------------------------------
(* 0044 - 0049: engineering *)

Frames == Table("frame_icds", {"users"}) \cup Items("frame_icds", {"ix_frame_icds_key"})
FrameRevisions == Table("frame_icd_revisions", {"frame_icds", "users"})
  \cup Items("frame_icd_revisions", {"ix_frame_icd_revisions_frame_icd_id"})
M0044 == Revision(<<Ensure(Frames), Ensure(FrameRevisions)>>,
  <<Discard({Rel("frame_icd_revisions")}), Discard({Rel("frame_icds")})>>)

Motors == Table("motors", {"catalog_parts", "users"})
  \cup Items("motors", {"ix_motors_wpn", "ix_motors_base_index", "ix_motors_name"})
MotorRevisions == Table("motor_revisions", {"motors", "users"})
  \cup Items("motor_revisions", {"ix_motor_revisions_motor", "ix_motor_revisions_wpn"})
ActiveMotor == Fk("motors", "fk_motors_active_revision", "motor_revisions")
M0045 == Revision(<<Ensure(Motors), Ensure(MotorRevisions), Make(ActiveMotor)>>,
  <<Discard(ActiveMotor), Discard({Rel("motor_revisions")}), Discard({Rel("motors")})>>)

Decks == Table("aero_decks", {"users"}) \cup Items("aero_decks", {"ix_aero_decks_wpn"})
DeckRevisions == Table("aero_deck_revisions", {"aero_decks", "users"})
  \cup Items("aero_deck_revisions", {"ix_aero_deck_revisions_aero_deck_id",
    "ix_aero_deck_revisions_wpn"})
ActiveDeck == Fk("aero_decks", "fk_aero_decks_active_revision_id", "aero_deck_revisions")
M0046 == Revision(<<Ensure(Decks), Ensure(DeckRevisions), Ensure(ActiveDeck)>>,
  <<Discard(ActiveDeck), Discard({Rel("aero_deck_revisions")}),
    Discard({Rel("aero_decks")})>>)

Configs == Table("vehicle_configs", {"users"})
  \cup Items("vehicle_configs", {"ix_vehicle_configs_wpn", "ix_vehicle_configs_base_index",
    "ix_vehicle_configs_name"})
ConfigRevisions == Table("vehicle_config_revisions", {"vehicle_configs", "frame_icds",
    "baselines", "users"})
  \cup Items("vehicle_config_revisions", {"ix_vehicle_config_revisions_config",
    "ix_vehicle_config_revisions_wpn"})
ActiveConfig ==
  Fk("vehicle_configs", "fk_vehicle_configs_active_revision", "vehicle_config_revisions")
M0047 == Revision(<<Ensure(Configs), Ensure(ConfigRevisions), Ensure(ActiveConfig)>>,
  <<Discard(ActiveConfig), Discard({Rel("vehicle_config_revisions")}),
    Discard({Rel("vehicle_configs")})>>)

Bundles == Table("config_bundle_exports", {"vehicle_config_revisions", "users"})
  \cup Items("config_bundle_exports", {"ix_config_bundle_exports_revision",
    "ix_config_bundle_exports_config_wpn", "ix_config_bundle_exports_bundle_hash"})
M0048 == Revision(<<Ensure(Bundles)>>, <<Discard({Rel("config_bundle_exports")})>>)

RoleColumn == Items("catalog_parts", {"role"})
M0049 == Revision(<<Ensure(RoleColumn)>>, <<Discard(RoleColumn)>>)

Chain == <<M0001, M0002, M0005, M0006, M0007, M0007a, M0008, M0009, M0010, M0011, M0012,
  M0013, M0014, M0015, M0016, M0017, M0018, M0019, M0020, M0021, M0022, M0023, M0024,
  M0025, M0026, M0027, M0028, M0029, M0030, M0031, M0032, M0033, M0034, M0035, M0036,
  M0037, M0038, M0039, M0040, M0041, M0042, M0043, M0044, M0045, M0046, M0047, M0048,
  M0049>>
=============================================================================
