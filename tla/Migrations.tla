----------------------------- MODULE Migrations -----------------------------
(***************************************************************************)
(* The fourteen alembic revisions of backend/alembic/versions, as what each *)
(* does to the schema.  A table is the set of its columns, each with TRUE   *)
(* when an INSERT must name it: NOT NULL without a server default.  The     *)
(* database is the tables, the built-in roles and alembic's version.        *)
(***************************************************************************)
EXTENDS Integers, Sequences, FiniteSets

Newest == 14

\* The service "app", the database and, behind them, what the scripts share.
VARIABLES app, db

Table(needed, others) == [c \in needed \cup others |-> c \in needed]
Stamps == {"created_at", "updated_at"}

\* All of f, and what only g has.
Plus(f, g) == [k \in DOMAIN f \cup DOMAIN g |-> IF k \in DOMAIN f THEN f[k] ELSE g[k]]
AddColumns(ts, t, columns) == [ts EXCEPT ![t] = Plus(columns, @)]
Without(f, keys) == [k \in DOMAIN f \ keys |-> f[k]]
DropColumns(ts, t, columns) == [ts EXCEPT ![t] = Without(@, columns)]

-----------------------------------------------------------------------------
AccountTables ==
  [roles |-> Table({"name"}, {"id", "description", "is_builtin"} \cup Stamps),
   users |-> Table({"email", "password_hash"},
     {"id", "display_name", "role_id", "is_admin", "is_active"} \cup Stamps),
   signup_requests |-> Table({"email", "use_case"},
     {"id", "status", "requested_role", "role_id", "invite_token",
      "invite_expires_at", "admin_note"} \cup Stamps),
   setup_tokens |-> Table({"user_id", "token", "purpose", "expires_at"},
     {"id", "used_at", "created_at"})]

ChatTables ==
  [conversations |-> Table({"user_id"},
     {"id", "title", "status", "model_key", "system_prompt", "total_input_tokens",
      "total_output_tokens", "message_count", "total_cost_usd",
      "total_markup_cost_usd", "summary", "starred"} \cup Stamps),
   messages |-> Table({"conversation_id", "role", "sequence"},
     {"id", "content", "tool_use_id", "tool_name", "tool_input", "is_tool_result",
      "input_tokens", "output_tokens", "model_used", "stop_reason", "latency_ms",
      "metadata", "input_rate_usd_per_mtok", "output_rate_usd_per_mtok",
      "input_cost_usd", "output_cost_usd", "markup_rate", "markup_cost_usd",
      "created_at"}),
   tool_calls |-> Table({"conversation_id", "tool_name"},
     {"id", "message_id", "tool_use_id", "tool_input", "tool_output", "status",
      "error_message", "started_at", "completed_at", "duration_ms", "agent_turn",
      "call_order", "created_at"})]

ExperimentTables ==
  [experiments |-> Table({"user_id"},
     {"id", "name", "status", "design_type", "factors", "design_data", "results_data",
      "evaluation_data", "conversation_id"} \cup Stamps),
   experiment_shares |-> Table({"experiment_id", "token"},
     {"id", "created_by", "allow_results", "expires_at", "revoked_at", "view_count"}
       \cup Stamps)]

ToolUsage ==
  [tool_usage |-> Table({"user_id", "day"}, {"id", "cpu_seconds_used", "call_count"} \cup Stamps)]

SeededRoles ==
  {"chemical_engineer", "pharmaceutical_scientist", "food_scientist",
   "academic_researcher", "quality_engineer", "data_scientist", "student"}

InitialTables == Plus(Plus(AccountTables, ChatTables), Plus(ExperimentTables, ToolUsage))
UpInitial(ts) == Plus(ts, InitialTables)
DownInitial(ts) ==
  Without(ts, {"tool_usage", "experiment_shares", "experiments", "tool_calls", "messages",
               "conversations", "setup_tokens", "signup_requests", "users", "roles"})

AdminEvents ==
  [admin_events |-> Table({"event_type", "status", "source"},
     {"id", "actor", "message", "error_message", "payload", "started_at",
      "completed_at", "duration_ms"} \cup Stamps)]
UpAdminEvents(ts) == Plus(ts, AdminEvents)
DownAdminEvents(ts) == Without(ts, {"admin_events"})

ChatEvents ==
  [chat_events |-> Table({"conversation_id", "turn_id", "sequence", "event_type"},
     {"id", "data", "created_at"})]
UpChatEvents(ts) == Plus(ts, ChatEvents)
DownChatEvents(ts) == Without(ts, {"chat_events"})

UpToolCallTelemetry(ts) ==
  AddColumns(ts, "tool_calls", Table({}, {"turn_id", "model_key", "rss_bytes",
    "cpu_percent", "input_bytes", "output_bytes", "output_truncated", "tool_version"}))
DownToolCallTelemetry(ts) ==
  DropColumns(ts, "tool_calls", {"tool_version", "output_truncated", "output_bytes",
    "input_bytes", "cpu_percent", "rss_bytes", "model_key", "turn_id"})

\* A mutant: the new column is NOT NULL and has no server default.
DisclaimersRequired(ts) ==
  AddColumns(ts, "signup_requests",
    Table({"accepted_disclaimers"}, {"disclaimers_accepted_at"}))
UpSignupDisclaimers(ts) ==
  AddColumns(ts, "signup_requests",
    Table({}, {"accepted_disclaimers", "disclaimers_accepted_at"}))
DownSignupDisclaimers(ts) ==
  DropColumns(ts, "signup_requests", {"disclaimers_accepted_at", "accepted_disclaimers"})

UserFeedback ==
  [user_feedback |-> Table({"user_id", "topic", "message"},
     {"id", "page_url", "user_agent", "viewport", "app_version", "screenshot_png",
      "screenshot_mime", "replied_at", "replied_by_user_id", "reply_body", "created_at"})]
UpUserFeedback(ts) == Plus(ts, UserFeedback)
DownUserFeedback(ts) == Without(ts, {"user_feedback"})

UserBalances ==
  [user_balances |-> Table({"user_id"}, {"balance_usd", "balance_tokens"} \cup Stamps)]
UpActivityBalance(ts) ==
  Plus(AddColumns(ts, "users",
         Table({}, {"last_login_at", "last_login_ip", "country", "timezone"})),
       UserBalances)
\* A mutant: one of the four columns stays.
TimezoneStays(ts) ==
  DropColumns(Without(ts, {"user_balances"}), "users",
    {"country", "last_login_ip", "last_login_at"})
DownActivityBalance(ts) ==
  DropColumns(Without(ts, {"user_balances"}), "users",
    {"timezone", "country", "last_login_ip", "last_login_at"})

SimulatorTable ==
  [simulators |-> Table({"sim_id", "user_id", "private_state"},
     {"id", "conversation_id", "public_summary", "reveal_request_count"} \cup Stamps)]
UpSimulators(ts) == Plus(ts, SimulatorTable)
DownSimulators(ts) == Without(ts, {"simulators"})

SessionTable ==
  [sessions |-> Table({"id", "user_id", "family_id", "idle_expires_at", "absolute_expires_at"},
     {"public_id", "created_at", "last_used_at", "revoked_at", "user_agent", "ip"})]
UpSessions(ts) == Plus(ts, SessionTable)
DownSessions(ts) == Without(ts, {"sessions"})

CredentialsHistory ==
  [byok_credentials_history |-> Table({"action", "status_after"},
     {"id", "user_id", "last_verified_at", "started_at", "ended_at", "created_at"})]
UpByok(ts) ==
  LET users == AddColumns(ts, "users", Table({}, {"byok_token_ciphertext", "byok_dek_wrapped",
        "byok_kek_salt", "byok_kdf_params", "byok_token_last_verified_at", "byok_token_status"}))
      sessions == AddColumns(users, "sessions",
        Table({}, {"byok_session_key_encrypted", "byok_dek_session_wrapped"}))
  IN  Plus(AddColumns(sessions, "messages", Table({}, {"byok_used"})), CredentialsHistory)
DownByok(ts) ==
  LET messages == DropColumns(Without(ts, {"byok_credentials_history"}), "messages", {"byok_used"})
      sessions == DropColumns(messages, "sessions",
        {"byok_dek_session_wrapped", "byok_session_key_encrypted"})
  IN  DropColumns(sessions, "users", {"byok_token_status", "byok_token_last_verified_at",
        "byok_kdf_params", "byok_kek_salt", "byok_dek_wrapped", "byok_token_ciphertext"})

UpDropByok(ts) == DownByok(ts)
DownDropByok(ts) == UpByok(ts)

UpDropToolUsage(ts) == Without(ts, {"tool_usage"})
DownDropToolUsage(ts) ==
  Plus(ts, [tool_usage |-> Table({"user_id", "day"},
              {"id", "cpu_seconds_used", "call_count"} \cup Stamps)])

UpDropUserBalances(ts) == Without(ts, {"user_balances"})
DownDropUserBalances(ts) ==
  Plus(ts, [user_balances |-> Table({"user_id"}, {"balance_usd", "balance_tokens"} \cup Stamps)])

-----------------------------------------------------------------------------
\* One revision up; 0010 only deletes a built-in role.
TablesUp(r, ts) ==
  CASE r = 1  -> UpInitial(ts)
    [] r = 2  -> UpAdminEvents(ts)
    [] r = 3  -> UpChatEvents(ts)
    [] r = 4  -> UpToolCallTelemetry(ts)
    [] r = 5  -> UpSignupDisclaimers(ts)
    [] r = 6  -> UpUserFeedback(ts)
    [] r = 7  -> UpActivityBalance(ts)
    [] r = 8  -> UpSimulators(ts)
    [] r = 9  -> UpSessions(ts)
    [] r = 10 -> ts
    [] r = 11 -> UpByok(ts)
    [] r = 12 -> UpDropByok(ts)
    [] r = 13 -> UpDropToolUsage(ts)
    [] r = 14 -> UpDropUserBalances(ts)

\* One revision down, from r to r - 1.
TablesDown(r, ts) ==
  CASE r = 1  -> DownInitial(ts)
    [] r = 2  -> DownAdminEvents(ts)
    [] r = 3  -> DownChatEvents(ts)
    [] r = 4  -> DownToolCallTelemetry(ts)
    [] r = 5  -> DownSignupDisclaimers(ts)
    [] r = 6  -> DownUserFeedback(ts)
    [] r = 7  -> DownActivityBalance(ts)
    [] r = 8  -> DownSimulators(ts)
    [] r = 9  -> DownSessions(ts)
    [] r = 10 -> ts
    [] r = 11 -> DownByok(ts)
    [] r = 12 -> DownDropByok(ts)
    [] r = 13 -> DownDropToolUsage(ts)
    [] r = 14 -> DownDropUserBalances(ts)

RolesUp(r, roles) ==
  CASE r = 1  -> SeededRoles
    [] r = 10 -> roles \ {"other"}
    [] OTHER  -> roles
RolesDown(r, roles) ==
  CASE r = 1  -> {}
    [] r = 10 -> roles \cup {"other"}
    [] OTHER  -> roles

Empty == [tables |-> << >>, roles |-> {}, rev |-> 0]

UpOne(d) ==
  LET r == d.rev + 1
  IN  [tables |-> TablesUp(r, d.tables), roles |-> RolesUp(r, d.roles), rev |-> r]
DownOne(d) ==
  [tables |-> TablesDown(d.rev, d.tables), roles |-> RolesDown(d.rev, d.roles),
   rev |-> d.rev - 1]

\* `alembic upgrade head` in an image whose newest revision is head: all the
\* missing revisions in one transaction.
UpgradeHead(d, head) ==
  LET from == d.rev
      after[r \in from..head] == IF r = from THEN d ELSE UpOne(after[r - 1])
  IN  after[head]

\* The revisions that drop what an older colour reads: they ship with both
\* colours down, all others may run while the older code serves.
Contract == {12, 13, 14}
ExpandOnly(from, to) == \A r \in Contract : r <= from \/ r > to

SchemaAt == [r \in 0..Newest |-> UpgradeHead(Empty, r)]

-----------------------------------------------------------------------------
\* The columns that the models of this release map, by table.
UserColumns ==
  {"id", "email", "password_hash", "display_name", "role_id", "is_admin",
   "is_active", "last_login_at", "last_login_ip", "country", "timezone"} \cup Stamps
RoleColumns == {"id", "name", "description", "is_builtin"} \cup Stamps
SignupColumns ==
  {"id", "email", "use_case", "status", "requested_role", "role_id",
   "invite_token", "invite_expires_at", "admin_note", "accepted_disclaimers",
   "disclaimers_accepted_at"} \cup Stamps
SetupTokenColumns ==
  {"id", "user_id", "token", "purpose", "expires_at", "used_at", "created_at"}
ConversationColumns ==
  {"id", "user_id", "title", "status", "model_key", "system_prompt",
   "total_input_tokens", "total_output_tokens", "message_count", "total_cost_usd",
   "total_markup_cost_usd", "summary", "starred"} \cup Stamps
MessageColumns ==
  {"id", "conversation_id", "role", "content", "sequence", "tool_use_id",
   "tool_name", "tool_input", "is_tool_result", "input_tokens", "output_tokens",
   "model_used", "stop_reason", "latency_ms", "metadata", "input_rate_usd_per_mtok",
   "output_rate_usd_per_mtok", "input_cost_usd", "output_cost_usd", "markup_rate",
   "markup_cost_usd", "created_at"}
ToolCallColumns ==
  {"id", "conversation_id", "message_id", "tool_use_id", "tool_name",
   "tool_input", "tool_output", "status", "error_message", "started_at", "completed_at",
   "duration_ms", "agent_turn", "call_order", "turn_id", "model_key", "rss_bytes",
   "cpu_percent", "input_bytes", "output_bytes", "output_truncated", "tool_version",
   "created_at"}
ChatEventColumns ==
  {"id", "conversation_id", "turn_id", "sequence", "event_type", "data",
   "created_at"}
ExperimentColumns ==
  {"id", "user_id", "name", "status", "design_type", "factors",
   "design_data", "results_data", "evaluation_data", "conversation_id"} \cup Stamps
ShareColumns ==
  {"id", "experiment_id", "token", "created_by", "allow_results",
   "expires_at", "revoked_at", "view_count"} \cup Stamps
SimulatorColumns ==
  {"id", "sim_id", "user_id", "conversation_id", "public_summary",
   "private_state", "reveal_request_count"} \cup Stamps
SessionColumns ==
  {"id", "public_id", "user_id", "family_id", "created_at", "last_used_at",
   "idle_expires_at", "absolute_expires_at", "revoked_at", "user_agent", "ip"}
FeedbackColumns ==
  {"id", "user_id", "topic", "message", "page_url", "user_agent",
   "viewport", "app_version", "screenshot_png", "screenshot_mime", "replied_at",
   "replied_by_user_id", "reply_body", "created_at"}
EventColumns ==
  {"id", "event_type", "status", "source", "actor", "message",
   "error_message", "payload", "started_at", "completed_at", "duration_ms"} \cup Stamps

Models ==
  [users |-> UserColumns, roles |-> RoleColumns,
   signup_requests |-> SignupColumns, setup_tokens |-> SetupTokenColumns,
   conversations |-> ConversationColumns, messages |-> MessageColumns,
   tool_calls |-> ToolCallColumns, chat_events |-> ChatEventColumns,
   experiments |-> ExperimentColumns, experiment_shares |-> ShareColumns,
   simulators |-> SimulatorColumns, sessions |-> SessionColumns,
   user_feedback |-> FeedbackColumns, admin_events |-> EventColumns]

\* The code of an older release mapped the schema of its own newest revision.
Mapped(release) ==
  IF release = Newest THEN Models
  ELSE [t \in DOMAIN SchemaAt[release].tables |-> DOMAIN SchemaAt[release].tables[t]]

\* The code of a release works on a schema: what it selects is there, and
\* what its INSERTs leave out may be left out.
Works(release, d) ==
  LET mapped == Mapped(release)
  IN  \A t \in DOMAIN mapped :
        /\ t \in DOMAIN d.tables
        /\ mapped[t] \subseteq DOMAIN d.tables[t]
        /\ \A c \in DOMAIN d.tables[t] \ mapped[t] : ~d.tables[t][c]

=============================================================================
