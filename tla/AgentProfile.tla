--------------------------- MODULE AgentProfile ---------------------------
(***************************************************************************)
(* From an agent profile on disk to what a host of it can do               *)
(* (kim-agent-host: profile.rs, capability/, skills.rs, codex_inject.rs).  *)
(*                                                                         *)
(* A profile lists capabilities, or, when it lists none, the older tool    *)
(* flags and extensions they are derived from. The enabled capabilities    *)
(* become parts; the parts say which tools the app runs, which tools the   *)
(* machine runs, and the default permission of each. The same tools are    *)
(* named a second time by the projected tool set, which is what a yield is *)
(* looked up in, and a third time by the Codex injection.                  *)
(***************************************************************************)
EXTENDS Naturals, Sequences, FiniteSets, SequencesExt, Functions

CONSTANTS
    Profiles,       \* profiles on disk, see ProfileShape
    McpNames,       \* tool names with "__" in them
    BundledSkills   \* ids of the app skills that ship with the binary

ImTools == <<"send_message", "search_contacts", "search_messages",
             "get_conversation_context", "read_clipboard", "list_profiles">>
Flags == ToSet(ImTools) \cup {"fs", "fs_write", "bash", "subagent"}
Policies == {"AlwaysAllow", "AskBefore", "NeverAllow"}
Modes == {"Auto", "SmartApprove", "Approve", "Chat"}

(* on: enabled; writable: of fs; name and ok: of mcp, ok when its transport *)
(* and command pass the check of McpBlock.                                  *)
Cap(kind, on, writable, name, ok) ==
    [kind |-> kind, on |-> on, writable |-> writable, name |-> name, ok |-> ok]

ASSUME ProfileShape ==
    \A p \in Profiles :
        /\ p.runtime \in STRING /\ p.key \in BOOLEAN /\ p.url \in BOOLEAN
        /\ p.tools \subseteq Flags /\ p.mode \in Modes
        /\ \A r \in ToSet(p.rules) : r.effect \in Policies
        /\ Range(p.perms) \subseteq Policies

-----------------------------------------------------------------------------
(* Capabilities and the legacy flags (capability/legacy.rs).               *)

Plain(kind) == Cap(kind, TRUE, FALSE, "", TRUE)

FromLegacy(tools, exts) ==
    LET im == SelectSeq(ImTools, LAMBDA t : t \in tools)
        own == SelectSeq(<<"bash", "subagent">>, LAMBDA t : t \in tools)
    IN [i \in DOMAIN im |-> Plain(im[i])]
        \o (IF {"fs", "fs_write"} \cap tools = {} THEN <<>>
            ELSE <<Cap("fs", TRUE, "fs_write" \in tools, "", TRUE)>>)
        \o [i \in DOMAIN own |-> Plain(own[i])]
        \o [i \in DOMAIN exts |-> Cap("mcp", TRUE, FALSE, exts[i].name, exts[i].ok)]

ResolveCapabilities(p) ==
    IF p.caps # <<>> THEN p.caps ELSE FromLegacy(p.tools, p.exts)
EnabledCaps(p) == SelectSeq(ResolveCapabilities(p), LAMBDA c : c.on)

(* The projection back to the flags.                                       *)
FromCapabilities(caps) ==
    LET on == {c \in ToSet(caps) : c.on}
    IN ({c.kind : c \in on} \cap (Flags \ {"fs_write"}))
        \cup (IF \E c \in on : c.kind = "fs" /\ c.writable THEN {"fs_write"} ELSE {})

ProjectToolset(p) == FromCapabilities(ResolveCapabilities(p))
KimWorldNames(tools) == tools \cap ToSet(ImTools)
ProjectExtensions(p) ==
    SelectSeq(EnabledCaps(p), LAMBDA c : c.kind = "mcp" /\ c.name # "")

(* Auto is not taken from disk when there is anything to run.              *)
NormalizeMode(p) ==
    IF p.mode # "Auto" THEN p.mode
    ELSE IF \/ ProjectToolset(p) # {} \/ p.exts # <<>> \/ p.skills # <<>>
            \/ \E c \in ToSet(EnabledCaps(p)) : c.kind = "mcp"
         THEN "SmartApprove" ELSE "Chat"

-----------------------------------------------------------------------------
(* Parts (capability/mod.rs and blocks/).                                  *)

Part(deferred, own, allowed) == [deferred |-> deferred, own |-> own, allowed |-> allowed]

ImBlock(c) == Part({c.kind}, {}, {c.kind})
FsBlock(c) == LET w == IF c.writable THEN {"write_file"} ELSE {}
              IN Part({}, {"read_file", "list_dir"} \cup w, w)
BashBlock(c) == Part({}, {"bash"}, {"bash"})
SubagentBlock(c) == Part({}, {"delegate"}, {"delegate"})
(* The hub serves the tools of connected servers; the desktop connects none.*)
McpBlock(c) == Part({}, {}, {})

Check(c) == c.kind = "mcp" => c.ok /\ c.name # ""

Build(c) ==
    CASE c.kind \in ToSet(ImTools) -> ImBlock(c)
      [] c.kind = "fs" -> FsBlock(c)
      [] c.kind = "bash" -> BashBlock(c)
      [] c.kind = "subagent" -> SubagentBlock(c)
      [] c.kind = "mcp" -> McpBlock(c)

Kinds == ToSet(ImTools) \cup {"fs", "bash", "subagent", "mcp"}

(* An unknown kind, or one that fails its check, is a warning.             *)
ResolveParts(p) ==
    LET good == SelectSeq(EnabledCaps(p), LAMBDA c : c.kind \in Kinds /\ Check(c))
    IN [i \in DOMAIN good |-> Build(good[i])]

FlattenDeferred(parts) == UNION {q.deferred : q \in ToSet(parts)}
FlattenProviders(parts) == UNION {q.own : q \in ToSet(parts)}

(* The profile's map wins over the defaults of the parts, the rules over   *)
(* both, and the last rule over the earlier ones.                          *)
LastRule(rules, n) ==
    LET hits == {i \in DOMAIN rules : rules[i].name = n}
    IN rules[CHOOSE i \in hits : \A j \in hits : j <= i].effect

MergePermissionConfig(p, parts) ==
    LET ruled == {r.name : r \in ToSet(p.rules)}
        allowed == UNION {q.allowed : q \in ToSet(parts)}
    IN [n \in ruled \cup DOMAIN p.perms \cup allowed |->
          IF n \in ruled THEN LastRule(p.rules, n)
          ELSE IF n \in DOMAIN p.perms THEN p.perms[n] ELSE "AlwaysAllow"]

(* PermissionConfig::default_for and resolve (ops/permission.rs).          *)
DefaultFor(n, mode) ==
    IF n = "activate_skill" \/ mode \in {"Auto", "SmartApprove"}
    THEN "AlwaysAllow" ELSE "AskBefore"
ResolvePolicy(config, n, mode) ==
    IF n \in DOMAIN config THEN config[n]
    ELSE IF n \in McpNames THEN "AskBefore" ELSE DefaultFor(n, mode)

-----------------------------------------------------------------------------
(* Skills (skills.rs): app skills of the profile, then the portable shelves.*)

Resolves(ref) == ref.id \in BundledSkills /\ ref.latest
ScansPortable(p) == {"fs", "fs_write"} \cap ProjectToolset(p) # {} \/ p.repo

BuildRegistry(p) ==
    LET app == {r.id : r \in {r \in ToSet(p.skills) : r.on /\ r.app /\ Resolves(r)}}
        shelves == IF ScansPortable(p) THEN p.shelf.user \cup p.shelf.project ELSE {}
        portable == (shelves \ p.deny) \ app
    IN [id \in app \cup portable |->
          IF id \in app THEN "app"
          ELSE IF id \in p.shelf.project THEN "project" ELSE "user"]

(* activate: only what the catalog of the session lists.                   *)
Activates(p, id) == id \in DOMAIN BuildRegistry(p)

-----------------------------------------------------------------------------
(* The Codex injection (codex_inject.rs), which reads the map only.        *)

MapPolicy(p, n) == IF n \in DOMAIN p.perms THEN p.perms[n] ELSE "unset"
KimDynamicTools(p) ==
    {n \in KimWorldNames(ProjectToolset(p)) : MapPolicy(p, n) # "NeverAllow"}
ConfirmsInApp(p, n) ==
    \/ MapPolicy(p, n) = "AskBefore"
    \/ MapPolicy(p, n) = "unset" /\ n \in {"send_message", "read_clipboard"}

WritableShell(p) == {"bash", "fs_write"} \cap ProjectToolset(p) # {}
ApprovalPolicy(mode, writable) ==
    IF mode \in {"Approve", "SmartApprove"} /\ writable THEN "OnRequest" ELSE "Never"
PermissionProfile(mode, writable) ==
    IF mode = "Chat" \/ ~writable THEN "read_only" ELSE "workspace_write"

OfficialOpenai(p) == p.provider = "openai" /\ ~p.url
RejectUnsupportedProvider(p) == p.provider \in {"anthropic", "gemini", "ollama", "bedrock"}
ExtensionsInject(p) ==
    LET exts == ProjectExtensions(p)
    IN /\ \A c \in ToSet(exts) : c.ok
       /\ Cardinality({c.name : c \in ToSet(exts)}) = Len(exts)

(* apply_profile succeeds.                                                 *)
ApplyProfile(p) ==
    /\ ~RejectUnsupportedProvider(p)
    /\ OfficialOpenai(p) \/ p.url
    /\ ExtensionsInject(p)

-----------------------------------------------------------------------------
(* from_resolved and attach_codex_for_open: the host opens, or the turn    *)
(* fails before its prompt.                                                *)

ParseAgentRuntime(r) == r \in {"", "goose", "codex"}
Opens(p) == p.key /\ ParseAgentRuntime(p.runtime)

(* What the host of the profile is made of.                                *)
Assemble(p) ==
    LET parts == ResolveParts(p)
        mode == NormalizeMode(p)
        config == MergePermissionConfig(p, parts)
        shell == ApprovalPolicy(mode, WritableShell(p))
    IN [codex |-> p.runtime = "codex",
        kim |-> KimWorldNames(ProjectToolset(p)),
        deferred |-> FlattenDeferred(parts),
        own |-> FlattenProviders(parts),
        skills |-> DOMAIN BuildRegistry(p),
        chat |-> /\ FlattenDeferred(parts) = {} /\ FlattenProviders(parts) = {}
                 /\ DOMAIN BuildRegistry(p) = {} /\ ProjectExtensions(p) = <<>>,
        policy |-> [n \in UNION {ToSet(b) : b \in p.batches} |->
                       ResolvePolicy(config, n, mode)],
        injects |-> ApplyProfile(p),
        dynamic |-> KimDynamicTools(p),
        confirms |-> {n \in KimDynamicTools(p) : ConfirmsInApp(p, n)},
        shell |-> IF shell = "OnRequest" THEN {"Exec", "Patch"} ELSE {},
        batches |-> p.batches]

Assembled == [p \in Profiles |-> Assemble(p)]
============================================================================
