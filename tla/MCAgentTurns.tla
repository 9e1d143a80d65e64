--------------------------- MODULE MCAgentTurns ---------------------------
(* A bot with two questions, which its source may repeat, and profiles for *)
(* each way a host is put together: capabilities with rules (goose), flags *)
(* only with the Codex runtime, a skill and no tool, nothing at all, and   *)
(* two that do not open. "ghost" is a name no profile has a tool for.      *)
EXTENDS AgentTurns

MCProfile ==
    [runtime |-> "", key |-> TRUE, url |-> FALSE, provider |-> "openai", mode |-> "SmartApprove",
     caps |-> <<>>, tools |-> {}, exts |-> <<>>, perms |-> [n \in {} |-> "AskBefore"],
     rules |-> <<>>, skills |-> <<>>, repo |-> FALSE, deny |-> {},
     shelf |-> [user |-> {"git"}, project |-> {"git"}], batches |-> {<<"ghost", "ghost">>}]

MCGoose == [MCProfile EXCEPT
    !.mode = "Auto",
    !.caps = <<Cap("search_contacts", TRUE, FALSE, "", TRUE), Cap("send_message", TRUE, FALSE, "", TRUE),
               Cap("fs", TRUE, TRUE, "", TRUE), Cap("bash", TRUE, FALSE, "", TRUE),
               Cap("read_clipboard", FALSE, FALSE, "", TRUE), Cap("voice", TRUE, FALSE, "", TRUE),
               Cap("mcp", TRUE, FALSE, "gh", FALSE)>>,
    !.perms = [n \in {"send_message", "write_file"} |-> "AlwaysAllow"],
    !.rules = <<[name |-> "send_message", effect |-> "AskBefore"],
                [name |-> "write_file", effect |-> "NeverAllow"]>>,
    !.deny = {"git"},
    !.batches = {<<"send_message", "search_contacts">>,
                 <<"bash", "write_file">>}]
MCCodex == [MCProfile EXCEPT
    !.runtime = "codex", !.tools = {"search_contacts", "send_message", "bash"},
    !.exts = <<[name |-> "gh", ok |-> TRUE]>>, !.batches = {}]
MCSkills == [MCProfile EXCEPT
    !.skills = <<[id |-> "kim-im", on |-> TRUE, app |-> TRUE, latest |-> TRUE]>>,
    !.batches = {<<"activate_skill", "ghost">>, <<"gh__star">>}]
MCChat == [MCProfile EXCEPT !.mode = "Chat"]
MCNoInject == [MCProfile EXCEPT !.runtime = "codex", !.provider = "ollama", !.batches = {}]
MCNoKey == [MCProfile EXCEPT !.key = FALSE]
(* The vendor catalog that a profile's model is looked up in. *)
Cat == INSTANCE Catalog
ASSUME CatalogAssumption == Cat!CatalogSound

MCProfiles == {MCGoose, MCCodex, MCSkills, MCChat, MCNoInject, MCNoKey}
============================================================================
