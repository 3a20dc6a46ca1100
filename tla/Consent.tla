------------------------------ MODULE Consent ------------------------------
(***************************************************************************)
(* What has to be consented to, as three processes see it that share only  *)
(* a secret: the orchestrator looks a tool up in its own table of policies *)
(* and signs what the user approves; the worker passes the token on; the   *)
(* file server has its own list of tools to guard, and checks the token    *)
(* against the call that it is asked for.  When approvals are decided and  *)
(* consumed is the subject of ToolCalls.                                   *)
(***************************************************************************)
EXTENDS Arguments

CONSTANT Lifetime  \* of a token, 60 seconds in the code

ASSUME ConsentAssumption == Lifetime \in Nat

NoToken == [key |-> "none"]

\* What the two MCP servers are ready to do.
SystemTools == {"system.health", "system.time", "system.echo", "system.info"}
FilesTools  == {"files.list", "files.search", "files.read", "files.create", "files.update"}
ServedTools == SystemTools \union FilesTools

GetPolicy ==
  [tool \in {"system.time", "system.health", "system.echo", "files.create", "files.update"} |->
     IF tool \in {"files.create", "files.update"} THEN "approval_required" ELSE "safe"]

\* handleToolBefore; struct is Invalid if the beacon came without arguments.
HandleToolBefore(tool, struct) ==
  IF tool \notin DOMAIN GetPolicy THEN "deny"
  ELSE IF GetPolicy[tool] = "safe" THEN "allow"
  ELSE IF struct = Invalid THEN "deny" ELSE "approval_required"

\* The approval that CreateApprovalForTool stores.
ApprovalFor(agent, tool, struct) ==
  [agent |-> agent, tool |-> tool, args_hash |-> MarshalCanonical(struct)]

SignApprovalToken(approval, now) ==
  [key |-> "shared", aud |-> "mcp-files", sub |-> approval.agent, tool |-> approval.tool,
   args_hash |-> approval.args_hash, exp |-> now + Lifetime]

\* VerifyHS256: nobody else has the key.
VerifyHS256(token, now) == token.key = "shared" /\ token.exp >= now

\* Consumer.Validate, up to the consumption.
Validate(token, tool, args, agent, now) ==
  /\ VerifyHS256(token, now)
  /\ token.aud = "mcp-files" /\ token.sub = agent /\ token.tool = tool
  /\ token.args_hash = CanonicalJSON(args)

\* Call of either server: whether it does what it is asked.
Serves(tool, token, args, agent, now) ==
  \/ tool \in ServedTools \ {"files.create", "files.update"}
  \/ tool \in {"files.create", "files.update"} /\ Validate(token, tool, args, agent, now)

FewRequests == {RequestArgs([kind |-> "map", of |-> [field \in {"path"} |-> leaf]]) : leaf \in Leaves}

\* The tables of the two ends fit: what the orchestrator allows is served without a
\* token, and what it asks the user for is not.  A token serves the tool and the
\* agent that it was signed for, while it lives, and of all requests those that the
\* file server finds with the very arguments that the user was shown: not even the
\* call that was asked about, if its arguments are read differently on the way.
ConsentFits ==
  \A tool \in ServedTools, args \in ArgumentSet :
    LET struct   == ToStruct(args)
        decision == HandleToolBefore(tool, struct)
        request  == RequestArgs(args)
        token    == SignApprovalToken(ApprovalFor("agent", tool, struct), 0)
    IN  /\ decision = "allow" => Serves(tool, NoToken, request, "agent", 0)
        /\ decision = "approval_required" =>
             /\ ~Serves(tool, NoToken, request, "agent", 0)
             /\ \A other \in {"files.create", "files.update"}, agent \in {"agent", "another"}, now \in 0 .. Lifetime + 1 :
                  Serves(other, token, request, agent, now) <=>
                    other = tool /\ agent = "agent" /\ now <= Lifetime /\ request = struct
             /\ \A few \in FewRequests : Serves(tool, token, few, "agent", 0) <=> few = struct
=============================================================================
