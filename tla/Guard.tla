------------------------------- MODULE Guard -------------------------------
(***************************************************************************)
(* What GuardedToolRegistry::call_tool looks at before it runs a tool: the *)
(* policy (security/policy.rs), the trusted zone of the path guard         *)
(* (path_guard.rs) and the boundary check (boundary.rs).                   *)
(*                                                                         *)
(* A setting g is a registry with the calls made on it: the ToolPolicy,    *)
(* the roots of the PathGuard (zone) and of the sandbox (fence), what is   *)
(* registered, the files there are, and the arguments of each call.  Of a  *)
(* text only what the checks ask is kept: the prefixes it starts with and  *)
(* the patterns found in it (an invalid regular expression is found in no  *)
(* text).                                                                  *)
(***************************************************************************)
EXTENDS Naturals

CONSTANTS Under,     \* for each file, the roots its canonical path lies under
          Spelled,   \* and the roots its path begins with as it is spelled
          Dangerous, \* the built-in patterns
          MaxArgs, MaxTimeout,
          None

-----------------------------------------------------------------------------
(* The policies the code has ready.  MaxArgs and MaxTimeout stand for its  *)
(* 1 MiB and 300 s; an enabled sandbox is part of each.                    *)

Unrestricted == [allow_commands |-> {}, deny_patterns |-> {}, block_builtin_dangerous |-> FALSE]
StrictShell  == [Unrestricted EXCEPT !.block_builtin_dangerous = TRUE]
WithAllowed(commands) == [StrictShell EXCEPT !.allow_commands = commands]

DefaultToolPolicy ==
  [allowed_tools |-> None, denied_tools |-> {}, max_args_size |-> MaxArgs, max_timeout_secs |-> MaxTimeout,
   shell_policy |-> Unrestricted, allowed_workdirs |-> {}, sandbox |-> TRUE]
StrictToolPolicy == [DefaultToolPolicy EXCEPT !.allowed_tools = {}, !.shell_policy = StrictShell]

\* SandboxPolicy::default, disabled and strict_read_write: the roots it names.
DefaultSandbox == [enabled |-> TRUE, read |-> {}, readWrite |-> {}]
Disabled       == [DefaultSandbox EXCEPT !.enabled = FALSE]
StrictReadWrite(dir) == [DefaultSandbox EXCEPT !.readWrite = {dir}]

-----------------------------------------------------------------------------
(* The checks. *)

\* check_tool_allowed: the deny list wins over the allow list.
ToolAllowed(p, c) ==
  /\ c.tool \notin p.denied_tools
  /\ p.allowed_tools # None => c.tool \in p.allowed_tools

\* Fault: a command that is allowed by its prefix is looked at no further.
CommandAllowed_PrefixWins(shell, command) ==
  IF shell.allow_commands # {} THEN command.starts \cap shell.allow_commands # {}
  ELSE command.has \cap (shell.deny_patterns \cup Dangerous) = {}

\* ShellPolicy::check_command: an allowed prefix does not excuse a pattern.
CommandAllowed(shell, command) ==
  /\ shell.allow_commands # {} => command.starts \cap shell.allow_commands # {}
  /\ shell.block_builtin_dangerous => command.has \cap Dangerous = {}
  /\ command.has \cap shell.deny_patterns = {}

\* Only a registered tool that says it is a shell is scrutinised.
ShellAllowed(g, c) ==
  c.tool \in g.shells /\ g.policy.shell_policy # None /\ c.command # None
    => CommandAllowed(g.policy.shell_policy, c.command)

Permitted(g, c) ==
  /\ ToolAllowed(g.policy, c)
  /\ c.size <= g.policy.max_args_size
  /\ c.timeout # None => c.timeout <= g.policy.max_timeout_secs
  /\ c.workdir # None /\ g.policy.allowed_workdirs # {} =>
       c.workdir \cap g.policy.allowed_workdirs # {}
  /\ ShellAllowed(g, c)

\* PathGuard::verify: a file that does not exist has no canonical path.
Verified(g, f, present) == f \in present /\ Under[f] \cap g.zone # {}

\* check_boundary.  Without a guard only a call that names no file is trusted.
AutoApproved(g, c, present) ==
  \/ c.filePath = None
  \/ g.zone # None /\ Verified(g, c.filePath, present)

\* is_within_boundary: a path that does not canonicalize counts as spelled.
\* (The code asks once for each root of the fence; here they are one look.)
Within(g, f, present) == (IF f \in present THEN Under[f] ELSE Spelled[f]) \cap g.fence # {}

\* What is outside the zone and the fence is refused; the rest needs approval.
Rejected(g, c, present) == g.policy.sandbox /\ ~Within(g, c.filePath, present)
=============================================================================
