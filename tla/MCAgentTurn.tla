----------------------------- MODULE MCAgentTurn -----------------------------
(* Small instances of AgentTurn. *)
EXTENDS AgentTurn, TLC

CONSTANTS t1, t2,          \* turns
          read, shell,     \* tools
          drop

\* A call is its tool and its arguments.
MCToolOf == [c \in Call |-> c[1]]

ReadOnly == {<<read, 1>>}
ReadShell == {<<read, 1>>, <<shell, 1>>}
ReadShellDrop == {<<read, 1>>, <<shell, 1>>, <<drop, 1>>}

Answer(calls, par) == [calls |-> calls, par |-> par]
Silence == Answer(<<>>, FALSE)

OneRead == {Silence, Answer(<< <<read, 1>> >>, FALSE)}
\* Responses with calls of two tools, one after the other and in parallel, and one with a call
\* of a denied tool.
TwoTools == {Silence, Answer(<< <<drop, 1>> >>, FALSE),
             Answer(<< <<read, 1>>, <<shell, 1>> >>, FALSE),
             Answer(<< <<read, 1>>, <<shell, 1>> >>, TRUE)}
\* Calls of a plugin's tool mixed with calls of the registry's.
PluginPair ==
  {Silence, Answer(<< <<shell, 1>>, <<read, 1>> >>, FALSE),
   Answer(<< <<read, 1>>, <<shell, 1>> >>, TRUE)}

\* Wildcards: every tool, and a family that holds `drop` only.
MCCovers == [w \in {"*", "drop.*"} |-> IF w = "*" THEN Tool ELSE Tool \ {read, shell}]

AllAllowed ==
  [default |-> "allow", agentDefault |-> NoAction, agentRules |-> <<>>, rules |-> <<>>]

\* The agent's rules deny the family and allow shell; the session's ask about shell.
ShellAsks ==
  [default |-> "allow", agentDefault |-> NoAction,
   agentRules |-> << [pattern |-> "drop.*", action |-> "deny"],
                     [pattern |-> shell, action |-> "allow"] >>,
   rules |-> << [pattern |-> shell, action |-> "ask"] >>]

NoHook == [c \in Call |-> {[act |-> "allow", call |-> c]}]
\* Hooks that ask, deny, or put a call of a denied tool in the place of a call.
AnyHook == [c \in Call |-> [act : Actions, call : {c, <<drop, 1>>}]]

==============================================================================
