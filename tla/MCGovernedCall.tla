---------------------------- MODULE MCGovernedCall ----------------------------
(* One call waits on an op, the other skips op control.  One of them has two *)
(* layers: the agent's turn governs a tool of withAssembly, withAssembly one *)
(* the AI SDK made or one it wrapped before, or two inits wrap the same      *)
(* LangChain tool.                                                           *)
EXTENDS GovernedCall

CONSTANTS o1, c1, c2

MCOps == {o1}
MCCalls == {c1, c2}
MCOneTracked == {c1}
MCOpOf == [c \in Tracked |-> o1]
MCStack(tracked, untracked) == [c \in MCCalls |-> IF c = c1 THEN tracked ELSE untracked]
MCStackings ==
  {MCStack(<<"openai", "withAssembly">>, <<"aiSdk">>),
   MCStack(<<"withAssembly", "aiSdk">>, <<"withAssembly">>),
   MCStack(<<"withAssembly", "openai">>, <<"langchain">>),
   MCStack(<<"withAssembly", "withAssembly">>, <<"openai">>),
   MCStack(<<"withAssembly">>, <<"langchain", "langchain">>)}
=============================================================================
