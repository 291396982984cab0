------------------------- MODULE MCTaskSubmission -------------------------
(* Two clicks on the same task, and another task of the same user at the   *)
(* same provider, with another skill.                                      *)
EXTENDS TaskSubmission

CONSTANTS click1, click2, other, keyA, keyB, user, skillA, skillB, provider

TwoClicks     == {click1, click2}
TwoTasks      == {click1, other}
MCKeys        == {keyA, keyB}
MCSlotKeys    == {user, skillA, skillB, provider}
KeyOfRequest(s)  == IF s = other THEN keyB ELSE keyA
SlotKeysOf(s)    == <<user, IF s = other THEN skillB ELSE skillA, provider>>
MCKeyOf       == [s \in Submissions |-> KeyOfRequest(s)]
MCSlotKeyOf   == [s \in Submissions |-> SlotKeysOf(s)]

\* The provider is what is scarce: the second task is refused holding two slots.
ProviderLimit == [k \in MCSlotKeys |-> IF k = provider THEN 1 ELSE 2]
WideLimit     == [k \in MCSlotKeys |-> 3]
============================================================================
