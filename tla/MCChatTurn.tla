----------------------------- MODULE MCChatTurn -----------------------------
(* Small instances of ChatTurn for TLC.                                    *)
EXTENDS ChatTurn, TLC

Symmetry == Permutations(Handlers) \cup Permutations(Convs)
            \cup Permutations(Requests \ WebRequests)
=============================================================================
