-------------------------- MODULE MCReceiverSession --------------------------
EXTENDS ReceiverSession, TLC

\* The PC connects to a server c times, the user disconnects d times, the activity
\* comes back r times.
Scene(s, c, d, r, throws, vanishes) ==
    [servers |-> {s}, pcVanishes |-> vanishes, sessionsThrow |-> throws,
     acts |-> [connect |-> c, disconnect |-> d, reopen |-> r]]

\* Two sessions in a row with a Disconnect between; two with exceptions and a PC
\* that vanishes; one with a Disconnect, or with a restart beside the recycle.
MCScenes == {Scene("audio", 2, 1, 0, FALSE, FALSE), Scene("audio", 2, 0, 0, TRUE, FALSE),
             Scene("control", 2, 0, 0, TRUE, TRUE), Scene("control", 1, 1, 0, TRUE, TRUE),
             Scene("control", 1, 0, 1, FALSE, TRUE), Scene("audio", 1, 0, 1, FALSE, FALSE)}

MCAlone == {Scene(s, 2, 0, 0, FALSE, FALSE) : s \in Servers}
           \cup {Scene(s, 1, 1, 0, FALSE, FALSE) : s \in Servers}
MCReconnecting == {Scene("audio", 2, 1, 0, FALSE, FALSE)}
MCVanishing == {Scene("control", 2, 0, 0, FALSE, TRUE)}

\* The two CHOOSE of ReceiverSession take one of several generations that are
\* alike, and nothing else tells generations apart.
MCSymmetry == Permutations(Gens)
=============================================================================
