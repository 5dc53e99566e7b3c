------------------------ MODULE MCNotificationHub ------------------------
EXTENDS NotificationHub, TLC

CONSTANTS s1, t1, t2, u1, u2, g, x

MCSubjects == {s1}
MCThreads  == {t1, t2}
MCUids == {u1, u2}
MCOneUid == {u1}
MCClientIds == {g, x}
MCGuids == {g}
HubSymmetry == Permutations(MCThreads) \cup Permutations(MCUids)
=============================================================================
