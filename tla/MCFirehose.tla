----------------------------- MODULE MCFirehose ------------------------------
EXTENDS Firehose, TLC

CONSTANTS alice, bob

MCDids == {alice, bob}
MCSymmetry == Permutations(MCDids)
=============================================================================
