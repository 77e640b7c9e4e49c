---------------------------- MODULE MCFileStore ----------------------------
EXTENDS FileStore

MCAuditSymmetry == Permutations(Audits)
MCUserSymmetry == Permutations(Users)
MCSymmetry == MCAuditSymmetry \cup MCUserSymmetry
=============================================================================
