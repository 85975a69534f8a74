---------------------------- MODULE MC_OpenFiles ----------------------------
EXTENDS OpenFiles

\* Nothing is claimed after open() has used an inode it was not given.
StillSane == sane
=============================================================================
