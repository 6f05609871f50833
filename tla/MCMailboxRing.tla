---------------------------- MODULE MCMailboxRing ----------------------------
(* An instance of MailboxRing for TLC, with package sizes that meet every   *)
(* alignment of the end of the ring.                                        *)
EXTENDS MailboxRing

\* A header of four words and payloads of one to four words.
SomeSizes == {5, 6, 8}
=============================================================================
