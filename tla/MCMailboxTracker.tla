-------------------------- MODULE MCMailboxTracker --------------------------
(* Instances of MailboxTracker for TLC. *)
EXTENDS MailboxTracker

CONSTANTS m1, m2, s1, p1, p2

MCMailboxes == {m1, m2}
MCProducers == {p1, p2}
MCOne       == {m1}
MCOneSession  == {s1}
MCOneProducer == {p1}
=============================================================================
