----------------------- MODULE MCTransactionProcessor -----------------------
(* TransactionProcessor on small sets.                                     *)
EXTENDS TransactionProcessor

CONSTANTS intkey, election

OneFamily == {intkey}
TwoFamilies == {intkey, election}
OneHandler == << intkey >>
TwoHandlers == << intkey, election >>
=============================================================================
