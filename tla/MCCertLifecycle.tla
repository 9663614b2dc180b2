--------------------------- MODULE MCCertLifecycle ---------------------------
(* The instance of CertLifecycle for TLC.                                  *)
EXTENDS CertLifecycle
=============================================================================
