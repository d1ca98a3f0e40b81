---------------------------- MODULE MCJsonParser ----------------------------
(* JsonParser on small instances: see MCJsonParser.cfg.                    *)
EXTENDS JsonParser
=============================================================================
