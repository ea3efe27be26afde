------------------------------ MODULE MCAtmServer ------------------------------
(* Constant values for model-checking AtmServer.                           *)
EXTENDS AtmServer

MCLong(password) == password \in {"longpass", " longpass", "otherpass"}
MCTrim(password) == IF password = " longpass" THEN "longpass"
                    ELSE IF password = " short " THEN "short" ELSE password
===============================================================================
