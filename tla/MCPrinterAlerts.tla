--------------------------- MODULE MCPrinterAlerts ---------------------------
(* Three conditions, two of which share a code, as two empty trays do.       *)
EXTENDS PrinterAlerts, TLC

CONSTANTS x1, x2, x3, code1, code2
MCConditions == {x1, x2, x3}
MCCodeOf == [x \in MCConditions |-> IF x = x3 THEN code2 ELSE code1]
MCAlertIds == 1..4
=============================================================================
