--------------------------- MODULE MCDropReports ---------------------------
(***************************************************************************)
(* DropReports with two rules, one of them with two lines in the table,    *)
(* reports that fill the queue, and names that fill the tallies.           *)
(***************************************************************************)
EXTENDS DropReports

CONSTANTS allow, guard

MCRules == {allow, guard}
MCLines == <<allow, guard, guard>>
MCName  == [r \in MCRules |-> r]
MCGuards  == {guard}
=============================================================================
