------------------------------- MODULE MCPages ------------------------------
(***************************************************************************)
(* A small instance of every part of Pages.                                *)
(***************************************************************************)
EXTENDS Pages, TLC

CONSTANTS overrides, materials, units, n1, n2, s1, s2, c, j

\* Lists of up to three jobs, two of a customer, two of them found; pages of two rows.
\* The patient user starts with an archived job and one in the pipeline.
MCJobs == 1..3
MCCustomer == <<2, 1, 2>>
MCRate == <<1, 3, 2>>
MCFound == {1, 3}
Row(s, a) == [status |-> s, archived |-> a]
OneArchived == {<<Row("completed", TRUE), Row("processing", FALSE)>>}
NoneArchived == {<<Row("completed", FALSE), Row("failed", FALSE), Row("completed", FALSE)>>}

\* The limit is 2; files at and around it, empty, misnamed, and of formats only one
\* side accepts.
File(e, m, n, g) == [ext |-> e, mime |-> m, size |-> n, genuine |-> g]
MCFiles == {File("pdf", "pdf", 1, TRUE), File("pdf", "pdf", 2, TRUE),
            File("csv", "other", 3, TRUE), File("pdf", "pdf", 0, TRUE),
            File("xlsx", "xlsx", 1, FALSE), File("xls", "xls", 1, TRUE),
            File("xlsm", "other", 1, TRUE), File("other", "csv", 1, TRUE)}

\* Two jobs of one month, one of them without a customer.
MCStatCustomer == s1 :> NoCustomer @@ s2 :> c
MCMonth == s1 :> 1 @@ s2 :> 1

\* Three pages of two sizes, three sources on two of them.
MCPdfPages == 1..3
MCWidth == <<2, 3, 2>>
MCSources == {[page |-> 1, box |-> "a"], [page |-> 2, box |-> "b"], [page |-> 2, box |-> "c"]}
=============================================================================
