----------------------------- MODULE MCCasework -----------------------------
(***************************************************************************)
(* Five instances: documents uploaded and analysed by two callers while RIB *)
(* and NESA judge; a certificate that clears, certificates that leave a    *)
(* content to read or an identity doubt, and one that is someone else's,   *)
(* each verified by two workers while the registry comes and goes; and     *)
(* every other registry answer, with a document that carries a manifest.   *)
(***************************************************************************)
EXTENDS Casework, TLC

CONSTANTS k1, k2, w1, w2, clean, bare, signed, t1

MCCaller == {k1, k2}
MCWorker == {w1, w2}
MCContent == {clean, bare, signed}
\* Metadata present, stripped, stripped but with a provenance manifest.
MCSignalsOf == [c \in MCContent |-> [metadata |-> c = clean, c2pa |-> c = signed]]

\* A certificate prints a name and a date of birth; a NESA record a name, a sex
\* and a hint of the national id.
Holder(name, dob) ==
    [name |-> name, dateOfBirth |-> dob, sex |-> "NOT_COMPARED", nationalIdHint |-> "NOT_COMPARED"]
Student(name, sex) ==
    [name |-> name, dateOfBirth |-> "NOT_COMPARED", sex |-> sex, nationalIdHint |-> "MATCH"]
Own == Student("MATCH", "MATCH")

Certificate(fields, noRecord) ==
    [source |-> "IREMBO", found |-> TRUE, authentic |-> TRUE, fields |-> fields,
     allowed |-> TRUE, noRecord |-> noRecord, age |-> 1]
Conclusive == Certificate(Holder("MATCH", "MATCH"), TRUE)
ToRead == Certificate(Holder("MATCH", "MATCH"), FALSE)
Doubtful == Certificate(Holder("PARTIAL", "MATCH"), FALSE)
NotTheirs == Certificate(Holder("MISMATCH", "MATCH"), TRUE)

Nesa(fields, published, level, science) ==
    [source |-> "NESA", found |-> TRUE, fields |-> fields, published |-> published,
     malpractice |-> FALSE, level |-> level, field |-> None, science |-> science, passed |-> TRUE]
Hec(found, holder, level, field) ==
    [source |-> "HEC", found |-> found, holder |-> holder, reread |-> TRUE,
     level |-> level, field |-> field]
Rib(status, threshold) == [source |-> "RIB", status |-> status, threshold |-> threshold]

Documents ==
    [gates |-> {Nesa(Own, TRUE, 2, 60), Rib("CLEAR", "ANY_CONVICTION")},
     contents |-> {clean, bare}, calls |-> 3, numbers |-> {}, certificates |-> {}, log |-> 0]
Desk(certificates, n) ==
    [gates |-> {Nesa(Own, TRUE, 2, 60)}, contents |-> {}, calls |-> 0, numbers |-> {t1},
     certificates |-> certificates, log |-> n]
Clears == Desk({Conclusive}, 3)
Doubts == Desk({ToRead, Doubtful}, 2)
Corrects == Desk({NotTheirs}, 2)
EveryAnswer ==
    [gates |-> {Nesa(Own, TRUE, 1, None), Nesa(Own, FALSE, 2, 60),
                Nesa(Student("MATCH", "NOT_COMPARED"), TRUE, 2, 60),
                Nesa(Student("MISMATCH", "MATCH"), TRUE, 1, 60), Hec(TRUE, TRUE, 4, "MEDICINE"),
                Hec(TRUE, FALSE, 4, None), Rib("HAS_RECORDS", "ANY_CONVICTION"),
                Rib("UNDER_INVESTIGATION", "ANY_CONVICTION")},
     contents |-> {signed}, calls |-> 1, numbers |-> {}, certificates |-> {}, log |-> 0]
MCScopes == {Documents, Clears, Doubts, Corrects, EveryAnswer}

MCAgeCriteria == [min |-> 18, max |-> 25]
MCRequirement == [accepted |-> {2}, science |-> 50, fields |-> {}]
MCPolicy ==
    [alternatives |-> {2}, science |-> 50,
     bands |-> {[level |-> 2, fields |-> {}, min |-> 18, max |-> 25],
                [level |-> 4, fields |-> {"MEDICINE"}, min |-> 18, max |-> 30]}]
Symmetry == Permutations(MCCaller) \cup Permutations(MCWorker)
=============================================================================
