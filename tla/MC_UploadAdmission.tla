-------------------------- MODULE MC_UploadAdmission --------------------------
EXTENDS UploadAdmission
CONSTANTS r1, r2, c1, i1, k1, manual, draft, note, url, none

\* An upload and its retry with one key, another of the same source under
\* another name, and one from the test chat.
MCKeyOf == [r \in {r1, r2, c1, i1} |-> IF r \in {r1, r2} THEN k1 ELSE NoKey]
MCRouteOf == [r \in {r1, r2, c1, i1} |-> IF r = i1 THEN "inline" ELSE "create"]
MCNameOf == [r \in {r1, r2, c1, i1} |->
               IF r = i1 THEN note ELSE IF r = c1 THEN draft ELSE manual]
MCUrlOf == [r \in {r1, r2, c1, i1} |-> IF r = i1 THEN none ELSE url]
===============================================================================
