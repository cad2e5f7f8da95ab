------------------------------ MODULE MCNotes ------------------------------
(* The files of an instance of Notes: what an archived or malformed note says *)
(* does not matter much, so one of each is enough.                            *)
EXTENDS Notes

FilesMixed == [body : {1, 2}, form : {"active"}]
                \cup [body : {1}, form : {"archived", "malformed"}]
FoundMixed == [body : {1}, form : {"active", "malformed"}]
=============================================================================
