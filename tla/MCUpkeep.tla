------------------------------ MODULE MCUpkeep ------------------------------
(***************************************************************************)
(* A bounded instance of ProfileCache.  One document is chunked from every *)
(* text of up to MaxLines lines and followed no further; the others have   *)
(* fixed texts and are what jobs, deletes and the profile work on.         *)
(***************************************************************************)
EXTENDS ProfileCache

CONSTANTS d0, d1, d2, j1, j2, r1, MaxLines

Line == { <<"n">>, <<"w", "n">>, <<"w", "w", ".", "w", "n">>,
          <<"w", "w", "w", "w", "w", "w", "n">>, <<"U", "w", "n">>,
          <<"A", "n">>, <<"S", ".", "n">>, <<"1", "w", "n">>, <<"2", "n">> }

Placed(kinds) == [i \in DOMAIN kinds |-> [k |-> kinds[i], at |-> i]]

Kind == { <<"chat", FALSE, TRUE>>, <<"meeting", FALSE, TRUE>>, <<"file", TRUE, TRUE>>,
          <<"file", FALSE, TRUE>>, <<"file", FALSE, FALSE>> }

TextOf(kinds, how) == [text |-> Placed(kinds), source |-> how[1],
                       is_md |-> how[2], smart |-> how[3]]

SurveyText == {TextOf(FlattenSeq(ls), how) :
                 ls \in UNION {[1 .. n -> Line] : n \in 1 .. MaxLines}, how \in Kind}

\* Two chunks and two segments; three chunks, more than are read back; and a
\* text too short to distill.
Long == TextOf(<<"w", "w", "w", ".", "w">>, <<"file", FALSE, TRUE>>)
Longer == TextOf(<<"w", "w", "w", ".", "w", "w", "w", ".", "w">>, <<"file", FALSE, TRUE>>)
Short == TextOf(<<"w">>, <<"file", FALSE, TRUE>>)

MCText == (d0 :> SurveyText) @@ (d1 :> {Long}) @@ (d2 :> {Longer, Short})

\* The survey is apart from the rest.  Two jobs work on one document; one job on
\* two, where row updates fail; or one job on one, beside deletes and the profile.
Apart == docs[d0].st = "absent"
OneJob == jobs[j2].pc = "none"
OneDoc == docs[d2].st = "absent"
NoReader == \A r \in Reader : compiles[r].pc = "idle" /\ ~cache.on
Kept == \A d \in Doc : docs[d].st \in {"absent", "stored"}
Settled == \A d \in Doc : ~Ingesting(d)
HasRows == docs[d1].row /\ jobs[j1].row.state # "none"
NoJobYet == \A j \in Job : jobs[j].pc = "none"
InOrder(j) == /\ NoReader \/ Kept
              /\ j = j2 => jobs[j1].pc # "none" /\ OneDoc /\ NoReader /\ Kept /\ Settled
              /\ ~OneDoc => Settled

RowsKept == ~OneDoc \/ \A j \in Job : \/ jobs'[j].done = jobs[j].done
                                       \/ jobs[j].row.state = "none"
                                       \/ jobs'[j].row # jobs[j].row

Clocks == cache.on \/ \E r \in Reader : compiles[r].pc # "idle"

DeleteStep(d) == \/ delete_document_tagged(d) \/ delete_fails(d)
                 \/ \E part \in docs[d].left : delete_by_filter(d, part)

Quietly == UNCHANGED <<cache, compiles>> /\ KeepsAges

MCNext ==
    \/ Init /\ add_document(d0) /\ Quietly
    \/ Apart /\ OneJob /\ NoReader /\ add_document(d1) /\ Quietly
    \/ Apart /\ NoJobYet /\ NoReader /\ Kept /\ Settled /\ add_document(d2) /\ Quietly
    \/ Apart /\ (\E d \in {d1, d2} : insert_document(d) \/ ingest_facts(d)) /\ Quietly
    \/ Apart /\ OneJob /\ OneDoc /\ (\E f \in facts : f.at = 1 /\ forget_memory(f)) /\ Quietly
    \/ Apart /\ (\E j \in Job : InOrder(j) /\ reindex(j)) /\ Quietly
    \/ Apart /\ (\E j \in Job : JobStep(j)) /\ RowsKept /\ Quietly
    \/ Apart /\ NoReader /\ Kept /\ (\E j \in Job : model_silent(j)) /\ Quietly
    \/ Apart /\ OneJob /\ OneDoc /\ (NoJobYet \/ NoReader) /\ DeleteStep(d1) /\ Quietly
    \/ Apart /\ OneJob /\ OneDoc /\ (Deletes(d1) \/ Restarts) /\ KeepsAges
    \/ Apart /\ OneJob /\ OneDoc /\ Settled /\ (NoJobYet \/ (Kept /\ HasRows)) /\ (\E r \in Reader : ProfileStep(r)) /\ UNCHANGED jobVars /\ KeepsAges
    \/ Apart /\ Clocks /\ Tick /\ UNCHANGED jobVars

MCSpec == Init /\ [][MCNext]_vars /\ Fairness
=============================================================================
