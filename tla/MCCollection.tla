----------------------------- MODULE MCCollection -----------------------------
(***************************************************************************)
(* Instances of Collection for TLC: one or two indexed fields, one or two  *)
(* ids, and values that meet under one key (TRUE and "true", an integer    *)
(* and the same integer modulo 2^w) or have no key at all.                 *)
(***************************************************************************)
EXTENDS Collection, TLC

CONSTANTS t1, t2, obj

Yes  == <<"boolean", TRUE>>
True == <<"string", "true">>
One  == <<"integer", 1>>
Five == <<"integer", 5>>
Null == <<"null", 0>>

Scalars == {Yes, True, One, Five, Null}

OneField  == {1}
TwoFields == {1, 2}
OneId  == {1}
TwoIds == {1, 2}

\* Documents whose fields hold nothing or one of the given contents.
DocsOver(contents) == [Fields -> contents \cup {Missing}]

ScalarInputs == DocsOver({Yes, One})
FewInputs    == DocsOver({Yes})
FullInput    == {[f \in Fields |-> Yes]}
MixedInputs  == DocsOver({True, Array})

NoUpdate == [pull |-> <<>>, push |-> <<>>, set |-> <<>>, unset |-> Missing]

ScalarUpdates ==
    {[NoUpdate EXCEPT !.set = <<f, v>>] : f \in Fields, v \in {True, Five}}
        \cup {[NoUpdate EXCEPT !.unset = f] : f \in Fields}

\* Another value for the first field, none for the last.
OneUpdate == {[NoUpdate EXCEPT !.set = <<1, Five>>, !.unset = 2]}

AllUpdates ==
    ScalarUpdates
        \cup {[NoUpdate EXCEPT !.push = <<f, Five>>] : f \in Fields}
        \cup {[NoUpdate EXCEPT !.pull = <<f, True>>] : f \in Fields}
        \cup {[NoUpdate EXCEPT !.set = <<f, obj>>, !.push = <<f, Yes>>] : f \in Fields}

AllOps    == [t \in Threads |-> Ops]
IndexOps  == [t \in Threads |-> {"insert", "delete", "createIndex", "deleteIndex"}]
UpdateOps == [t \in Threads |-> {"update", "createIndex", "deleteIndex"}]
DeleteOps == [t \in Threads |-> {"insert", "delete", "createIndex"}]
OverwriteOps == [t \in Threads |-> {"insert", "overwrite"}]

\* Next without createDocument and deleteDocument, which UpdateOps rules out.
UpdaterNext ==
    \/ \E t \in Threads :
        \/ CallUpdate(t) \/ UpdateRead(t) \/ UpdateNotFound(t)
        \/ CreateNames(t) \/ PutIndex(t) \/ PutRejected(t) \/ PutDoc(t)
        \/ CallCreateIndex(t) \/ OpenCursor(t) \/ FillRow(t) \/ FillRejected(t) \/ FillDone(t)
        \/ DeleteIndex(t)
        \/ Fails(t)
    \/ Crash

UpdaterSpec == Init /\ [][UpdaterNext]_vars /\ Fairness

===============================================================================
