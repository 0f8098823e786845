-------------------------------- MODULE Trie --------------------------------
(***************************************************************************)
(* trie: words inserted, and inputs searched for the shortest word that is a   *)
(* prefix of them.  A node is the path of runes that leads to it.              *)
(***************************************************************************)
EXTENDS Naturals, Sequences, SequencesExt, FiniteSetsExt

CONSTANTS Runes, Space,   \* the runes of the instance; the one TrimSpace takes away
          MaxLength       \* bound on words and inputs

VARIABLES nodes, isEndOfWord,   \* the tree's nodes, and those marked
          inserted              \* history: the words inserted
vars == <<nodes, isEndOfWord, inserted>>
Root == <<>>
Strings == UNION {[1..n -> Runes \cup {Space}] : n \in 0..MaxLength}

Init == nodes = {Root} /\ isEndOfWord = {} /\ inserted = {}

Seen(word) == {i \in DOMAIN word : word[i] # Space}
TrimSpace(word) == IF Seen(word) = {} THEN <<>> ELSE SubSeq(word, Min(Seen(word)), Max(Seen(word)))
Prefixed(word) == {SubSeq(word, 1, n) : n \in 1..Len(word)}
Insert(string) == LET word == TrimSpace(string) IN
    /\ word # <<>>
    /\ nodes' = nodes \cup Prefixed(word)
    /\ isEndOfWord' = isEndOfWord \cup {word}
    /\ inserted' = inserted \cup {word}

\* Fault: the walk does not stop at the first marked node.
Walk_Longest(input) ==
    LET at[n \in 0..Len(input)] ==
            IF n = 0 THEN Root
            ELSE IF at[n - 1] \notin nodes THEN at[n - 1] ELSE Append(at[n - 1], input[n])
    IN at[Len(input)]
\* The walk from the root stops at the first marked node, or where there is no child.
Walk(input) ==
    LET at[n \in 0..Len(input)] ==
            IF n = 0 THEN Root
            ELSE IF at[n - 1] \notin nodes \/ at[n - 1] \in isEndOfWord THEN at[n - 1]
                 ELSE Append(at[n - 1], input[n])
    IN at[Len(input)]
HasMatchedPrefixWords(input) == Walk(input) \in isEndOfWord
GetMatchedPrefixWord(input) == IF HasMatchedPrefixWords(input) THEN Walk(input) ELSE <<>>

Next == \E string \in Strings : Insert(string)
Spec == Init /\ [][Next]_vars

-----------------------------------------------------------------------------
\* A search finds the shortest word inserted that begins the input, as it would in the
\* set of the words, whatever words share a prefix or extend one another.
FindsShortest ==
    \A input \in Strings :
        LET found == {w \in inserted : IsPrefix(w, input)} IN
        /\ HasMatchedPrefixWords(input) <=> found # {}
        /\ found # {} => /\ GetMatchedPrefixWord(input) \in found
                         /\ \A w \in found : Len(GetMatchedPrefixWord(input)) <= Len(w)
=============================================================================
