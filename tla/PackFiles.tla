------------------------------ MODULE PackFiles ------------------------------
(****************************************************************************)
(* A pack, from the file it is to the tools that serve it: the container    *)
(* (Container), a chain of layers as it is written, found and mounted       *)
(* (ChainMount), what becomes of ids and citations over the appends,        *)
(* rebases and compactions of a chain (LayerChain), the lexical index and   *)
(* its lazy reader (Lexical), and what a server makes of the packs it is    *)
(* given (ServedPacks). These meet in files that never change once they are *)
(* written, so a behaviour is about one of them; the files of the ones that *)
(* do not run are the subject of its first state.                           *)
(****************************************************************************)
EXTENDS LayerChain, Lexical

CONSTANTS
    DriftLimit,  \* readerDriftLimit of layer-manifest.mjs, in percent
    Containers,  \* what is put into a file
    Chains,      \* [chain, settings, operators]: how chains are written and where they are found
    Servings     \* what a server is asked to serve, in what world

File == INSTANCE Container
Mount == INSTANCE ChainMount
Serve == INSTANCE ServedPacks

VARIABLES part,    \* what the behaviour is about
          subject  \* its files, where nothing moves

fileVars == <<part, subject, packs, lexicalVars>>

NoTexts == [texts |-> <<>>, segment |-> buildLexicalSegment(<<>>)]
NoTerms == /\ shelf = NoTexts
           /\ lazy = [windows |-> <<>>, lists |-> <<>>, bytes |-> 0, reads |-> <<>>, got |-> 0]
           /\ search = [s \in Searches |-> Unasked]

FilesInit ==
  \/ part = "chain" /\ Init /\ subject = {} /\ NoTerms
  \/ part = "terms" /\ LexicalInit /\ subject = {} /\ packs = <<>>
  \/ part = "container" /\ subject \in Containers /\ packs = <<>> /\ NoTerms
  \/ part = "mount" /\ subject \in Chains /\ packs = <<>> /\ NoTerms
  \/ part = "serving" /\ subject \in Servings /\ packs = <<>> /\ NoTerms

ChainStep == part = "chain" /\ Next /\ UNCHANGED <<part, subject, lexicalVars>>
TermStep == part = "terms" /\ LexicalNext /\ UNCHANGED <<part, subject, packs>>
FilesNext == ChainStep \/ TermStep
FilesSpec == FilesInit /\ [][FilesNext]_fileVars

-----------------------------------------------------------------------------
\* Properties

\* A file that a build put together opens as what it is and serves what was put
\* in, and nothing else is served of a file with its identity, whatever became
\* of its bytes, its table or its header before it was opened or after; and its
\* queries are embedded as it declares, or not at all (index.mjs 279-312,
\* 372-591, 886-1010, 1103-1209; builder.mjs 230-345, 453-542).
ContainerSound == part = "container" => File!ContainerSoundFor(subject) /\ File!EncoderSoundFor(subject)

\* A chain that appends wrote mounts and stays scored, no member of it but the
\* head can be exchanged for another, and its head is walked to its own base
\* without a request that its operator's places do not cover (append.mjs
\* 83-337; layer-manifest.mjs 53-271; layer-locator.mjs 39-228;
\* layer-reader.mjs 58-153).
MountSound == part = "mount" => Mount!MountSoundFor(subject.chain, subject.settings, subject.operators)

\* The terms of a query are found by the lazy reader where the eager one finds
\* them, whatever is read in between and fails (lexical.mjs 101-299).
TermSearchSound == part = "terms" => LexicalSound

\* Packs are served under names of their own or reported missing, results are
\* found again as they are cited, and an installed server serves what the
\* command would (mcp.mjs 230-540, 803-938).
ServingSound == part = "serving" => Serve!ServingSoundFor(subject)
=============================================================================
