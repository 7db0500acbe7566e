-------------------------------- MODULE Erasure --------------------------------
(***************************************************************************)
(* Erasure of a contact beside what still writes about it: privacy         *)
(* requests, the erasing transaction, messages and attachments that keep   *)
(* coming, and the transcription of voice notes.  The contact has one      *)
(* conversation; a message m has at most one voice note, whose attachment  *)
(* and transcription are called m too.  Notes are redacted as attachments  *)
(* are, and the request for an export writes nothing.                      *)
(***************************************************************************)
EXTENDS Naturals

CONSTANTS ContactMessage, PrivacyRequest,
          Clerk,        \* requests of /api/privacy in flight at once
          Transcriber,  \* transcription workers
          MaxTranscriptionAttempts,
          MaxOverruns   \* bound: leases of a message that run out, under a slow
                        \*   or a stopped worker

ASSUME ErasureAssumption ==
    /\ MaxTranscriptionAttempts \in Nat \ {0}
    /\ MaxOverruns \in Nat

VARIABLES body,     \* body[m], file[m]: "none" before, "stored" or "redacted"
          file,     \*   (file: storage_key and file name of the attachment)
          request,  \* request[q]: "none", "pending", "completed"
          clerk,    \* clerk[c]: what the request c does next and remembers
          voice,    \* voice[m]: status of the transcription, "none" without a row
          spoken,   \* transcriptions whose text is there
          tries, \* tries[m]
          leased,   \* processing, and locked_at is younger than five minutes
          asked,    \* transcriptions a request is about to insert
          scribe,   \* scribe[w]: what worker w does next and remembers
          overruns, \* overruns[m]: leases of m that ran out
          late      \* history: messages or files that came when an erasure had
                    \*   read what there was

contentVars == <<body, file, late>>
privacyVars == <<request, clerk>>
voiceVars == <<voice, spoken, tries, leased>>
erasureVars == <<contentVars, privacyVars, voiceVars, asked, scribe, overruns>>

Content == {"none", "stored", "redacted"}
VoiceStatus == {"none", "pending", "processing", "completed", "failed"}
ClerkIdle == [at |-> "idle"]
Listening == [at |-> "poll"]

Filing == [at : {"create"}, req : PrivacyRequest]
Erasing == [at : {"messages", "contact", "files", "texts", "commit", "complete"},
            req : PrivacyRequest, ids : SUBSET ContactMessage, files : SUBSET ContactMessage,
            texts : SUBSET ContactMessage]
Transcribing == [at : {"job", "audio", "complete", "fail", "failed", "pending"},
                 msg : ContactMessage, key : BOOLEAN]

ErasureTypeOK ==
    /\ body \in [ContactMessage -> Content] /\ file \in [ContactMessage -> Content]
    /\ request \in [PrivacyRequest -> {"none", "pending", "completed"}]
    /\ clerk \in [Clerk -> {ClerkIdle} \union Filing \union Erasing]
    /\ voice \in [ContactMessage -> VoiceStatus]
    /\ tries \in [ContactMessage -> 0..MaxTranscriptionAttempts]
    /\ \A s \in {spoken, leased, asked, late} : s \subseteq ContactMessage
    /\ scribe \in [Transcriber -> {Listening} \union Transcribing]
    /\ overruns \in [ContactMessage -> 0..MaxOverruns]

ErasureInit ==
    /\ body = [m \in ContactMessage |-> "none"] /\ file = [m \in ContactMessage |-> "none"]
    /\ request = [q \in PrivacyRequest |-> "none"]
    /\ clerk = [c \in Clerk |-> ClerkIdle]
    /\ voice = [m \in ContactMessage |-> "none"]
    /\ spoken = {} /\ leased = {} /\ asked = {} /\ late = {}
    /\ tries = [m \in ContactMessage |-> 0]
    /\ scribe = [w \in Transcriber |-> Listening]
    /\ overruns = [m \in ContactMessage |-> 0]

-------------------------------------------------------------------------------
ClerkAt(c, step) == clerk[c].at = step
ClerkDo(c, r) == clerk' = [clerk EXCEPT ![c] = r]
ClerkGoTo(c, step) == ClerkDo(c, [clerk[c] EXCEPT !.at = step])

\* PrivacyRepository.create looks for one that is pending, then inserts.
FindOpenRequest(c, q) ==
    /\ clerk[c] = ClerkIdle
    /\ request[q] = "none"
    /\ \A r \in PrivacyRequest : request[r] # "pending"
    /\ ClerkDo(c, [at |-> "create", req |-> q])
    /\ UNCHANGED <<contentVars, request, voiceVars, asked, scribe, overruns>>

CreateRequest(c) ==
    /\ ClerkAt(c, "create")
    /\ request[clerk[c].req] = "none"
    /\ request' = [request EXCEPT ![clerk[c].req] = "pending"]
    /\ ClerkDo(c, ClerkIdle)
    /\ UNCHANGED <<contentVars, voiceVars, asked, scribe, overruns>>

ProcessRequest(c, q) ==
    /\ clerk[c] = ClerkIdle
    /\ request[q] = "pending"
    /\ ClerkDo(c, [at |-> "messages", req |-> q, ids |-> {}, files |-> {}, texts |-> {}])
    /\ UNCHANGED <<contentVars, request, voiceVars, asked, scribe, overruns>>

\* eraseContact reads the ids inside its transaction.
ReadMessageIds(c) ==
    /\ ClerkAt(c, "messages")
    /\ ClerkDo(c, [clerk[c] EXCEPT !.at = "contact",
                                   !.ids = {m \in ContactMessage : body[m] # "none"}])
    /\ UNCHANGED <<contentVars, request, voiceVars, asked, scribe, overruns>>

\* Inside the transaction, with rows locked that nobody else can write.
Redacting(c) == clerk[c].at \in {"files", "texts", "commit"}

\* The contact's row comes first and makes erasures of it wait for each other; the
\* messages' rows come with it, as nobody else updates their text.
RedactContact(c) ==
    /\ ClerkAt(c, "contact")
    /\ \A d \in Clerk \ {c} : ~Redacting(d)
    /\ ClerkGoTo(c, "files")
    /\ UNCHANGED <<contentVars, request, voiceVars, asked, scribe, overruns>>

\* Each statement finds the attachments, the transcriptions, that are there then.
RedactFiles(c) ==
    /\ ClerkAt(c, "files")
    /\ ClerkDo(c, [clerk[c] EXCEPT !.at = "texts",
                                   !.files = {m \in @ \union clerk[c].ids : file[m] # "none"}])
    /\ UNCHANGED <<contentVars, request, voiceVars, asked, scribe, overruns>>

RedactTexts(c) ==
    /\ ClerkAt(c, "texts")
    /\ ClerkDo(c, [clerk[c] EXCEPT !.at = "commit",
                                   !.texts = {m \in @ \union clerk[c].ids : voice[m] # "none"}])
    /\ UNCHANGED <<contentVars, request, voiceVars, asked, scribe, overruns>>

Redact(f, ms) == [m \in ContactMessage |-> IF m \in ms THEN "redacted" ELSE f[m]]

\* Mutant: attachments are stamped and keep their storage_key.
CommitKeepingFiles(c) ==
    /\ ClerkAt(c, "commit")
    /\ body' = Redact(body, clerk[c].ids)
    /\ spoken' = spoken \ clerk[c].texts
    /\ ClerkGoTo(c, "complete")
    /\ UNCHANGED <<file, late, request, voice, tries, leased, asked, scribe, overruns>>

\* The transaction commits, and what it wrote is there for everyone.
CommitErasure(c) ==
    /\ ClerkAt(c, "commit")
    /\ body' = Redact(body, clerk[c].ids)
    /\ file' = Redact(file, clerk[c].files)
    /\ spoken' = spoken \ clerk[c].texts
    /\ ClerkGoTo(c, "complete")
    /\ UNCHANGED <<late, request, voice, tries, leased, asked, scribe, overruns>>

\* Conditional on the status (and the version, which changes with it).
CompleteRequest(c) ==
    /\ ClerkAt(c, "complete")
    /\ request' = IF request[clerk[c].req] = "pending"
                  THEN [request EXCEPT ![clerk[c].req] = "completed"] ELSE request
    /\ ClerkDo(c, ClerkIdle)
    /\ UNCHANGED <<contentVars, voiceVars, asked, scribe, overruns>>

\* The process stops or a call rejects: the transaction is rolled back.
AbandonRequest(c) ==
    /\ clerk[c] # ClerkIdle
    /\ ClerkDo(c, ClerkIdle)
    /\ UNCHANGED <<contentVars, request, voiceVars, asked, scribe, overruns>>

-------------------------------------------------------------------------------
\* An erasure has committed, or one has read which messages there are.
ErasureKnows == \/ \E m \in ContactMessage : body[m] = "redacted"
                \/ \E q \in PrivacyRequest : request[q] = "completed"
                \/ \E c \in Clerk : clerk[c].at \in {"contact", "files", "texts", "commit", "complete"}

\* sendMessage and what arrives from outside: nobody asks whether the contact, or
\* the conversation, has been erased.
SendMessage(m) ==
    /\ body[m] = "none"
    /\ body' = [body EXCEPT ![m] = "stored"]
    /\ late' = IF ErasureKnows THEN late \union {m} ELSE late
    /\ UNCHANGED <<file, privacyVars, voiceVars, asked, scribe, overruns>>

AttachToMessage(m) ==
    /\ body[m] # "none"
    /\ file[m] = "none"
    /\ file' = [file EXCEPT ![m] = "stored"]
    /\ late' = IF ErasureKnows THEN late \union {m} ELSE late
    /\ UNCHANGED <<body, privacyVars, voiceVars, asked, scribe, overruns>>

-------------------------------------------------------------------------------
ScribeAt(w, step) == scribe[w].at = step
ScribeDo(w, r) == scribe' = [scribe EXCEPT ![w] = r]
ScribeGoTo(w, step) == ScribeDo(w, [scribe[w] EXCEPT !.at = step])

\* A transcription's row is locked by an erasure that has not committed.
Locked(m) == \E c \in Clerk : ClerkAt(c, "commit") /\ m \in clerk[c].texts

\* TranscriptionsRepository.queue: an attachment that is not redacted, without a
\* transcription; then the insert, whose attachment_id is unique.
AskTranscription(m) ==
    /\ file[m] = "stored"
    /\ voice[m] = "none"
    /\ asked' = asked \union {m}
    /\ UNCHANGED <<contentVars, privacyVars, voiceVars, scribe, overruns>>

QueueTranscription(m) ==
    /\ m \in asked
    /\ asked' = asked \ {m}
    /\ voice' = [voice EXCEPT ![m] = IF @ = "none" THEN "pending" ELSE @]
    /\ UNCHANGED <<contentVars, privacyVars, spoken, tries, leased, scribe, overruns>>

\* claimTranscription: one row, locked rows skipped.
ClaimTranscription(w, m) ==
    /\ scribe[w] = Listening
    /\ \/ voice[m] = "pending"
       \/ voice[m] = "processing" /\ m \notin leased
    /\ tries[m] < MaxTranscriptionAttempts
    /\ ~Locked(m)
    /\ voice' = [voice EXCEPT ![m] = "processing"]
    /\ tries' = [tries EXCEPT ![m] = @ + 1]
    /\ leased' = leased \union {m}
    /\ ScribeDo(w, [at |-> "job", msg |-> m, key |-> FALSE])
    /\ UNCHANGED <<contentVars, privacyVars, spoken, asked, overruns>>

\* getJob reads the storage key as it is; an erasure leaves none.
GetTranscriptionJob(w) ==
    LET m == scribe[w].msg
    IN  /\ ScribeAt(w, "job")
        /\ IF voice[m] = "processing"
           THEN ScribeDo(w, [scribe[w] EXCEPT !.at = "audio", !.key = file[m] = "stored"])
           ELSE ScribeGoTo(w, "fail")
        /\ UNCHANGED <<contentVars, privacyVars, voiceVars, asked, overruns>>

\* getStorage and the speech provider: without a key there is nothing to read.
Transcribe(w) ==
    /\ ScribeAt(w, "audio")
    /\ scribe[w].key
    /\ ScribeGoTo(w, "complete")
    /\ UNCHANGED <<contentVars, privacyVars, voiceVars, asked, overruns>>

CompleteTranscription(w) ==
    LET m == scribe[w].msg
    IN  /\ ScribeAt(w, "complete")
        /\ ~Locked(m)
        /\ \/ /\ voice[m] = "processing"
              /\ voice' = [voice EXCEPT ![m] = "completed"]
              /\ spoken' = spoken \union {m}
              /\ leased' = leased \ {m}
              /\ ScribeDo(w, Listening)
           \/ /\ voice[m] # "processing"
              /\ ScribeGoTo(w, "fail")
              /\ UNCHANGED <<voice, spoken, leased>>
        /\ UNCHANGED <<contentVars, privacyVars, tries, asked, overruns>>

\* A call in the try block rejects.
TranscriptionError(w) ==
    /\ scribe[w].at \in {"job", "audio", "complete"}
    /\ ScribeGoTo(w, "fail")
    /\ UNCHANGED <<contentVars, privacyVars, voiceVars, asked, overruns>>

\* fail: attempts are read, then the row is updated whatever its status is by now.
ReadAttempts(w) ==
    LET m == scribe[w].msg
    IN  /\ ScribeAt(w, "fail")
        /\ ScribeGoTo(w, IF tries[m] >= MaxTranscriptionAttempts THEN "failed" ELSE "pending")
        /\ UNCHANGED <<contentVars, privacyVars, voiceVars, asked, overruns>>

FailTranscription(w) ==
    LET m == scribe[w].msg
    IN  /\ scribe[w].at \in {"failed", "pending"}
        /\ ~Locked(m)
        /\ voice' = [voice EXCEPT ![m] = scribe[w].at]
        /\ leased' = leased \ {m}
        /\ ScribeDo(w, Listening)
        /\ UNCHANGED <<contentVars, privacyVars, spoken, tries, asked, overruns>>

\* Mutant: retry does not look at the status.
RetryAnything(m) ==
    /\ voice[m] \notin {"none", "pending"}
    /\ ~Locked(m)
    /\ voice' = [voice EXCEPT ![m] = "pending"]
    /\ tries' = [tries EXCEPT ![m] = 0]
    /\ leased' = leased \ {m}
    /\ UNCHANGED <<contentVars, privacyVars, spoken, asked, scribe, overruns>>

RetryTranscription(m) ==
    /\ voice[m] = "failed"
    /\ ~Locked(m)
    /\ voice' = [voice EXCEPT ![m] = "pending"]
    /\ tries' = [tries EXCEPT ![m] = 0]
    /\ leased' = leased \ {m}
    /\ UNCHANGED <<contentVars, privacyVars, spoken, asked, scribe, overruns>>

\* Five minutes pass, with the worker still at it or gone.
TranscriptionLeaseExpires(m) ==
    /\ m \in leased
    /\ overruns[m] < MaxOverruns
    /\ overruns' = [overruns EXCEPT ![m] = @ + 1]
    /\ leased' = leased \ {m}
    /\ \/ UNCHANGED scribe
       \/ \E w \in Transcriber : /\ scribe[w] # Listening
                                 /\ scribe[w].msg = m
                                 /\ ScribeDo(w, Listening)
    /\ UNCHANGED <<contentVars, privacyVars, voice, spoken, tries, asked>>

ErasureNext ==
    \/ \E c \in Clerk :
          \/ \E q \in PrivacyRequest : FindOpenRequest(c, q) \/ ProcessRequest(c, q)
          \/ CreateRequest(c) \/ ReadMessageIds(c) \/ RedactContact(c) \/ RedactFiles(c)
          \/ RedactTexts(c) \/ CommitErasure(c) \/ CompleteRequest(c) \/ AbandonRequest(c)
    \/ \E m \in ContactMessage :
          \/ SendMessage(m) \/ AttachToMessage(m)
          \/ AskTranscription(m) \/ QueueTranscription(m) \/ RetryTranscription(m)
          \/ TranscriptionLeaseExpires(m)
    \/ \E w \in Transcriber :
          \/ \E m \in ContactMessage : ClaimTranscription(w, m)
          \/ GetTranscriptionJob(w) \/ Transcribe(w) \/ CompleteTranscription(w)
          \/ TranscriptionError(w) \/ ReadAttempts(w) \/ FailTranscription(w)

ErasureSpec == ErasureInit /\ [][ErasureNext]_erasureVars

-------------------------------------------------------------------------------
\* "The personal data is genuinely gone" (erasure.ts): a completed request leaves no
\* message and no file of the contact that was there when the erasure looked, though
\* messages keep coming and requests overlap or stop half way.
SurvivorsCameLate ==
    (\E q \in PrivacyRequest : request[q] = "completed")
        => \A m \in ContactMessage : (body[m] = "stored" \/ file[m] = "stored") => m \in late

\* The file is redacted, its text is gone and no worker has read the storage key
\* before.
Silenced(m) ==
    /\ file[m] = "redacted"
    /\ m \notin spoken
    /\ \A w \in Transcriber : scribe[w] # Listening /\ scribe[w].msg = m => ~scribe[w].key

\* What was said does not come back by an attempt or a retry once it is silenced
\* (getJob, complete, eraseContact); and a completed transcription is reopened only
\* where a lease ran out: fail() looks at no status, but as long as one worker
\* holds the job its failure comes first.
TranscriptIsSettled ==
    [][\A m \in ContactMessage :
          /\ Silenced(m) => Silenced(m)'
          /\ voice[m] = "completed" /\ voice'[m] # "completed" => overruns[m] > 0]_erasureVars
================================================================================
