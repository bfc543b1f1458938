---------------------------- MODULE MediaStudio ----------------------------
(* The media studio page (ui/web/src/routes/MediaStudio.tsx) and the service
   that runs its jobs (internal/media/service.go, store.go): every generation
   is a paid request to an outside provider, submitted by a goroutine that a
   restart of the daemon kills between any two of its steps.

   jobs     the media_jobs rows: kind, status, provider task, asset rows, and
            the output files beside them
   runner   where the goroutine of a job stands (service.running), and what
            its copy of the job says; a job without one is not in the domain
   copies   jobs read for a repeated request that is about to start them
   asked    how often a request for the job was served
   paid     how often the provider was asked to generate for it
   dropped  jobs that a failed write left without a goroutine
   page     the form, the jobs query's cached list and the selection
   calls    HTTP requests of the page that are not answered yet *)
EXTENDS Naturals, FiniteSets, TLC

CONSTANTS
    None,
    Kinds,        \* the workflows offered
    MaxActive,    \* active jobs an actor may have (4 in store.go)
    MaxJobs,      \* bound: jobs ever created
    MaxRepeats,   \* bound: requests that come again with their key
    MaxCrashes    \* bound: restarts of the daemon

VARIABLES jobs, runner, copies, asked, paid, dropped, page, calls, crashes

mediaVars == <<jobs, runner, copies, asked, paid, dropped, page, calls, crashes>>
service == <<jobs, runner, copies, asked, paid, dropped>>

activeStatus(status) == status \in {"queued", "submitting", "running"}

asynchronous(kind) ==
    kind \in {"text-to-image", "image-to-image", "text-to-video",
              "image-to-video", "inpainting", "upscale"}

(* The inputs that a workflow shows, and that normalizeRequest insists on. *)
MediaControls(kind) ==
    (IF kind \in {"text-to-image", "text-to-video"} THEN {} ELSE {"image"})
    \union (IF kind \in {"cleanup", "inpainting"} THEN {"mask"} ELSE {})
    \union (IF kind = "merge-face" THEN {"face"} ELSE {})
    \union (IF kind \in {"text-to-image", "image-to-image", "text-to-video",
                         "replace-background", "inpainting"} THEN {"prompt"} ELSE {})

defaultForm(kind) == [kind |-> kind, filled |-> {}]

MediaInit ==
    /\ jobs = <<>> /\ runner = <<>> /\ copies = {} /\ asked = <<>> /\ paid = <<>> /\ dropped = {}
    /\ calls = {} /\ crashes = 0
    /\ \E k \in Kinds : page = [form |-> defaultForm(k), reading |-> {}, list |-> <<>>,
                                selectedID |-> None, deleteArmedID |-> None]

Page(p) == page' = p /\ UNCHANGED <<service, crashes>>

(***************************** the page **********************************)

Selected(id) ==
    id \in DOMAIN page.list /\ (page.selectedID \in DOMAIN page.list => page.selectedID = id)

chooseWorkflow(kind) ==
    /\ Page([page EXCEPT !.form = defaultForm(kind)])
    /\ UNCHANGED calls

(* The prompt and the settings of a job come back; its images do not. *)
useSettings(id) ==
    /\ Selected(id)
    /\ Page([page EXCEPT !.form = [kind |-> page.list[id].kind,
                                   filled |-> {"prompt"} \intersect MediaControls(page.list[id].kind)]])
    /\ UNCHANGED calls

TypePrompt ==
    /\ "prompt" \in MediaControls(page.form.kind)
    /\ Page([page EXCEPT !.form.filled = @ \union {"prompt"}])
    /\ UNCHANGED calls

(* choose awaits the file reader, and onChange then writes into whatever form
   is current: changing the workflow does not stop a read. *)
choose(input) ==
    /\ input \in MediaControls(page.form.kind) \ {"prompt"}
    /\ input \notin page.reading
    /\ Page([page EXCEPT !.reading = @ \union {input}])
    /\ UNCHANGED calls

readImage(input) ==
    /\ input \in page.reading
    /\ \/ Page([page EXCEPT !.reading = @ \ {input}, !.form.filled = @ \union {input}])
       \/ Page([page EXCEPT !.reading = @ \ {input}])
    /\ UNCHANGED calls

Pending(op) == \E c \in calls : c.op = op

submit ==
    /\ ~Pending("create") /\ Cardinality(DOMAIN paid) < MaxJobs
    /\ "prompt" \in MediaControls(page.form.kind) => "prompt" \in page.form.filled
    /\ calls' = calls \union {[op |-> "create", kind |-> page.form.kind, id |-> None, answer |-> None,
                                whole |-> MediaControls(page.form.kind) \subseteq page.form.filled]}
    /\ Page(page)

setSelectedID(id) ==
    /\ id \in DOMAIN page.list
    /\ Page([page EXCEPT !.selectedID = id])
    /\ UNCHANGED calls

(* The first press arms the button for the selected job, the second sends. *)
Delete(id) ==
    /\ Selected(id) /\ page.list[id].settled /\ ~Pending("delete")
    /\ IF page.deleteArmedID = id
       THEN /\ calls' = calls \union {[op |-> "delete", kind |-> None, id |-> id, answer |-> None,
                                            whole |-> TRUE]}
            /\ Page(page)
       ELSE Page([page EXCEPT !.deleteArmedID = id]) /\ UNCHANGED calls

(* What the stage shows of a job: the reason it stopped, its outputs, or that
   the generation is still going on. *)
MediaCanvas(job) ==
    IF job.status = "failed" THEN "failed" ELSE IF job.assets THEN "outputs" ELSE "working"

(* The list is fetched on mount, after each mutation and every two seconds
   while it holds an active job; an empty selection takes the first row. *)
Refetch ==
    /\ \E first \in DOMAIN jobs \union {None} :
         /\ first = None <=> DOMAIN jobs = {}
         /\ Page([page EXCEPT !.list = [id \in DOMAIN jobs |-> [kind |-> jobs[id].kind, canvas |-> MediaCanvas(jobs[id]),
                                       settled |-> ~activeStatus(jobs[id].status)]],
                              !.selectedID = IF @ = None THEN first ELSE @])
    /\ UNCHANGED calls

onSuccess(c) ==
    /\ c.answer = "ok"
    /\ calls' = calls \ {c}
    /\ Page(IF c.op = "create" THEN [page EXCEPT !.selectedID = c.id]
            ELSE [page EXCEPT !.selectedID = None, !.deleteArmedID = None])

onError(c) ==
    /\ c.answer = "error"
    /\ calls' = calls \ {c}
    /\ Page(page)

(**************************** the service ********************************)

Answer(c, id, answer) ==
    /\ c.answer = None
    /\ calls' = (calls \ {c}) \union {[c EXCEPT !.id = id, !.answer = answer]}
    /\ UNCHANGED <<page, crashes>>

Copy(id, task) == [phase |-> "run", kind |-> jobs[id].kind, task |-> task]

Create(c) ==
    /\ c.op = "create"
    /\ c.whole
    /\ Cardinality({id \in DOMAIN jobs : activeStatus(jobs[id].status)}) < MaxActive
    /\ \E id \in {Cardinality(DOMAIN paid) + 1} :
         /\ jobs' = jobs @@ (id :> [kind |-> c.kind, status |-> "queued", task |-> FALSE,
                                    assets |-> FALSE, files |-> FALSE])
         /\ paid' = paid @@ (id :> 0) /\ asked' = asked @@ (id :> 1)
         /\ runner' = runner @@ (id :> [phase |-> "run", kind |-> c.kind, task |-> FALSE])
         /\ Answer(c, id, "ok")
    /\ UNCHANGED <<copies, dropped>>

(* A request that comes again with the key of a job finds it (store.Create), *)
Again(id) ==
    /\ asked[id] <= MaxRepeats /\ asked' = [asked EXCEPT ![id] = @ + 1]
    /\ copies' = copies \union {[id |-> id, job |-> Copy(id, jobs[id].task)]}
    /\ UNCHANGED <<jobs, runner, paid, dropped, page, calls, crashes>>
(* and starts it again, as it was read, unless it is running (start). *)
StartAgain(copy) ==
    /\ copies' = copies \ {copy}
    /\ runner' = IF copy.id \in DOMAIN runner THEN runner ELSE runner @@ (copy.id :> copy.job)
    /\ UNCHANGED <<jobs, asked, paid, dropped, page, calls, crashes>>

Without(f, id) == [x \in DOMAIN f \ {id} |-> f[x]]

(* Delete looks at the status and removes the row in two steps. *)
DeleteChecked(c) ==
    /\ c.op = "delete" /\ c.id \in DOMAIN jobs /\ ~activeStatus(jobs[c.id].status)
    /\ Answer(c, c.id, "settled")
    /\ UNCHANGED service
DeleteJob(c) ==
    /\ c.answer = "settled" /\ c.id \in DOMAIN jobs
    /\ jobs' = Without(jobs, c.id)
    /\ calls' = (calls \ {c}) \union {[c EXCEPT !.answer = "ok"]}
    /\ UNCHANGED <<runner, copies, asked, paid, dropped, page, crashes>>

(* Invalid input, too many active jobs, a job that is gone or still active, or
   a connection that fails. *)
Refused(c) == Answer(c, c.id, "error") /\ UNCHANGED service

At(id, phase) == id \in DOMAIN runner /\ runner[id].phase = phase
Stays == UNCHANGED <<copies, asked, page, calls, crashes>>
Goes(id, phase) == runner' = [runner EXCEPT ![id].phase = phase] /\ UNCHANGED dropped /\ Stays
Leaves(id) == runner' = Without(runner, id) /\ Stays

Update(id, status, task) ==
    /\ id \in DOMAIN jobs
    /\ jobs' = [jobs EXCEPT ![id].status = status, ![id].task = task]

run(id) ==
    /\ At(id, "run") /\ id \in DOMAIN jobs
    /\ IF runner[id].task
       THEN Goes(id, "poll") /\ UNCHANGED jobs
       ELSE Update(id, "submitting", FALSE) /\ Goes(id, "submit")
    /\ UNCHANGED paid

(* The provider takes the request; its answer may still be lost. *)
clientSubmit(id) ==
    /\ At(id, "submit")
    /\ paid' = [paid EXCEPT ![id] = @ + 1]
    /\ Goes(id, IF asynchronous(runner[id].kind) THEN "accepted" ELSE "complete")
    /\ UNCHANGED jobs

recordTask(id) ==
    /\ At(id, "accepted")
    /\ Update(id, "running", TRUE) /\ UNCHANGED <<paid, dropped>> /\ Stays
    /\ runner' = [runner EXCEPT ![id].phase = "poll", ![id].task = TRUE]

(* A write of run that fails, or finds no row, ends the goroutine. *)
WriteFails(id) ==
    /\ id \in DOMAIN runner
    /\ runner[id].phase = "accepted" \/ (runner[id].phase = "run" /\ ~runner[id].task)
    /\ dropped' = dropped \union {id} /\ Leaves(id) /\ UNCHANGED <<jobs, paid>>

(* The provider is still working, or has the outputs. *)
poll(id) ==
    /\ At(id, "poll")
    /\ \/ Update(id, "running", TRUE) /\ Goes(id, "poll")
       \/ Goes(id, "complete") /\ UNCHANGED jobs
    /\ UNCHANGED paid

(* An output file is written exclusively: one that is already there makes the
   attempt fail. *)
writeExclusive(id) ==
    /\ At(id, "complete") /\ id \in DOMAIN jobs /\ ~jobs[id].files
    /\ jobs' = [jobs EXCEPT ![id].files = TRUE]
    /\ Goes(id, "written") /\ UNCHANGED paid
complete(id) ==
    /\ At(id, "written") /\ id \in DOMAIN jobs
    /\ jobs' = [jobs EXCEPT ![id].assets = TRUE]
    /\ Goes(id, "stored") /\ UNCHANGED paid
finish(id) ==
    /\ At(id, "stored") /\ Update(id, "succeeded", runner[id].task)
    /\ Leaves(id) /\ UNCHANGED <<paid, dropped>>

(* Submission refused, no task id, provider failure, the 30 minute window, or
   outputs that cannot be fetched, verified or stored; an attempt that wrote
   files removes them, though not the rows of the first ones.  Nobody looks
   at the error of this write. *)
fail(id) ==
    /\ id \in DOMAIN runner
    /\ \E saved \in BOOLEAN, rows \in BOOLEAN :
         /\ rows => At(id, "written")
         /\ jobs' = IF id \notin DOMAIN jobs THEN jobs
                    ELSE [jobs EXCEPT ![id].status = IF saved THEN "failed" ELSE @,
                                      ![id].task = IF saved THEN runner[id].task ELSE @,
                                      ![id].files = @ /\ ~At(id, "written"),
                                      ![id].assets = @ \/ rows]
         /\ dropped' = IF saved THEN dropped ELSE dropped \union {id}
    /\ Leaves(id) /\ UNCHANGED paid

(* A crash, or Close, which cancels the goroutines without settling a job. *)
Crash ==
    /\ crashes < MaxCrashes
    /\ crashes' = crashes + 1
    /\ runner' = None /\ copies' = {}
    /\ calls' = {[c EXCEPT !.answer = IF @ \in {None, "settled"} THEN "error" ELSE @] : c \in calls}
    /\ UNCHANGED <<jobs, asked, paid, dropped, page>>

ResubmitInterrupted ==
    /\ runner = None
    /\ runner' = [id \in {i \in DOMAIN jobs : activeStatus(jobs[i].status)} |-> Copy(id, jobs[id].task)]
    /\ UNCHANGED <<jobs, copies, asked, paid, dropped, page, calls, crashes>>

(* A submission whose task id was never recorded may have been paid for: it
   fails, unless even that write does; every other active job runs again. *)
Open ==
    /\ runner = None
    /\ LET active == {id \in DOMAIN jobs : activeStatus(jobs[id].status)}
           lost == {id \in active : jobs[id].status = "submitting" /\ ~jobs[id].task} IN
       /\ dropped' \in SUBSET lost
       /\ jobs' = [id \in DOMAIN jobs |->
                     IF id \in lost \ dropped' THEN [jobs[id] EXCEPT !.status = "failed"] ELSE jobs[id]]
       /\ runner' = [id \in active \ lost |-> Copy(id, jobs[id].task)]
    /\ UNCHANGED <<copies, asked, paid, page, calls, crashes>>

\* What the page offers around the form: the workflows and the generation history.
MediaStudioPage ==
    \/ \E k \in Kinds : chooseWorkflow(k)
    \/ \E id \in DOMAIN page.list : useSettings(id) \/ setSelectedID(id) \/ Delete(id)

MediaNext ==
    \/ MediaStudioPage \/ TypePrompt \/ submit
    \/ \E input \in {"image", "mask", "face"} : choose(input) \/ readImage(input)
    \/ \E c \in calls : onSuccess(c) \/ onError(c)
    \/ /\ runner # None
       /\ \/ Refetch \/ Crash
          \/ \E c \in calls : Create(c) \/ DeleteChecked(c) \/ DeleteJob(c) \/ Refused(c)
          \/ \E id \in DOMAIN jobs : Again(id)
          \/ \E copy \in copies : StartAgain(copy)
          \/ \E id \in DOMAIN runner :
               \/ run(id) \/ clientSubmit(id) \/ recordTask(id) \/ WriteFails(id) \/ poll(id)
               \/ writeExclusive(id) \/ complete(id) \/ finish(id) \/ fail(id)
    \/ Open

MediaSpec == MediaInit /\ [][MediaNext]_mediaVars

MediaTypeOK ==
    /\ DOMAIN jobs \subseteq DOMAIN paid
    /\ \A id \in DOMAIN jobs :
         jobs[id] \in [kind : Kinds, status : {"queued", "submitting", "running", "succeeded", "failed"},
                       task : BOOLEAN, assets : BOOLEAN, files : BOOLEAN]

(* A generation is paid for at most once for each time it is asked for: no
   restart, failed write or deletion adds to that, and only a request that
   comes again with its key does (service.go Create, Open, run).  Every job the
   library shows as active is being worked on while the daemon is up, but for
   those a failed write left behind, which the next start settles; and a job
   that succeeded has its outputs and was paid for, also when it is run again,
   so the stage never shows a settled job as still generating. *)
MediaSafe ==
    /\ MediaTypeOK
    /\ \A id \in DOMAIN paid : paid[id] <= asked[id]
    /\ \A id \in DOMAIN jobs : jobs[id].status = "succeeded" => jobs[id].assets /\ paid[id] >= 1
    /\ \A id \in DOMAIN page.list : page.list[id].settled => page.list[id].canvas # "working"
    /\ runner # None =>
         {id \in DOMAIN jobs : activeStatus(jobs[id].status)} \subseteq DOMAIN runner \union dropped
=============================================================================
